--------------------------- MODULE Cleaner_proofs ---------------------------
(***************************************************************************)
(* What holds of haarpClean and the children next to it whatever the       *)
(* files, the children, the days and the requests: a saved map names bytes *)
(* that are on the disk, and a file has a row, unless one of the races     *)
(* that Cleaner remembers in `raced' struck; and what the passes leave     *)
(* behind, and in which order they delete.                                 *)
(***************************************************************************)
EXTENDS Cleaner, FiniteSetTheorems, WellFoundedInduction, TLAPS

(***************************************************************************)
(* Types.                                                                  *)
(***************************************************************************)

Maps == SUBSET Blocks

Rows == [day : 0 .. Today, asked : Nat, map : Maps \cup {NULL},
         used : BOOLEAN, size : Nat]

Requested == [at : {"locked", "found", "missing", "hit", "miss", "open", "reading"}, f : Files,
              want : Maps, map : Maps, new : BOOLEAN, linked : BOOLEAN]

TableType ==
  /\ row \in [Files -> Rows \cup {NoRow}]
  /\ older \in SUBSET (Files \X Files)
  /\ disk \in [Files -> Maps \cup {NoFile}]

ChildType == child \in [Children -> Requested \cup {Idle}]

CleanerType ==
  /\ mode \in {"limit", "dates", "file"}
  /\ pc \in {"begin", "select", "remove", "end", "empty", "tidy", "dead"}
  /\ date_min \in 0 .. Today /\ date_max \in 0 .. Today
  /\ fase \in 0 .. EXACT /\ hit \in Nat /\ flag \in BOOLEAN
  /\ todo \in SUBSET [file : Files, filesize : Nat]
  /\ mb_eliminate \in Nat

PastType ==
  /\ met \in SUBSET Files
  /\ crossed \in BOOLEAN
  /\ raced \in SUBSET Files /\ stuck \in SUBSET Files

TypeOK == TableType /\ ChildType /\ CleanerType /\ PastType

\* What a child still has open under its name is in the cache directory.
LinkedFiles ==
  \A c \in Children, f \in Files : AtWork(c, f) /\ child[c].linked => OnDisk(f)

(***************************************************************************)
(* Rows, files and requests.                                               *)
(***************************************************************************)

\* A set of blocks has a size.
LEMMA MapSize ==
  ASSUME NEW map \in Maps
  PROVE  Cardinality(map) \in Nat
BY CleanerAssumption, FS_Subset, FS_CardinalityType DEF Maps

\* The rows that Init and lockFile() make are rows.
LEMMA RowIsRow ==
  ASSUME NEW day \in 0 .. Today, NEW asked \in Nat, NEW map \in Maps \cup {NULL}
  PROVE  /\ Row(day, asked, map) \in Rows
         /\ Row(day, asked, map) # NoRow
         /\ Row(day, asked, map).map = map
<1>1. Row(day, asked, map).size \in Nat
  BY MapSize DEF Row
<1>2. NoRow.day = -1 /\ Row(day, asked, map).day = day
  BY DEF NoRow, Row
<1> QED
  BY <1>1, <1>2 DEF Row, Rows

\* What is not NoRow is a row.
LEMMA RowType ==
  ASSUME TableType, NEW f \in Files, HasRow(f)
  PROVE  /\ row[f] \in Rows
         /\ row[f].map \in Maps \cup {NULL}
         /\ row[f].size \in Nat
BY DEF TableType, HasRow, Rows

\* A file is not NoFile, whatever is in it.
LEMMA FileType ==
  ASSUME NEW map \in Maps
  PROVE  map # NoFile
BY CleanerAssumption DEF Maps, NoFile

\* A changed row is a row.
LEMMA ChangedRow ==
  ASSUME NEW r, r \in Rows, NEW s, s.day = r.day
  PROVE  s # NoRow
<1>1. r.day \in 0 .. Today
  BY DEF Rows
<1>2. NoRow.day = -1
  BY DEF NoRow
<1> QED
  BY <1>1, <1>2, CleanerAssumption

\* The request of a child at work.
LEMMA WorkType ==
  ASSUME ChildType, NEW c \in Children, child[c].at # "idle"
  PROVE  child[c] \in Requested
BY DEF ChildType, Idle

\* A set of numbers has a least member.
LEMMA LeastNat ==
  ASSUME NEW T \in SUBSET Nat, T # {}
  PROVE  \E m \in T : \A n \in T : m <= n
<1>1. PICK m \in T : \A n \in T : ~ (<<n, m>> \in OpToRel(<, Nat))
  BY WFMin, NatLessThanWellFounded
<1>2. ASSUME NEW n \in T PROVE m <= n
  <2>1. n \in Nat /\ m \in Nat
    OBVIOUS
  <2>2. ~ (n < m)
    BY <1>1, <2>1 DEF OpToRel
  <2>3. QED  BY <2>1, <2>2
<1>3. QED  BY <1>2

\* A set of numbers up to n has a greatest member.
LEMMA GreatestNat ==
  ASSUME NEW n \in Nat, NEW T \in SUBSET (0 .. n), T # {}
  PROVE  Max(T) \in T /\ \A m \in T : m <= Max(T)
<1> DEFINE Below == {n - m : m \in T}
<1>1. Below \in SUBSET Nat /\ Below # {}
  <2>1. ASSUME NEW m \in T PROVE n - m \in Nat
    <3>1. m \in 0 .. n
      OBVIOUS
    <3>2. QED  BY <3>1
  <2>2. QED  BY <2>1
<1>2. PICK b \in Below : \A a \in Below : b <= a
  BY <1>1, LeastNat
<1>3. PICK t \in T : b = n - t
  OBVIOUS
<1>4. ASSUME NEW m \in T PROVE t >= m
  <2>1. b <= n - m
    BY <1>2
  <2>2. m \in 0 .. n /\ t \in 0 .. n
    OBVIOUS
  <2>3. QED  BY <1>3, <2>1, <2>2
<1>5. Max(T) \in T /\ \A m \in T : Max(T) >= m
  BY <1>4 DEF Max
<1>6. ASSUME NEW m \in T PROVE m <= Max(T)
  <2>1. Max(T) >= m /\ m \in 0 .. n /\ Max(T) \in 0 .. n
    BY <1>5
  <2>2. QED  BY <2>1
<1>7. QED  BY <1>5, <1>6

\* The oldest and the newest day of a table with rows are days.
LEMMA DaysAreDays ==
  ASSUME TableType, Days # {}
  PROVE  /\ Min(Days) \in 0 .. Today /\ Max(Days) \in 0 .. Today
         /\ Min(Days) <= Max(Days)
<1>1. Today \in Nat
  BY CleanerAssumption
<1>2. Days \in SUBSET (0 .. Today)
  <2>1. ASSUME NEW f \in Files, HasRow(f) PROVE row[f].day \in 0 .. Today
    BY <2>1, RowType DEF Rows
  <2>2. QED  BY <2>1 DEF Days
<1>3. Min(Days) \in Days /\ \A n \in Days : Min(Days) <= n
  <2>1. Days \in SUBSET Nat
    BY <1>1, <1>2
  <2>2. PICK m \in Days : \A n \in Days : m <= n
    BY <2>1, LeastNat
  <2>3. QED  BY <2>2 DEF Min
<1>4. Max(Days) \in Days
  BY <1>1, <1>2, GreatestNat
<1>5. QED  BY <1>2, <1>3, <1>4

\* The blocks requested of a file, up to the bound, are a number of the two.
LEMMA CountedNat ==
  ASSUME NEW n \in Nat
  PROVE  Counted(n) \in Nat
<1>1. MaxAsked \in Nat
  BY CleanerAssumption
<1>2. PICK m \in {n, MaxAsked} : \A k \in {n, MaxAsked} : m <= k
  BY <1>1, LeastNat
<1>3. QED  BY <1>1, <1>2 DEF Counted, Min

(***************************************************************************)
(* Every step keeps the types.                                             *)
(***************************************************************************)

\* What a step of a child on a file does to the history.
LEMMA MetTypes ==
  ASSUME TypeOK, NEW f \in Files, Met(f)
  PROVE  CleanerType' /\ PastType'
BY DEF TypeOK, CleanerType, PastType, Met, cleaner

\* The children keep the types.
LEMMA ChildTypes ==
  ASSUME TypeOK, LinkedFiles, ChildStep
  PROVE  TypeOK'
<1> USE DEF TypeOK
<1>1. PICK c \in Children, f \in Files :
        \/ \E want \in Wanted : lockFile(c, f, want)
        \/ Look(c, f) \/ NotOnDisk(c, f) \/ RowMissing(c, f) \/ MapMissing(c, f)
        \/ MissOrHit(c, f) \/ OpenToWrite(c, f) \/ Write(c, f) \/ SubUpdate(c, f)
        \/ Update(c, f) \/ OpenToRead(c, f) \/ Die(c, f)
        \/ \E n \in 0 .. Cardinality(Blocks) : ServeHit(c, f, n)
  BY CleanerAssumption DEF ChildStep
<1>2. ASSUME NEW want \in Wanted, lockFile(c, f, want) PROVE TypeOK'
  <2>1. CleanerType' /\ PastType'
    BY <1>2, MetTypes DEF lockFile
  <2>2. Today \in Nat
    BY CleanerAssumption
  <2>3. ChildType'
    <3>1. want \in Maps /\ {} \in Maps
      BY CleanerAssumption DEF Maps
    <3> DEFINE r == [at |-> "locked", f |-> f, want |-> want, map |-> {}, new |-> ~HasRow(f),
                     linked |-> FALSE]
    <3>2. r \in Requested
      BY <3>1 DEF Requested
    <3>3. child' = [child EXCEPT ![c] = r]
      BY <1>2 DEF lockFile
    <3> HIDE DEF r
    <3>4. QED  BY <3>2, <3>3 DEF ChildType
  <2>4. TableType'
    <3>1. CASE HasRow(f)
      <4>1. row' = [row EXCEPT ![f].used = TRUE] /\ UNCHANGED <<older, disk>>
        BY <1>2, <3>1 DEF lockFile
      <4>2. [row[f] EXCEPT !.used = TRUE] \in Rows
        BY <3>1, RowType DEF Rows
      <4>3. QED  BY <4>1, <4>2 DEF TableType
    <3>2. CASE ~HasRow(f)
      <4>1. PICK r \in Rows : r = Row(Today, 0, NULL)
        BY <2>2, RowIsRow
      <4>2. [r EXCEPT !.used = TRUE] \in Rows
        BY DEF Rows
      <4>3. row' = [row EXCEPT ![f] = [r EXCEPT !.used = TRUE]] /\ UNCHANGED disk
        BY <1>2, <3>2, <4>1 DEF lockFile
      <4>4. older' = older \cup {<<g, f>> : g \in {h \in Files : HasRow(h)}}
        BY <1>2, <3>2 DEF lockFile
      <4>5. QED  BY <4>2, <4>3, <4>4 DEF TableType
    <3>3. QED  BY <3>1, <3>2
  <2>5. QED  BY <2>1, <2>3, <2>4
<1>3. CASE Look(c, f)
  <2>1. CleanerType' /\ PastType'
    BY <1>3, MetTypes DEF Look, ChildAt
  <2>2. child[c] \in Requested
    BY <1>3, WorkType DEF Look, ChildAt
  <2>3. ChildType'
    BY <1>3, <2>2 DEF Look, To, ChildType, Requested
  <2>4. TableType'
    BY <1>3 DEF Look, base, TableType
  <2>5. QED  BY <2>1, <2>3, <2>4
<1>4. CASE NotOnDisk(c, f)
  <2>1. CleanerType' /\ PastType'
    BY <1>4, MetTypes DEF NotOnDisk, ChildAt
  <2>2. child[c] \in Requested
    BY <1>4, WorkType DEF NotOnDisk, ChildAt
  <2>3. ChildType'
    BY <1>4, <2>2 DEF NotOnDisk, Decide, ChildType, Requested, Maps
  <2>4. HasRow(f) => [row[f] EXCEPT !.map = {}] \in Rows
    BY RowType DEF Rows, Maps
  <2>5. TableType'
    BY <1>4, <2>4 DEF NotOnDisk, TableType
  <2>6. QED  BY <2>1, <2>3, <2>5
<1>5. CASE RowMissing(c, f) \/ MapMissing(c, f)
  <2>1. CleanerType' /\ PastType'
    BY <1>5, MetTypes DEF RowMissing, MapMissing, ChildAt
  <2>2. QED
    BY <1>5, <2>1 DEF RowMissing, MapMissing, base, ChildType, TableType
<1>6. CASE MissOrHit(c, f)
  <2>1. CleanerType' /\ PastType'
    BY <1>6, MetTypes DEF MissOrHit, ChildAt
  <2>2. child[c] \in Requested
    BY <1>6, WorkType DEF MissOrHit, ChildAt
  <2>3. row[f].map \in Maps
    BY <1>6, RowType DEF MissOrHit
  <2>4. ChildType'
    BY <1>6, <2>2, <2>3 DEF MissOrHit, Decide, ChildType, Requested, Maps
  <2>5. TableType'
    BY <1>6 DEF MissOrHit, base, TableType
  <2>6. QED  BY <2>1, <2>4, <2>5
<1>7. CASE OpenToWrite(c, f)
  <2>1. CleanerType' /\ PastType'
    BY <1>7, MetTypes DEF OpenToWrite, ChildAt
  <2>2. child[c] \in Requested
    BY <1>7, WorkType DEF OpenToWrite, ChildAt
  <2>3. ChildType'
    BY <1>7, <2>2 DEF OpenToWrite, ChildType, Requested
  <2>4. TableType'
    BY <1>7 DEF OpenToWrite, TableType, OnDisk, Maps
  <2>5. QED  BY <2>1, <2>3, <2>4
<1>8. CASE Write(c, f)
  <2>1. CleanerType' /\ PastType'
    BY <1>8, MetTypes DEF Write, ChildAt
  <2>2. child[c] \in Requested
    BY <1>8, WorkType DEF Write, ChildAt
  <2>3. PICK b \in child[c].want \ child[c].map :
          /\ child' = [child EXCEPT ![c].map = @ \cup {b}]
          /\ disk' = IF child[c].linked THEN [disk EXCEPT ![f] = @ \cup {b}] ELSE disk
    BY <1>8 DEF Write
  <2>4. b \in Blocks
    BY <2>2 DEF Requested, Maps
  <2>5. ChildType'
    BY <1>8, <2>2, <2>3, <2>4 DEF Write, ChildType, Requested, Maps
  <2>6. child[c].linked => disk[f] \in Maps
    BY <1>8 DEF Write, ChildAt, AtWork, LinkedFiles, OnDisk, TableType
  <2>7. UNCHANGED <<row, older>>
    BY <1>8 DEF Write
  <2>8. TableType'
    BY <2>3, <2>4, <2>6, <2>7 DEF TableType, Maps
  <2>9. QED  BY <2>1, <2>5, <2>8
<1>9. CASE SubUpdate(c, f) \/ Update(c, f)
  <2>1. CleanerType' /\ PastType'
    BY <1>9, MetTypes DEF SubUpdate, Update, ChildAt
  <2>2. child[c].map \in Maps
    BY <1>9, WorkType DEF SubUpdate, Update, ChildAt, Requested
  <2>3. ASSUME NEW used \in BOOLEAN
        PROVE  MapSaved(c, f, used) \in [Files -> Rows \cup {NoRow}]
    <3>1. Cardinality(child[c].map) \in Nat
      BY <2>2, MapSize
    <3>2. HasRow(f) => [row[f] EXCEPT !.map = child[c].map, !.used = used,
                                      !.size = Cardinality(child[c].map)] \in Rows
      BY <2>2, <3>1, RowType DEF Rows
    <3>3. QED  BY <3>2 DEF MapSaved, TableType
  <2>4. TableType'
    BY <1>9, <2>3 DEF SubUpdate, Update, TableType
  <2>5. QED
    BY <1>9, <2>1, <2>4 DEF SubUpdate, Update, ChildType
<1>10. CASE OpenToRead(c, f)
  <2>1. CleanerType' /\ PastType'
    BY <1>10, MetTypes DEF OpenToRead, ChildAt
  <2>2. child[c] \in Requested
    BY <1>10, WorkType DEF OpenToRead, ChildAt
  <2>3. ChildType'
    BY <1>10, <2>2 DEF OpenToRead, To, ChildType, Requested
  <2>4. TableType'
    BY <1>10 DEF OpenToRead, base, TableType
  <2>5. QED  BY <2>1, <2>3, <2>4
<1>11. CASE \E n \in 0 .. Cardinality(Blocks) : ServeHit(c, f, n)
  <2>1. PICK n \in 0 .. Cardinality(Blocks) : ServeHit(c, f, n)
    BY <1>11
  <2>2. CleanerType' /\ PastType'
    BY <2>1, MetTypes DEF ServeHit, ChildAt
  <2>3. ASSUME HasRow(f), NEW k \in Nat
        PROVE  [row[f] EXCEPT !.used = FALSE, !.asked = k] \in Rows
    BY <2>3, RowType DEF Rows
  <2>4. HasRow(f) => Counted(row[f].asked + n) \in Nat
    <3>1. HasRow(f) => row[f].asked + n \in Nat
      <4>1. Cardinality(Blocks) \in Nat
        BY CleanerAssumption, FS_CardinalityType
      <4>2. QED  BY <4>1, RowType DEF Rows
    <3>2. QED  BY <3>1, CountedNat
  <2>5. TableType'
    BY <2>1, <2>3, <2>4 DEF ServeHit, TableType
  <2>6. QED
    BY <2>1, <2>2, <2>5 DEF ServeHit, ChildType
<1>12. CASE Die(c, f)
  BY <1>12 DEF Die, base, past, cleaner, ChildType, TableType, CleanerType, PastType
<1>13. QED
  BY <1>1, <1>2, <1>3, <1>4, <1>5, <1>6, <1>7, <1>8, <1>9, <1>10, <1>11, <1>12

\* What a statement fetches are files with their sizes.
LEMMA FetchedType ==
  ASSUME TableType
  PROVE  Fetched \in SUBSET [file : Files, filesize : Nat]
<1>1. ASSUME NEW f \in mysql_files PROVE f \in Files /\ row[f].size \in Nat
  <2>1. f \in Files /\ HasRow(f)
    BY DEF mysql_files, Matching, Condition
  <2>2. QED  BY <2>1, RowType
<1>2. QED  BY <1>1 DEF Fetched

\* A statement that deletes leaves rows.
LEMMA DeletedType ==
  ASSUME TableType, NEW gone, Deleted(gone), UNCHANGED disk
  PROVE  TableType'
BY DEF TableType, Deleted

\* The next pass has its numbers.
LEMMA NextPassTypes ==
  ASSUME CleanerType, pc = "select", NextPass
  PROVE  /\ fase' \in 0 .. EXACT /\ hit' \in Nat /\ flag' \in BOOLEAN
         /\ pc' \in {"select", "end"}
<1>1. EXACT \in Nat /\ STEP \in Nat /\ MAX_HIT \in Nat
  BY CleanerAssumption
<1>2. NextHit \in Nat
  BY <1>1 DEF NextHit, CleanerType
<1>3. (IF fase < EXACT THEN fase + 1 ELSE EXACT) \in 0 .. EXACT
  BY <1>1 DEF CleanerType
<1>4. (NextHit >= MAX_HIT) \in BOOLEAN
  BY <1>1, <1>2
<1>5. hit' \in Nat /\ flag' \in BOOLEAN
  <2>1. CASE hit' = NextHit /\ flag' = (NextHit >= MAX_HIT)
    BY <1>2, <1>4, <2>1
  <2>2. CASE hit' = 0 /\ flag' = FALSE
    BY <2>2
  <2>3. CASE UNCHANGED <<fase, hit, flag>>
    BY <2>3 DEF CleanerType
  <2>4. QED  BY <2>1, <2>2, <2>3 DEF NextPass
<1>6. fase' \in 0 .. EXACT
  BY <1>3 DEF NextPass, CleanerType
<1>7. pc' \in {"select", "end"}
  BY DEF NextPass
<1>8. QED  BY <1>5, <1>6, <1>7

\* The cleaner keeps the types.
LEMMA WorkTypes ==
  ASSUME TypeOK, Work \/ deleteEmptyRecords \/ CleanerDies
  PROVE  TypeOK'
<1> USE DEF TypeOK
<1>1. CASE Begin
  <2>1. Days # {} => Min(Days) \in 0 .. Today /\ Max(Days) \in 0 .. Today
    BY DaysAreDays
  <2>2. Today \in Nat
    BY CleanerAssumption
  <2>3. date_min' \in 0 .. Today /\ date_max' \in 0 .. Today
    BY <1>1, <2>1, <2>2 DEF Begin, CleanerType
  <2>4. CleanerType' /\ PastType'
    BY <1>1, <2>3 DEF Begin, CleanerType, PastType
  <2>5. QED
    BY <1>1, <2>4 DEF Begin, base, TableType, ChildType
<1>2. CASE Select
  <2>1. TableType' /\ ChildType'
    BY <1>2 DEF Select, base, TableType, ChildType
  <2>2. CASE mysql_files = {}
    <3>1. NextPass /\ UNCHANGED <<todo, crossed>>
      BY <1>2, <2>2 DEF Select
    <3>2. /\ fase' \in 0 .. EXACT /\ hit' \in Nat /\ flag' \in BOOLEAN
          /\ pc' \in {"select", "end"}
      BY <1>2, <3>1, NextPassTypes DEF Select
    <3>3. QED  BY <1>2, <2>1, <3>1, <3>2 DEF Select, CleanerType, PastType
  <2>3. CASE mysql_files # {}
    <3>1. todo' = Fetched /\ pc' = "remove" /\ crossed' = FALSE /\ UNCHANGED <<fase, hit, flag>>
      BY <1>2, <2>3 DEF Select
    <3>2. QED  BY <1>2, <2>1, <3>1, FetchedType DEF Select, CleanerType, PastType
  <2>4. QED  BY <2>2, <2>3
<1>3. CASE SelectNamed
  BY <1>3, FetchedType DEF SelectNamed, base, TableType, ChildType, CleanerType, PastType
<1>4. CASE RemoveFile
  <2>1. PICK r \in todo :
          /\ disk' = [disk EXCEPT ![r.file] = NoFile]
          /\ child' = [c \in Children |->
               IF AtWork(c, r.file) THEN [child[c] EXCEPT !.linked = FALSE] ELSE child[c]]
          /\ mb_eliminate' = mb_eliminate + Removed(r)
          /\ raced' = IF AboutToOpen(r.file) THEN raced \cup {r.file} ELSE raced
          /\ todo' = todo \ {r}
    BY <1>4 DEF RemoveFile
  <2>2. r.file \in Files /\ Removed(r) \in Nat
    BY DEF CleanerType, Removed
  <2>3. TableType'
    BY <1>4, <2>1, <2>2 DEF RemoveFile, TableType
  <2>4. ASSUME NEW c \in Children, AtWork(c, r.file)
        PROVE  [child[c] EXCEPT !.linked = FALSE] \in Requested
    BY <2>4, WorkType DEF AtWork, Requested
  <2>5. ChildType'
    BY <1>4, <2>1, <2>4 DEF RemoveFile, ChildType
  <2>6. CleanerType'
    BY <1>4, <2>1, <2>2 DEF RemoveFile, CleanerType
  <2>7. PastType'
    BY <1>4, <2>1, <2>2 DEF RemoveFile, PastType
  <2>8. QED  BY <2>3, <2>5, <2>6, <2>7
<1>5. CASE RemoveFails
  <2>1. PICK r \in todo :
          /\ mb_eliminate' = mb_eliminate + Removed(r)
          /\ stuck' = stuck \cup {r.file}
          /\ todo' = todo \ {r}
    BY <1>5 DEF RemoveFails
  <2>2. r.file \in Files /\ Removed(r) \in Nat
    BY DEF CleanerType, Removed
  <2>3. TableType' /\ ChildType'
    BY <1>5 DEF RemoveFails, base, TableType, ChildType
  <2>4. CleanerType' /\ PastType'
    BY <1>5, <2>1, <2>2 DEF RemoveFails, CleanerType, PastType
  <2>5. QED  BY <2>3, <2>4
<1>6. CASE Delete
  <2>1. TableType'
    BY <1>6, DeletedType DEF Delete
  <2>2. mysql_files \subseteq Files
    BY DEF mysql_files, Matching
  <2>3. QED
    BY <1>6, <2>1, <2>2 DEF Delete, ChildType, CleanerType, PastType
<1>7. CASE deleteEmptyRecords
  <2>1. TableType'
    BY <1>7, DeletedType DEF deleteEmptyRecords
  <2>2. QED
    BY <1>7, <2>1 DEF deleteEmptyRecords, past, ChildType, CleanerType, PastType
<1>8. CASE CleanerDies
  BY <1>8 DEF CleanerDies, base, past, TableType, ChildType, CleanerType, PastType
<1>9. QED
  BY <1>1, <1>2, <1>3, <1>4, <1>5, <1>6, <1>7, <1>8 DEF Work

\* The types hold at the start.
LEMMA InitTypes ==
  ASSUME Init
  PROVE  TypeOK /\ LinkedFiles
<1>1. Today \in Nat /\ EXACT \in Nat /\ Asked \subseteq Nat
  BY CleanerAssumption
<1>2. PICK left \in [Files -> Left] :
        /\ row = [f \in Files |-> left[f][1]]
        /\ disk = [f \in Files |-> left[f][2]]
        /\ \E ids \in SetToSeqs({f \in Files : left[f][1] # NoRow}) :
             older = {p \in Files \X Files :
                        \E i, j \in DOMAIN ids : i < j /\ p = <<ids[i], ids[j]>>}
  BY DEF Init
<1>3. \A l \in Left : l[1] \in Rows \cup {NoRow} /\ l[2] \in Maps \cup {NoFile}
  <2>1. \A d \in 0 .. Today, a \in Asked : Row(d, a, Blocks) \in Rows
    BY <1>1, RowIsRow DEF Maps
  <2>2. Row(0, 0, NULL) \in Rows /\ Row(0, 0, {}) \in Rows
    BY <1>1, RowIsRow DEF Maps
  <2>3. QED  BY <2>1, <2>2 DEF Left, Maps
<1>4. TableType
  BY <1>2, <1>3 DEF TableType
<1>5. ChildType
  BY DEF Init, ChildType
<1>6. CleanerType /\ PastType
  <2>1. 0 \in 0 .. Today /\ 0 \in 0 .. EXACT
    BY <1>1
  <2>2. QED  BY <2>1 DEF Init, CleanerType, PastType
<1>7. LinkedFiles
  BY DEF Init, LinkedFiles, AtWork, Idle
<1>8. QED  BY <1>4, <1>5, <1>6, <1>7 DEF TypeOK

\* No step makes a child believe in a name that is gone.
LEMMA LinkedStep ==
  ASSUME TypeOK, LinkedFiles, Next
  PROVE  LinkedFiles'
<1> USE DEF TypeOK
<1> SUFFICES ASSUME NEW d \in Children, NEW g \in Files, AtWork(d, g)', child'[d].linked
             PROVE  OnDisk(g)'
  BY DEF LinkedFiles
<1>1. CASE ChildStep
  <2>1. PICK c \in Children, f \in Files :
          \/ \E want \in Wanted : lockFile(c, f, want)
          \/ Look(c, f) \/ NotOnDisk(c, f) \/ RowMissing(c, f) \/ MapMissing(c, f)
          \/ MissOrHit(c, f) \/ OpenToWrite(c, f) \/ Write(c, f) \/ SubUpdate(c, f)
          \/ Update(c, f) \/ OpenToRead(c, f) \/ Die(c, f)
          \/ \E n \in 0 .. Cardinality(Blocks) : ServeHit(c, f, n)
    BY <1>1, CleanerAssumption DEF ChildStep
  <2>2. ASSUME UNCHANGED disk, AtWork(d, g), child[d].linked PROVE OnDisk(g)'
    BY <2>2 DEF LinkedFiles, OnDisk
  <2>3. ASSUME NEW want \in Wanted, lockFile(c, f, want) PROVE OnDisk(g)'
    <3>1. CASE d = c
      BY <2>3, <3>1 DEF lockFile, ChildType
    <3>2. CASE d # c
      BY <2>2, <2>3, <3>2 DEF lockFile, ChildType, AtWork
    <3>3. QED  BY <3>1, <3>2
  <2>4. CASE \/ Look(c, f) \/ NotOnDisk(c, f) \/ MissOrHit(c, f)
             \/ OpenToRead(c, f) \/ SubUpdate(c, f)
    <3>1. child[c] \in Requested /\ AtWork(c, f)
      BY <2>4, WorkType DEF Look, NotOnDisk, MissOrHit, OpenToRead, SubUpdate, ChildAt, AtWork
    <3>2. PICK r : r = child'[c]
      OBVIOUS
    <3>3. child' = [child EXCEPT ![c] = r] /\ r.f = f /\ r.linked = child[c].linked
      <4>1. CASE Look(c, f) \/ OpenToRead(c, f)
        BY <3>1, <3>2, <4>1 DEF Look, OpenToRead, To, AtWork, ChildType, Requested
      <4>2. CASE NotOnDisk(c, f) \/ MissOrHit(c, f)
        BY <3>1, <3>2, <4>2 DEF NotOnDisk, MissOrHit, Decide, AtWork, ChildType, Requested
      <4>3. CASE SubUpdate(c, f)
        BY <3>1, <3>2, <4>3 DEF SubUpdate, AtWork, ChildType
      <4>4. QED  BY <2>4, <4>1, <4>2, <4>3
    <3>4. AtWork(d, g) /\ child[d].linked
      BY <3>1, <3>3 DEF AtWork, ChildType
    <3>5. QED  BY <2>2, <2>4, <3>4 DEF Look, NotOnDisk, MissOrHit, OpenToRead, SubUpdate, base
  <2>5. CASE \/ RowMissing(c, f) \/ MapMissing(c, f) \/ Update(c, f) \/ Die(c, f)
             \/ \E n \in 0 .. Cardinality(Blocks) : ServeHit(c, f, n)
    <3>1. child' = [child EXCEPT ![c] = Idle] /\ UNCHANGED disk
      BY <2>5 DEF RowMissing, MapMissing, Update, ServeHit, Die, base
    <3>2. d # c
      BY <3>1 DEF AtWork, Idle, ChildType
    <3>3. AtWork(d, g) /\ child[d].linked
      BY <3>1, <3>2 DEF AtWork, ChildType
    <3>4. QED  BY <2>2, <3>1, <3>3
  <2>6. CASE OpenToWrite(c, f)
    <3>1. child[c] \in Requested /\ AtWork(c, f)
      BY <2>6, WorkType DEF OpenToWrite, ChildAt, AtWork
    <3>2. disk' = [disk EXCEPT ![f] = IF OnDisk(f) THEN @ ELSE {}]
          /\ child' = [child EXCEPT ![c].at = "open", ![c].linked = TRUE]
      BY <2>6 DEF OpenToWrite
    <3>3. CASE g = f
      <4>1. {} # NoFile
        BY DEF NoFile
      <4>2. QED  BY <3>2, <3>3, <4>1 DEF OnDisk, TableType
    <3>4. CASE g # f
      <4>1. AtWork(d, g) /\ child[d].linked
        BY <3>1, <3>2, <3>4 DEF AtWork, ChildType, Requested
      <4>2. QED  BY <3>2, <3>4, <4>1 DEF LinkedFiles, OnDisk, TableType
    <3>5. QED  BY <3>3, <3>4
  <2>7. CASE Write(c, f)
    <3>1. child[c] \in Requested /\ AtWork(c, f)
      BY <2>7, WorkType DEF Write, ChildAt, AtWork
    <3>2. PICK b \in child[c].want \ child[c].map :
            /\ child' = [child EXCEPT ![c].map = @ \cup {b}]
            /\ disk' = IF child[c].linked THEN [disk EXCEPT ![f] = @ \cup {b}] ELSE disk
      BY <2>7 DEF Write
    <3>3. AtWork(d, g) /\ child[d].linked
      BY <3>1, <3>2 DEF AtWork, ChildType, Requested
    <3>4. CASE g = f /\ child[c].linked
      <4>1. disk[f] \in Maps /\ b \in Blocks
        BY <3>1, <3>3, <3>4 DEF LinkedFiles, OnDisk, TableType, Requested, Maps
      <4>2. (disk[f] \cup {b}) \in Maps
        BY <4>1 DEF Maps
      <4>3. disk'[f] = disk[f] \cup {b}
        BY <3>2, <3>4 DEF TableType
      <4>4. QED  BY <3>4, <4>2, <4>3, FileType DEF OnDisk
    <3>5. CASE g # f \/ ~child[c].linked
      <4>1. disk'[g] = disk[g]
        BY <3>2, <3>5 DEF TableType
      <4>2. QED  BY <3>3, <4>1 DEF LinkedFiles, OnDisk
    <3>6. QED  BY <3>4, <3>5
  <2>8. QED
    BY <2>1, <2>3, <2>4, <2>5, <2>6, <2>7
<1>2. CASE RemoveFile
  <2>1. PICK r \in todo :
          /\ disk' = [disk EXCEPT ![r.file] = NoFile]
          /\ child' = [c \in Children |->
               IF AtWork(c, r.file) THEN [child[c] EXCEPT !.linked = FALSE] ELSE child[c]]
    BY <1>2 DEF RemoveFile
  <2>2. CASE AtWork(d, r.file)
    <3>1. child[d] \in Requested
      BY <2>2, WorkType DEF AtWork
    <3>2. QED  BY <2>1, <2>2, <3>1 DEF Requested
  <2>3. CASE ~AtWork(d, r.file)
    <3>1. child'[d] = child[d]
      BY <2>1, <2>3
    <3>2. AtWork(d, g) /\ child[d].linked /\ g # r.file
      BY <2>3, <3>1 DEF AtWork
    <3>3. OnDisk(g)
      BY <3>2 DEF LinkedFiles
    <3>4. QED  BY <2>1, <3>2, <3>3 DEF OnDisk, TableType
  <2>4. QED  BY <2>2, <2>3
<1>3. CASE \/ Begin \/ Select \/ SelectNamed \/ RemoveFails \/ Delete
          \/ deleteEmptyRecords \/ CleanerDies
  <2>1. UNCHANGED <<disk, child>>
    BY <1>3 DEF Begin, Select, SelectNamed, RemoveFails, Delete, deleteEmptyRecords, CleanerDies, base
  <2>2. AtWork(d, g) /\ child[d].linked
    BY <2>1 DEF AtWork
  <2>3. QED  BY <2>1, <2>2 DEF LinkedFiles, OnDisk
<1>4. QED
  BY <1>1, <1>2, <1>3 DEF Next, Work

(***************************************************************************)
(* The invariant of a file that no race has struck.                        *)
(***************************************************************************)

\* One child at most works on it, and has the lock of its row.
OneAtWork(f) == \A c, d \in Children : AtWork(c, f) /\ AtWork(d, f) => c = d
Held(f) == Busy(f) => HasRow(f) /\ row[f].used

\* What SavedOnDisk says of it.
Saved(f) ==
  HasRow(f) /\ OnDisk(f) /\ row[f].map # NULL => row[f].map \subseteq disk[f]

\* What a child knows of it, at each place between the lock and Update().
NothingRead(c, f) ==
  child[c].at \in {"locked", "found", "missing"} =>
    child[c].map = {} /\ (child[c].new => row[f].map = NULL)

SeesFile(c, f) ==
  /\ child[c].at = "found" => OnDisk(f)
  /\ child[c].at = "missing" => ~OnDisk(f)

HasRead(c, f) ==
  child[c].at = "miss" =>
    IF OnDisk(f) THEN child[c].map = row[f].map
    ELSE child[c].map = {} /\ row[f].map \in {NULL, {}}

HasOpen(c, f) ==
  child[c].at = "open" =>
    /\ child[c].linked <=> OnDisk(f)
    /\ child[c].linked => child[c].map \subseteq disk[f]

Knows(c, f) == NothingRead(c, f) /\ SeesFile(c, f) /\ HasRead(c, f) /\ HasOpen(c, f)

FileInv(f) ==
  /\ OneAtWork(f) /\ Held(f) /\ Saved(f)
  /\ \A c \in Children : AtWork(c, f) => Knows(c, f)

\* Nothing changes for a file whose row and bytes stay and that no child
\* approaches.
LEMMA LeftAlone ==
  ASSUME NEW f \in Files, FileInv(f), UNCHANGED <<row[f], disk[f]>>,
         \A c \in Children : AtWork(c, f)' => child'[c] = child[c]
  PROVE  FileInv(f)'
<1>1. \A c \in Children : AtWork(c, f)' => AtWork(c, f)
  BY DEF AtWork
<1>2. OneAtWork(f)'
  BY <1>1 DEF FileInv, OneAtWork
<1>3. Held(f)'
  BY <1>1 DEF FileInv, Held, Busy, HasRow
<1>4. Saved(f)'
  BY DEF FileInv, Saved, HasRow, OnDisk
<1>5. ASSUME NEW c \in Children, AtWork(c, f)' PROVE Knows(c, f)'
  <2>1. Knows(c, f) /\ child'[c] = child[c]
    BY <1>1, <1>5 DEF FileInv
  <2>2. QED
    BY <2>1 DEF Knows, NothingRead, SeesFile, HasRead, HasOpen, OnDisk
<1>6. QED  BY <1>2, <1>3, <1>4, <1>5 DEF FileInv

\* A step of one child on one file leaves the other files alone.
LEMMA OtherFiles ==
  ASSUME TypeOK, NEW c \in Children, NEW f \in Files, NEW g \in Files \ {f}, FileInv(g),
         UNCHANGED <<row[g], disk[g]>>,
         NEW r, child' = [child EXCEPT ![c] = r], r = Idle \/ r.f = f
  PROVE  FileInv(g)'
<1>1. ASSUME NEW d \in Children, AtWork(d, g)' PROVE child'[d] = child[d]
  BY <1>1 DEF AtWork, Idle, TypeOK, ChildType
<1>2. QED  BY <1>1, LeftAlone

\* The child that works on a file is the only one that does, after its step.
LEMMA OnlyOne ==
  ASSUME TypeOK, NEW c \in Children, NEW f \in Files,
         \A d \in Children : AtWork(d, f) => d = c,
         NEW r, child' = [child EXCEPT ![c] = r],
         Knows(c, f)', Saved(f)', HasRow(f)', row'[f].used
  PROVE  FileInv(f)'
<1>1. ASSUME NEW d \in Children, AtWork(d, f)' PROVE d = c
  BY <1>1 DEF AtWork, TypeOK, ChildType
<1>2. OneAtWork(f)'
  BY <1>1 DEF OneAtWork
<1>3. QED  BY <1>1, <1>2 DEF FileInv, Held

\* And nobody works on it when that child is done with it.
LEMMA NoOne ==
  ASSUME TypeOK, NEW c \in Children, NEW f \in Files,
         \A d \in Children : AtWork(d, f) => d = c,
         child' = [child EXCEPT ![c] = Idle], Saved(f)'
  PROVE  FileInv(f)'
<1>1. ASSUME NEW d \in Children PROVE ~AtWork(d, f)'
  BY DEF AtWork, Idle, TypeOK, ChildType
<1>2. QED  BY <1>1 DEF FileInv, OneAtWork, Held, Busy

(***************************************************************************)
(* The steps of the children.                                              *)
(***************************************************************************)

\* What is known where a child takes a step on its file.
LEMMA AtFile ==
  ASSUME TypeOK, NEW c \in Children, NEW f \in Files, FileInv(f), AtWork(c, f)
  PROVE  /\ child[c] \in Requested
         /\ \A d \in Children : AtWork(d, f) => d = c
         /\ HasRow(f) /\ row[f] \in Rows /\ row[f].used
         /\ Knows(c, f) /\ Saved(f)
<1>1. child[c] \in Requested
  BY WorkType DEF AtWork, TypeOK
<1>2. HasRow(f) /\ row[f].used
  BY DEF FileInv, Held, Busy
<1>3. row[f] \in Rows
  BY <1>2, RowType DEF TypeOK
<1>4. \A d \in Children : AtWork(d, f) => d = c
  BY DEF FileInv, OneAtWork
<1>5. QED  BY <1>1, <1>2, <1>3, <1>4 DEF FileInv

\* lockFile(): the row is used by no child, since no race took it away.
LEMMA LockKeeps ==
  ASSUME TypeOK, NEW c \in Children, NEW f \in Files, NEW want \in Wanted,
         lockFile(c, f, want), NEW g \in Files, FileInv(g)
  PROVE  FileInv(g)'
<1> DEFINE q == [at |-> "locked", f |-> f, want |-> want, map |-> {}, new |-> ~HasRow(f),
                 linked |-> FALSE]
<1>1. PICK r : r = q
  OBVIOUS
<1>2. child' = [child EXCEPT ![c] = r] /\ UNCHANGED disk
  BY <1>1 DEF lockFile
<1>3. r.at = "locked" /\ r.f = f /\ r.map = {} /\ (r.new <=> ~HasRow(f))
  BY <1>1
<1> HIDE DEF q
<1>4. Today \in Nat
  BY CleanerAssumption
<1>5. PICK n \in Rows : n = Row(Today, 0, NULL) /\ n.map = NULL
  BY <1>4, RowIsRow
<1>6. row' = [row EXCEPT ![f] = IF HasRow(f) THEN [row[f] EXCEPT !.used = TRUE]
                                ELSE [n EXCEPT !.used = TRUE]]
  BY <1>5 DEF lockFile
<1>7. CASE g # f
  <2>1. UNCHANGED <<row[g], disk[g]>>
    BY <1>2, <1>6, <1>7 DEF TypeOK, TableType
  <2>2. QED  BY <1>2, <1>3, <1>7, <2>1, OtherFiles
<1>8. CASE g = f
  <2>1. ~Busy(f)
    BY <1>8 DEF FileInv, Held, lockFile
  <2>2. PICK s : s = row'[f]
    OBVIOUS
  <2>3. /\ s.used /\ HasRow(f)'
        /\ HasRow(f) => s.map = row[f].map
        /\ ~HasRow(f) => s.map = NULL
    <3>1. CASE HasRow(f)
      <4>1. row[f] \in Rows
        BY <3>1, RowType DEF TypeOK
      <4>2. s = [row[f] EXCEPT !.used = TRUE]
        BY <1>6, <2>2, <3>1 DEF TypeOK, TableType
      <4>3. s # NoRow
        BY <4>1, <4>2, ChangedRow DEF Rows
      <4>4. QED  BY <2>2, <3>1, <4>1, <4>2, <4>3 DEF Rows, HasRow
    <3>2. CASE ~HasRow(f)
      <4>1. s = [n EXCEPT !.used = TRUE]
        BY <1>6, <2>2, <3>2 DEF TypeOK, TableType
      <4>2. s # NoRow
        BY <4>1, ChangedRow DEF Rows
      <4>3. QED  BY <1>5, <2>2, <3>2, <4>1, <4>2 DEF Rows, HasRow
    <3>3. QED  BY <3>1, <3>2
  <2>4. Saved(f)'
    BY <1>2, <1>8, <2>2, <2>3 DEF FileInv, Saved, OnDisk
  <2>5. Knows(c, f)'
    <3>1. child'[c] = r
      BY <1>2 DEF TypeOK, ChildType
    <3>2. QED
      BY <1>3, <2>2, <2>3, <3>1 DEF Knows, NothingRead, SeesFile, HasRead, HasOpen
  <2>6. \A d \in Children : AtWork(d, f) => d = c
    BY <2>1 DEF Busy
  <2>7. QED  BY <1>2, <1>8, <2>2, <2>3, <2>4, <2>5, <2>6, OnlyOne
<1>9. QED  BY <1>7, <1>8

\* Look(), NotOnDisk(), MissOrHit() and OpenToRead(): the child decides.
LEMMA DecisionKeeps ==
  ASSUME TypeOK, NEW c \in Children, NEW f \in Files,
         Look(c, f) \/ NotOnDisk(c, f) \/ MissOrHit(c, f) \/ OpenToRead(c, f),
         NEW g \in Files, FileInv(g)
  PROVE  FileInv(g)'
<1>1. AtWork(c, f) /\ UNCHANGED disk
  BY DEF Look, NotOnDisk, MissOrHit, OpenToRead, ChildAt, AtWork, base
<1>2. child[c] \in Requested
  BY <1>1, WorkType DEF AtWork, TypeOK
<1>3. PICK r : r = child'[c]
  OBVIOUS
<1>4. child' = [child EXCEPT ![c] = r] /\ r.f = f
  BY <1>1, <1>2, <1>3 DEF Look, NotOnDisk, MissOrHit, OpenToRead, To, Decide, AtWork, TypeOK, ChildType, Requested
<1>5. \A h \in Files \ {f} : row'[h] = row[h]
  BY DEF Look, NotOnDisk, MissOrHit, OpenToRead, base, TypeOK, TableType
<1>6. CASE g # f
  BY <1>1, <1>4, <1>5, <1>6, OtherFiles
<1>7. CASE g = f
  <2>1. /\ \A d \in Children : AtWork(d, f) => d = c
        /\ HasRow(f) /\ row[f] \in Rows /\ row[f].used
        /\ Knows(c, f) /\ Saved(f)
    BY <1>1, <1>7, AtFile
  <2>2. PICK s : s = row'[f]
    OBVIOUS
  <2>3. CASE Look(c, f)
    <3>1. s = row[f] /\ UNCHANGED row
      BY <2>2, <2>3 DEF Look, base
    <3>2. /\ r.at = IF OnDisk(f) THEN "found" ELSE "missing"
          /\ r.map = child[c].map /\ r.new = child[c].new
      BY <1>2, <1>3, <2>3 DEF Look, To, TypeOK, ChildType, Requested
    <3>3. child[c].at = "locked"
      BY <2>3 DEF Look, ChildAt
    <3>4. Knows(c, f)'
      BY <1>1, <1>3, <2>1, <3>1, <3>2, <3>3
         DEF Knows, NothingRead, SeesFile, HasRead, HasOpen, OnDisk
    <3>5. Saved(f)'
      BY <1>1, <2>1, <3>1 DEF Saved, OnDisk, HasRow
    <3>6. QED  BY <1>4, <1>7, <2>1, <3>1, <3>4, <3>5, OnlyOne DEF HasRow
  <2>4. CASE NotOnDisk(c, f)
    <3>1. ~OnDisk(f)
      BY <2>1, <2>4 DEF NotOnDisk, ChildAt, Knows, SeesFile
    <3>2. s.used /\ s # NoRow /\ s.map \in {NULL, {}}
      <4>1. CASE child[c].new
        <5>1. s = row[f] /\ row[f].map = NULL
          BY <2>1, <2>2, <2>4, <4>1 DEF NotOnDisk, ChildAt, Knows, NothingRead
        <5>2. QED  BY <2>1, <5>1 DEF HasRow
      <4>2. CASE ~child[c].new
        <5>1. s = [row[f] EXCEPT !.map = {}]
          BY <2>1, <2>2, <2>4, <4>2 DEF NotOnDisk, TypeOK, TableType
        <5>2. s # NoRow
          BY <2>1, <5>1, ChangedRow DEF Rows
        <5>3. QED  BY <2>1, <5>1, <5>2 DEF Rows
      <4>3. QED  BY <4>1, <4>2
    <3>3. r.at = "miss" /\ r.map = {}
      BY <1>2, <1>3, <2>4 DEF NotOnDisk, Decide, TypeOK, ChildType, Requested
    <3>4. Knows(c, f)'
      BY <1>1, <1>3, <2>2, <3>1, <3>2, <3>3
         DEF Knows, NothingRead, SeesFile, HasRead, HasOpen, OnDisk
    <3>5. Saved(f)' /\ HasRow(f)'
      BY <1>1, <2>2, <3>1, <3>2 DEF Saved, OnDisk, HasRow
    <3>6. QED  BY <1>4, <1>7, <2>1, <2>2, <3>2, <3>4, <3>5, OnlyOne
  <2>5. CASE MissOrHit(c, f)
    <3>1. s = row[f] /\ UNCHANGED row
      BY <2>2, <2>5 DEF MissOrHit, base
    <3>2. r.at = "hit" \/ (r.at = "miss" /\ r.map = row[f].map)
      BY <1>2, <1>3, <2>5 DEF MissOrHit, Decide, TypeOK, ChildType, Requested
    <3>3. OnDisk(f)
      BY <2>1, <2>5 DEF MissOrHit, ChildAt, Knows, SeesFile
    <3>4. Knows(c, f)'
      BY <1>1, <1>3, <2>1, <3>1, <3>2, <3>3
         DEF Knows, NothingRead, SeesFile, HasRead, HasOpen, OnDisk
    <3>5. Saved(f)'
      BY <1>1, <2>1, <3>1 DEF Saved, OnDisk, HasRow
    <3>6. QED  BY <1>4, <1>7, <2>1, <3>1, <3>4, <3>5, OnlyOne DEF HasRow
  <2>6. CASE OpenToRead(c, f)
    <3>1. s = row[f] /\ UNCHANGED row
      BY <2>2, <2>6 DEF OpenToRead, base
    <3>2. r.at = "reading"
      BY <1>2, <1>3, <2>6 DEF OpenToRead, To, TypeOK, ChildType, Requested
    <3>3. Knows(c, f)'
      BY <1>3, <3>2 DEF Knows, NothingRead, SeesFile, HasRead, HasOpen
    <3>4. Saved(f)'
      BY <1>1, <2>1, <3>1 DEF Saved, OnDisk, HasRow
    <3>5. QED  BY <1>4, <1>7, <2>1, <3>1, <3>3, <3>4, OnlyOne DEF HasRow
  <2>7. QED  BY <2>3, <2>4, <2>5, <2>6
<1>8. QED  BY <1>6, <1>7

\* OpenToWrite() and Write(): what is written is on the disk before any map
\* names it.
LEMMA WritingKeeps ==
  ASSUME TypeOK, NEW c \in Children, NEW f \in Files, OpenToWrite(c, f) \/ Write(c, f),
         NEW g \in Files, FileInv(g)
  PROVE  FileInv(g)'
<1>1. AtWork(c, f) /\ UNCHANGED row
  BY DEF OpenToWrite, Write, ChildAt, AtWork
<1>2. child[c] \in Requested
  BY <1>1, WorkType DEF AtWork, TypeOK
<1>3. PICK r : r = child'[c]
  OBVIOUS
<1>4. child' = [child EXCEPT ![c] = r] /\ r.f = f
  BY <1>1, <1>2, <1>3 DEF OpenToWrite, Write, AtWork, TypeOK, ChildType, Requested
<1>5. \A h \in Files \ {f} : disk'[h] = disk[h]
  BY DEF OpenToWrite, Write, TypeOK, TableType
<1>6. CASE g # f
  BY <1>1, <1>4, <1>5, <1>6, OtherFiles
<1>7. CASE g = f
  <2>1. /\ \A d \in Children : AtWork(d, f) => d = c
        /\ HasRow(f) /\ row[f] \in Rows /\ row[f].used
        /\ Knows(c, f) /\ Saved(f)
    BY <1>1, <1>7, AtFile
  <2>2. PICK s : s = disk'[f]
    OBVIOUS
  <2>3. CASE OpenToWrite(c, f)
    <3>1. r.at = "open" /\ r.linked /\ r.map = child[c].map
      BY <1>2, <1>3, <2>3 DEF OpenToWrite, TypeOK, ChildType, Requested
    <3>2. s = IF OnDisk(f) THEN disk[f] ELSE {}
      BY <2>2, <2>3 DEF OpenToWrite, TypeOK, TableType
    <3>3. s # NoFile
      BY <3>2 DEF OnDisk, NoFile
    <3>4. child[c].at = "miss"
      BY <2>3 DEF OpenToWrite, ChildAt
    <3>5. child[c].map \subseteq s /\ (row[f].map # NULL => row[f].map \subseteq s)
      <4>1. CASE OnDisk(f)
        <5>1. child[c].map = row[f].map
          BY <2>1, <3>4, <4>1 DEF Knows, HasRead
        <5>2. row[f].map # NULL
          BY <1>2, <5>1, FileType DEF Requested, NULL, NoFile
        <5>3. QED  BY <2>1, <3>2, <4>1, <5>1, <5>2 DEF Saved
      <4>2. CASE ~OnDisk(f)
        BY <2>1, <3>4, <4>2 DEF Knows, HasRead
      <4>3. QED  BY <4>1, <4>2
    <3>6. Knows(c, f)'
      BY <1>3, <2>2, <3>1, <3>3, <3>5
         DEF Knows, NothingRead, SeesFile, HasRead, HasOpen, OnDisk
    <3>7. Saved(f)'
      BY <1>1, <2>2, <3>5 DEF Saved
    <3>8. QED  BY <1>1, <1>4, <1>7, <2>1, <3>6, <3>7, OnlyOne DEF HasRow
  <2>4. CASE Write(c, f)
    <3>1. PICK b \in child[c].want \ child[c].map :
            /\ child' = [child EXCEPT ![c].map = @ \cup {b}]
            /\ disk' = IF child[c].linked THEN [disk EXCEPT ![f] = @ \cup {b}] ELSE disk
      BY <2>4 DEF Write
    <3>2. r.at = "open" /\ r.linked = child[c].linked /\ r.map = child[c].map \cup {b}
      BY <1>2, <1>3, <2>4, <3>1 DEF Write, ChildAt, TypeOK, ChildType, Requested
    <3>3. /\ child[c].linked <=> OnDisk(f)
          /\ child[c].linked => child[c].map \subseteq disk[f]
      BY <2>1, <2>4 DEF Write, ChildAt, Knows, HasOpen
    <3>4. s = IF child[c].linked THEN disk[f] \cup {b} ELSE disk[f]
      BY <2>2, <3>1 DEF TypeOK, TableType
    <3>5. child[c].linked <=> s # NoFile
      <4>1. CASE child[c].linked
        <5>1. disk[f] \in Maps /\ b \in Blocks
          BY <1>2, <3>3, <4>1 DEF OnDisk, TypeOK, TableType, Requested, Maps
        <5>2. (disk[f] \cup {b}) \in Maps
          BY <5>1 DEF Maps
        <5>3. QED  BY <3>4, <4>1, <5>2, FileType
      <4>2. CASE ~child[c].linked
        BY <3>3, <3>4, <4>2 DEF OnDisk
      <4>3. QED  BY <4>1, <4>2
    <3>6. Knows(c, f)'
      BY <1>3, <2>2, <3>2, <3>3, <3>4, <3>5
         DEF Knows, NothingRead, SeesFile, HasRead, HasOpen, OnDisk
    <3>7. Saved(f)'
      BY <1>1, <2>1, <2>2, <3>3, <3>4, <3>5 DEF Saved, OnDisk, HasRow
    <3>8. QED  BY <1>1, <1>4, <1>7, <2>1, <3>6, <3>7, OnlyOne DEF HasRow
  <2>5. QED  BY <2>3, <2>4
<1>8. QED  BY <1>6, <1>7

\* SubUpdate(): the map that is saved on the way is on the disk.
LEMMA SavingKeeps ==
  ASSUME TypeOK, NEW c \in Children, NEW f \in Files, SubUpdate(c, f),
         NEW g \in Files, FileInv(g)
  PROVE  FileInv(g)'
<1>1. AtWork(c, f) /\ UNCHANGED <<disk, child>>
  BY DEF SubUpdate, ChildAt, AtWork
<1>2. child[c] \in Requested
  BY <1>1, WorkType DEF AtWork, TypeOK
<1>3. CASE g # f
  <2>1. row'[g] = row[g]
    BY <1>3 DEF SubUpdate, MapSaved, TypeOK, TableType
  <2>2. QED  BY <1>1, <2>1, LeftAlone
<1>4. CASE g = f
  <2>1. /\ \A d \in Children : AtWork(d, f) => d = c
        /\ HasRow(f) /\ row[f] \in Rows /\ Knows(c, f)
    BY <1>1, <1>4, AtFile
  <2>2. PICK s : s = row'[f]
    OBVIOUS
  <2>3. s.map = child[c].map /\ s.used /\ s.day = row[f].day
    BY <2>1, <2>2 DEF SubUpdate, MapSaved, TypeOK, TableType, Rows
  <2>4. HasRow(f)'
    BY <2>1, <2>2, <2>3, ChangedRow DEF HasRow
  <2>5. child[c].at = "open"
    BY DEF SubUpdate, ChildAt
  <2>6. Saved(f)'
    BY <1>1, <2>1, <2>2, <2>3, <2>5 DEF Saved, Knows, HasOpen, OnDisk
  <2>7. Knows(c, f)'
    BY <1>1, <2>1, <2>5 DEF Knows, NothingRead, SeesFile, HasRead, HasOpen, OnDisk
  <2>8. PICK r : r = child[c]
    OBVIOUS
  <2>9. child' = [child EXCEPT ![c] = r]
    BY <1>1, <2>8 DEF TypeOK, ChildType
  <2>10. QED  BY <1>4, <2>1, <2>2, <2>3, <2>4, <2>6, <2>7, <2>9, OnlyOne
<1>5. QED  BY <1>3, <1>4

\* Update(), ServeHit() and every end without them: the map that is saved is
\* on the disk.
LEMMA EndKeeps ==
  ASSUME TypeOK, NEW c \in Children, NEW f \in Files,
         \/ RowMissing(c, f) \/ MapMissing(c, f) \/ Die(c, f)
         \/ Update(c, f) \/ (\E n \in 0 .. Cardinality(Blocks) : ServeHit(c, f, n)),
         NEW g \in Files, FileInv(g)
  PROVE  FileInv(g)'
<1>1. AtWork(c, f) /\ child' = [child EXCEPT ![c] = Idle] /\ UNCHANGED disk
  BY DEF RowMissing, MapMissing, Die, Update, ServeHit, ChildAt, AtWork, base
<1>2. \A h \in Files \ {f} : row'[h] = row[h]
  BY DEF RowMissing, MapMissing, Die, Update, MapSaved, ServeHit, base, TypeOK, TableType
<1>3. CASE g # f
  BY <1>1, <1>2, <1>3, OtherFiles
<1>4. CASE g = f
  <2>1. /\ \A d \in Children : AtWork(d, f) => d = c
        /\ HasRow(f) /\ row[f] \in Rows /\ Knows(c, f) /\ Saved(f)
    BY <1>1, <1>4, AtFile
  <2>2. CASE RowMissing(c, f) \/ MapMissing(c, f) \/ Die(c, f)
    <3>1. UNCHANGED <<row, disk>>
      BY <2>2 DEF RowMissing, MapMissing, Die, base
    <3>2. Saved(f)'
      BY <2>1, <3>1 DEF Saved, HasRow, OnDisk
    <3>3. QED  BY <1>1, <1>4, <2>1, <3>2, NoOne
  <2>3. CASE Update(c, f)
    <3>1. row'[f].map = child[c].map
      BY <2>1, <2>3 DEF Update, MapSaved, TypeOK, TableType, Rows
    <3>2. OnDisk(f) => child[c].map \subseteq disk[f]
      BY <2>1, <2>3 DEF Update, ChildAt, Knows, HasOpen
    <3>3. Saved(f)'
      BY <1>1, <3>1, <3>2 DEF Saved, OnDisk
    <3>4. QED  BY <1>1, <1>4, <2>1, <3>3, NoOne
  <2>4. CASE \E n \in 0 .. Cardinality(Blocks) : ServeHit(c, f, n)
    <3>1. row'[f].map = row[f].map
      BY <2>1, <2>4 DEF ServeHit, TypeOK, TableType, Rows
    <3>2. Saved(f)'
      BY <1>1, <2>1, <3>1 DEF Saved, OnDisk
    <3>3. QED  BY <1>1, <1>4, <2>1, <3>2, NoOne
  <2>5. QED  BY <2>2, <2>3, <2>4
<1>5. QED  BY <1>3, <1>4

\* No step of a child harms a file that no race has struck.
LEMMA ChildKeeps ==
  ASSUME TypeOK, ChildStep, NEW g \in Files, FileInv(g)
  PROVE  FileInv(g)'
BY LockKeeps, DecisionKeeps, WritingKeeps, SavingKeeps, EndKeeps, CleanerAssumption DEF ChildStep

\* Every step of a child is remembered, unless the child dies.
LEMMA ChildMeets ==
  ASSUME ChildStep
  PROVE  UNCHANGED <<base, past, cleaner>> \/ \E f \in Files : Met(f)
<1>1. PICK c \in Children, f \in Files :
        \/ \E want \in Wanted : lockFile(c, f, want)
        \/ Look(c, f) \/ NotOnDisk(c, f) \/ RowMissing(c, f) \/ MapMissing(c, f)
        \/ MissOrHit(c, f) \/ OpenToWrite(c, f) \/ Write(c, f) \/ SubUpdate(c, f)
        \/ Update(c, f) \/ OpenToRead(c, f) \/ Die(c, f)
        \/ \E n \in 0 .. Cardinality(Blocks) : ServeHit(c, f, n)
  BY CleanerAssumption DEF ChildStep
<1>2. CASE Die(c, f)
  BY <1>2 DEF Die
<1>3. CASE ~Die(c, f)
  BY <1>1, <1>3 DEF lockFile, Look, NotOnDisk, RowMissing, MapMissing, MissOrHit,
     OpenToWrite, Write, SubUpdate, Update, OpenToRead, ServeHit, ChildAt
<1>4. QED  BY <1>2, <1>3

\* A race is the cleaner's step, and the children do not move the cleaner.
LEMMA ChildKeepsHistory ==
  ASSUME ChildStep
  PROVE  UNCHANGED <<raced, stuck, pc>>
BY ChildMeets DEF Met, past, cleaner

\* Children delete no rows, and only a child at work makes a file.
LEMMA ChildrenDeleteNothing ==
  ASSUME TypeOK, ChildStep, NEW g \in Files
  PROVE  /\ HasRow(g) => HasRow(g)'
         /\ OnDisk(g)' => OnDisk(g) \/ Busy(g)
<1>1. PICK c \in Children, f \in Files :
        \/ \E want \in Wanted : lockFile(c, f, want)
        \/ Look(c, f) \/ NotOnDisk(c, f) \/ RowMissing(c, f) \/ MapMissing(c, f)
        \/ MissOrHit(c, f) \/ OpenToWrite(c, f) \/ Write(c, f) \/ SubUpdate(c, f)
        \/ Update(c, f) \/ OpenToRead(c, f) \/ Die(c, f)
        \/ \E n \in 0 .. Cardinality(Blocks) : ServeHit(c, f, n)
  BY CleanerAssumption DEF ChildStep
<1>2. ASSUME HasRow(g) PROVE HasRow(g)'
  <2>1. row[g] \in Rows
    BY <1>2, RowType DEF TypeOK
  <2>2. row'[g] = row[g] \/ row'[g].day = row[g].day
    BY <1>1, <1>2, <2>1 DEF lockFile, Look, NotOnDisk, RowMissing, MapMissing, MissOrHit,
       OpenToWrite, Write, SubUpdate, Update, MapSaved, OpenToRead, ServeHit, Die, base,
       TypeOK, TableType, Rows
  <2>3. QED  BY <1>2, <2>1, <2>2, ChangedRow DEF HasRow
<1>3. ASSUME OnDisk(g)', ~OnDisk(g) PROVE Busy(g)
  <2>1. disk'[g] # disk[g]
    BY <1>3 DEF OnDisk
  <2>2. OpenToWrite(c, f) \/ Write(c, f)
    BY <1>1, <2>1 DEF lockFile, Look, NotOnDisk, RowMissing, MapMissing, MissOrHit,
       SubUpdate, Update, OpenToRead, ServeHit, Die, base
  <2>3. g = f
    BY <2>1, <2>2 DEF OpenToWrite, Write, TypeOK, TableType
  <2>4. QED  BY <2>2, <2>3 DEF OpenToWrite, Write, ChildAt, AtWork, Busy
<1>4. QED  BY <1>2, <1>3

(***************************************************************************)
(* The steps of the cleaner.                                               *)
(***************************************************************************)

\* What a deletion of rows does to one file.
LEMMA DeletedRow ==
  ASSUME NEW gone, Deleted(gone), NEW f \in Files
  PROVE  row'[f] = IF f \in gone THEN NoRow ELSE row[f]
BY DEF Deleted

\* RemoveFile(): the children that have read, or will look, learn of it;
\* one between the two is struck by the race.
LEMMA RemovalKeeps ==
  ASSUME TypeOK, RemoveFile, NEW g \in Files, g \notin raced', FileInv(g)
  PROVE  FileInv(g)'
<1>1. PICK r \in todo :
        /\ disk' = [disk EXCEPT ![r.file] = NoFile]
        /\ child' = [c \in Children |->
             IF AtWork(c, r.file) THEN [child[c] EXCEPT !.linked = FALSE] ELSE child[c]]
        /\ raced' = IF AboutToOpen(r.file) THEN raced \cup {r.file} ELSE raced
  BY DEF RemoveFile
<1>2. UNCHANGED row
  BY DEF RemoveFile
<1>3. r.file \in Files
  BY DEF TypeOK, CleanerType
<1>4. ASSUME NEW c \in Children PROVE child'[c].at = child[c].at
  BY <1>1, WorkType DEF AtWork, TypeOK, Requested
<1>5. ASSUME NEW c \in Children, AtWork(c, g)' PROVE AtWork(c, g)
  <2>1. CASE AtWork(c, r.file)
    <3>1. child[c] \in Requested
      BY <2>1, WorkType DEF AtWork, TypeOK
    <3>2. child'[c].f = child[c].f
      BY <1>1, <2>1, <3>1 DEF Requested
    <3>3. QED  BY <1>4, <1>5, <3>2 DEF AtWork
  <2>2. CASE ~AtWork(c, r.file)
    BY <1>1, <1>5, <2>2 DEF AtWork
  <2>3. QED  BY <2>1, <2>2
<1>6. CASE g # r.file
  <2>1. UNCHANGED <<row[g], disk[g]>>
    BY <1>1, <1>2, <1>6 DEF TypeOK, TableType
  <2>2. ASSUME NEW c \in Children, AtWork(c, g)' PROVE child'[c] = child[c]
    <3>1. AtWork(c, g)
      BY <1>5, <2>2
    <3>2. ~AtWork(c, r.file)
      BY <1>6, <3>1 DEF AtWork
    <3>3. QED  BY <1>1, <3>2
  <2>3. QED  BY <2>1, <2>2, LeftAlone
<1>7. CASE g = r.file
  <2>1. ~AboutToOpen(g)
    BY <1>1, <1>3, <1>7
  <2>2. ~OnDisk(g)'
    BY <1>1, <1>3, <1>7 DEF OnDisk, TypeOK, TableType
  <2>3. OneAtWork(g)'
    BY <1>5 DEF FileInv, OneAtWork
  <2>4. Held(g)'
    BY <1>2, <1>5 DEF FileInv, Held, Busy, HasRow
  <2>5. Saved(g)'
    BY <2>2 DEF Saved
  <2>6. ASSUME NEW c \in Children, AtWork(c, g)' PROVE Knows(c, g)'
    <3>1. AtWork(c, g) /\ Knows(c, g)
      BY <1>5, <2>6 DEF FileInv
    <3>2. child[c] \in Requested
      BY <3>1, WorkType DEF AtWork, TypeOK
    <3>3. child'[c] = [child[c] EXCEPT !.linked = FALSE]
      BY <1>1, <1>7, <3>1
    <3>4. child[c].at \notin {"found", "miss"}
      BY <2>1, <3>1 DEF AboutToOpen
    <3>5. child'[c].at \notin {"found", "miss"} /\ ~child'[c].linked
      BY <3>2, <3>3, <3>4 DEF Requested
    <3>6. child'[c].map = child[c].map /\ child'[c].new = child[c].new
      BY <3>2, <3>3 DEF Requested
    <3>7. QED
      BY <1>2, <1>4, <2>2, <3>1, <3>5, <3>6
         DEF Knows, NothingRead, SeesFile, HasRead, HasOpen
  <2>7. QED  BY <2>3, <2>4, <2>5, <2>6 DEF FileInv
<1>8. QED  BY <1>6, <1>7

\* A row is taken from nobody, unless that is remembered as a race.
LEMMA DeletionKeeps ==
  ASSUME NEW gone, Deleted(gone), UNCHANGED <<disk, child>>,
         NEW g \in Files, g \in gone => ~Busy(g), FileInv(g)
  PROVE  FileInv(g)'
<1>1. CASE g \in gone
  <2>1. \A c \in Children : ~AtWork(c, g)'
    BY <1>1 DEF Busy, AtWork
  <2>2. ~HasRow(g)'
    BY <1>1, DeletedRow DEF HasRow
  <2>3. QED  BY <2>1, <2>2 DEF FileInv, OneAtWork, Held, Busy, Saved
<1>2. CASE g \notin gone
  <2>1. UNCHANGED <<row[g], disk[g]>>
    BY <1>2, DeletedRow
  <2>2. QED  BY <2>1, LeftAlone
<1>3. QED  BY <1>1, <1>2

\* No step of the cleaner harms a file that no race strikes.
LEMMA CleanerKeeps ==
  ASSUME TypeOK, Work \/ deleteEmptyRecords \/ CleanerDies,
         NEW g \in Files, g \notin raced', FileInv(g)
  PROVE  FileInv(g)'
<1>1. CASE RemoveFile
  BY <1>1, RemovalKeeps
<1>2. CASE Delete
  <2>1. g \in mysql_files => ~Busy(g)
    BY <1>2 DEF Delete
  <2>2. QED  BY <1>2, <2>1, DeletionKeeps DEF Delete
<1>3. CASE deleteEmptyRecords
  <2>1. PICK old \in SUBSET {f \in Files : ~Busy(f)} :
          Deleted({f \in old : HasRow(f) /\ row[f].map = {} /\ row[f].size = 0})
    BY <1>3 DEF deleteEmptyRecords
  <2>2. PICK gone : gone = {f \in old : HasRow(f) /\ row[f].map = {} /\ row[f].size = 0}
    OBVIOUS
  <2>3. g \in gone => ~Busy(g)
    BY <2>2
  <2>4. QED  BY <1>3, <2>1, <2>2, <2>3, DeletionKeeps DEF deleteEmptyRecords
<1>4. CASE Begin \/ Select \/ SelectNamed \/ RemoveFails \/ CleanerDies
  <2>1. UNCHANGED <<row, disk, child>>
    BY <1>4 DEF Begin, Select, SelectNamed, RemoveFails, CleanerDies, base
  <2>2. QED  BY <2>1, LeftAlone
<1>5. QED  BY <1>1, <1>2, <1>3, <1>4 DEF Work

(***************************************************************************)
(* Files without rows.                                                     *)
(***************************************************************************)

\* Until a child steps in, the rows that the DELETE will reach are those of
\* the SELECT: their files are gone, stuck, or still to be removed.
FilesFirst ==
  pc = "remove" /\ ~crossed =>
    \A f \in mysql_files : OnDisk(f) => f \in stuck \/ \E r \in todo : r.file = f

\* The same table gives the same rows.
LEMMA SameRows ==
  ASSUME UNCHANGED <<row, older, mode, date_min, date_max, fase, hit, flag>>
  PROVE  mysql_files' = mysql_files
<1>1. getNewDateMax' = getNewDateMax
  BY DEF getNewDateMax
<1>2. ASSUME NEW f \in Files PROVE Condition(f)' <=> Condition(f)
  BY <1>1 DEF Condition, HasRow
<1>3. Matching' = Matching
  BY <1>2 DEF Matching
<1>4. ASSUME NEW f \in Matching
      PROVE  {g \in Matching : <<g, f>> \in older'} = {g \in Matching : <<g, f>> \in older}
  OBVIOUS
<1>5. QED  BY <1>3, <1>4 DEF mysql_files

\* A SELECT leaves a file to remove for each row it found.
LEMMA FetchedAll ==
  ASSUME NEW f \in mysql_files
  PROVE  \E r \in Fetched : r.file = f
<1>1. [file |-> f, filesize |-> row[f].size] \in Fetched
  BY DEF Fetched
<1>2. QED  BY <1>1

LEMMA FilesFirstStep ==
  ASSUME TypeOK, FilesFirst, Next
  PROVE  FilesFirst'
<1> SUFFICES ASSUME pc' = "remove", ~crossed', NEW f \in mysql_files', OnDisk(f)'
             PROVE  f \in stuck' \/ \E r \in todo' : r.file = f
  BY DEF FilesFirst
<1>1. CASE ChildStep
  <2>1. PICK c \in Children, g \in Files :
          \/ \E want \in Wanted : lockFile(c, g, want)
          \/ Look(c, g) \/ NotOnDisk(c, g) \/ RowMissing(c, g) \/ MapMissing(c, g)
          \/ MissOrHit(c, g) \/ OpenToWrite(c, g) \/ Write(c, g) \/ SubUpdate(c, g)
          \/ Update(c, g) \/ OpenToRead(c, g) \/ Die(c, g)
          \/ \E n \in 0 .. Cardinality(Blocks) : ServeHit(c, g, n)
    BY <1>1, CleanerAssumption DEF ChildStep
  <2>2. CASE Die(c, g)
    <3>1. UNCHANGED <<row, older, disk, mode, pc, date_min, date_max, fase, hit, flag,
                      todo, crossed, stuck>>
      BY <2>2 DEF Die, base, past, cleaner
    <3>2. f \in mysql_files /\ OnDisk(f)
      BY <3>1, SameRows DEF OnDisk
    <3>3. QED  BY <3>1, <3>2 DEF FilesFirst
  <2>3. CASE ~Die(c, g)
    <3>1. Met(g)
      BY <2>1, <2>3 DEF lockFile, Look, NotOnDisk, RowMissing, MapMissing, MissOrHit,
         OpenToWrite, Write, SubUpdate, Update, OpenToRead, ServeHit, ChildAt
    <3>2. pc' = pc /\ crossed' = (pc = "remove")
      BY <3>1 DEF Met, cleaner
    <3>3. QED  BY <3>2
  <2>4. QED  BY <2>2, <2>3
<1>2. CASE Select
  <2>1. CASE mysql_files = {}
    BY <1>2, <2>1 DEF Select, NextPass
  <2>2. CASE mysql_files # {}
    <3>1. todo' = Fetched /\ UNCHANGED <<row, older, mode, date_min, date_max, fase, hit, flag>>
      BY <1>2, <2>2 DEF Select, base
    <3>2. f \in mysql_files
      BY <3>1, SameRows
    <3>3. QED  BY <3>1, <3>2, FetchedAll
  <2>3. QED  BY <2>1, <2>2
<1>3. CASE SelectNamed
  <2>1. todo' = Fetched /\ UNCHANGED <<row, older, mode, date_min, date_max, fase, hit, flag>>
    BY <1>3 DEF SelectNamed, base
  <2>2. f \in mysql_files
    BY <2>1, SameRows
  <2>3. QED  BY <2>1, <2>2, FetchedAll
<1>4. CASE RemoveFile
  <2>1. PICK q \in todo : disk' = [disk EXCEPT ![q.file] = NoFile] /\ todo' = todo \ {q}
    BY <1>4 DEF RemoveFile
  <2>2. UNCHANGED <<row, older, mode, pc, date_min, date_max, fase, hit, flag, crossed, stuck>>
    BY <1>4 DEF RemoveFile
  <2>3. f \in mysql_files /\ f \in Files
    BY <2>2, SameRows DEF mysql_files, Matching
  <2>4. f # q.file /\ OnDisk(f)
    BY <2>1, <2>3 DEF OnDisk, TypeOK, TableType
  <2>5. f \in stuck \/ \E r \in todo : r.file = f
    BY <2>2, <2>3, <2>4 DEF FilesFirst
  <2>6. QED  BY <2>1, <2>2, <2>4, <2>5
<1>5. CASE RemoveFails
  <2>1. PICK q \in todo : stuck' = stuck \cup {q.file} /\ todo' = todo \ {q}
    BY <1>5 DEF RemoveFails
  <2>2. UNCHANGED <<row, older, disk, mode, pc, date_min, date_max, fase, hit, flag, crossed>>
    BY <1>5 DEF RemoveFails, base
  <2>3. f \in mysql_files /\ OnDisk(f)
    BY <2>2, SameRows DEF OnDisk
  <2>4. f \in stuck \/ \E r \in todo : r.file = f
    BY <2>2, <2>3 DEF FilesFirst
  <2>5. QED  BY <2>1, <2>4
<1>6. CASE Begin \/ Delete \/ deleteEmptyRecords \/ CleanerDies
  BY <1>6 DEF Begin, Delete, deleteEmptyRecords, CleanerDies
<1>7. QED  BY <1>1, <1>2, <1>3, <1>4, <1>5, <1>6 DEF Next, Work

\* A row goes only after its file, unless a race struck, an rm failed, or the run
\* was one of deleteEmptyRecords().
LEMMA RowsStep ==
  ASSUME TypeOK, Next, FilesFirst, FilesHaveRows, \A f \in Files \ raced : FileInv(f)
  PROVE  FilesHaveRows'
<1> SUFFICES ASSUME NEW f \in Files, OnDisk(f)', ~HasRow(f)', f \notin raced', f \notin stuck'
             PROVE  pc' = "tidy"
  BY DEF FilesHaveRows
<1>1. CASE ChildStep
  <2>1. f \notin raced /\ f \notin stuck
    BY <1>1, ChildKeepsHistory
  <2>2. ~HasRow(f) /\ (OnDisk(f) \/ Busy(f))
    BY <1>1, ChildrenDeleteNothing
  <2>3. ~Busy(f)
    BY <2>1, <2>2 DEF FileInv, Held
  <2>4. pc = "tidy"
    BY <2>1, <2>2, <2>3 DEF FilesHaveRows
  <2>5. QED  BY <1>1, <2>4, ChildKeepsHistory
<1>2. CASE RemoveFile
  <2>1. UNCHANGED <<row, pc>> /\ f \notin raced /\ f \notin stuck
    BY <1>2 DEF RemoveFile
  <2>2. OnDisk(f)
    BY <1>2 DEF RemoveFile, OnDisk, TypeOK, TableType
  <2>3. QED  BY <2>1, <2>2 DEF FilesHaveRows, HasRow
<1>3. CASE Delete
  <2>1. UNCHANGED <<disk, child>> /\ pc = "remove" /\ todo = {} /\ Deleted(mysql_files)
        /\ raced' = raced \cup {g \in mysql_files : crossed \/ Busy(g)}
    BY <1>3 DEF Delete
  <2>2. f \notin raced /\ f \notin stuck /\ OnDisk(f)
    BY <1>3, <2>1 DEF Delete, OnDisk
  <2>3. HasRow(f)
    BY <2>1, <2>2 DEF FilesHaveRows
  <2>4. f \in mysql_files
    BY <2>1, <2>3, DeletedRow DEF HasRow
  <2>5. ~crossed
    BY <2>1, <2>4
  <2>6. QED  BY <2>1, <2>2, <2>4, <2>5 DEF FilesFirst
<1>4. CASE deleteEmptyRecords
  BY <1>4 DEF deleteEmptyRecords
<1>5. CASE Begin \/ Select \/ SelectNamed \/ RemoveFails \/ CleanerDies
  <2>1. UNCHANGED <<row, disk, raced>> /\ stuck \subseteq stuck' /\ pc # "tidy"
    BY <1>5 DEF Begin, Select, SelectNamed, RemoveFails, CleanerDies, base, past
  <2>2. f \notin stuck
    BY <2>1
  <2>3. QED  BY <2>1, <2>2 DEF FilesHaveRows, OnDisk, HasRow
<1>6. QED  BY <1>1, <1>2, <1>3, <1>4, <1>5 DEF Next, Work

(***************************************************************************)
(* The passes.                                                             *)
(***************************************************************************)

\* The hit counts of the last pass with <= and of the pass with >.
LastHit == Max(PassHits)
HitBeyond == IF LastHit > TURN THEN LastHit + STEP ELSE MAX_HIT

\* getNewDateMax() in phase i with hit count h.
DateMax(i, h) ==
  LET k == 4 * 2 ^ i IN
  IF i >= EXACT
    THEN date_max
    ELSE date_min + ((date_max - date_min) * (k - 1) ^ (h + 1)) \div k ^ (h + 1)

\* A row between the oldest day and another.
By(f, day) == HasRow(f) /\ date_min <= row[f].day /\ row[f].day <= day

Above(f) == row[f].asked > LastHit * row[f].size

\* The table is read in one order.
Ordered ==
  /\ \A p \in older : HasRow(p[1]) /\ HasRow(p[2])
  /\ \A f \in Files : <<f, f>> \notin older
  /\ \A f, g, h \in Files : <<f, g>> \in older /\ <<g, h>> \in older => <<f, h>> \in older

\* What the passes before this one have left: after the last with <= no row of
\* its dates that was asked for less, after the last phase that is not rounded
\* no row but those of the newest day that are in a pass at all.
PassInv ==
  /\ date_min <= date_max
  /\ IF flag THEN hit = HitBeyond ELSE hit \in PassHits
  /\ flag => \A f \in Files \ met : By(f, DateMax(fase, LastHit)) => Above(f)
  /\ fase = EXACT => \A f \in Files \ met : By(f, date_max - 1) => Between(f)

PassesInv ==
  /\ pc = "begin" => fase = 0 /\ hit = 0 /\ flag = FALSE
  /\ pc \in {"select", "remove"} /\ mode # "file" => PassInv

\* A multiple of s is s times a number.
LEMMA Multiple ==
  ASSUME NEW s \in Nat \ {0}, NEW x \in Nat, x % s = 0
  PROVE  x = s * (x \div s) /\ x \div s \in Nat
OBVIOUS

\* And s times a number is a multiple of s.
LEMMA IsMultiple ==
  ASSUME NEW s \in Nat \ {0}, NEW q \in Nat
  PROVE  (s * q) % s = 0
OBVIOUS

LEMMA NextMultiple ==
  ASSUME NEW s \in Nat \ {0}, NEW x \in Nat, x % s = 0
  PROVE  (x + s) % s = 0
<1>1. PICK q \in Nat : x = s * q
  BY Multiple
<1>2. x + s = s * (q + 1) /\ q + 1 \in Nat
  BY <1>1
<1>3. (s * (q + 1)) % s = 0
  BY <1>2, IsMultiple
<1>4. QED  BY <1>2, <1>3

LEMMA FactorsInOrder ==
  ASSUME NEW s \in Nat \ {0}, NEW p \in Nat, NEW q \in Nat, s * p < s * q
  PROVE  s * p + s <= s * q
<1>1. p < q
  OBVIOUS
<1>2. p + 1 <= q
  BY <1>1
<1>3. QED  BY <1>2

\* Two multiples of s are s apart.
LEMMA MultiplesApart ==
  ASSUME NEW s \in Nat \ {0}, NEW x \in Nat, NEW y \in Nat, x % s = 0, y % s = 0, x < y
  PROVE  x + s <= y
<1>1. PICK p \in Nat : x = s * p
  BY Multiple
<1>2. PICK q \in Nat : y = s * q
  BY Multiple
<1>3. QED  BY <1>1, <1>2, FactorsInOrder

\* The hit counts go from pass to pass until the pass with >.
LEMMA HitsInOrder ==
  ASSUME hit \in PassHits
  PROVE  /\ NextHit < MAX_HIT => NextHit \in PassHits
         /\ NextHit >= MAX_HIT => hit = LastHit /\ NextHit = HitBeyond
<1>1. MAX_HIT \in Nat \ {0} /\ STEP \in Nat \ {0} /\ TURN \in Nat
  BY CleanerAssumption
<1>2. PassHits \in SUBSET (0 .. MAX_HIT - 1) /\ MAX_HIT - 1 \in Nat
  BY <1>1 DEF PassHits
<1>3. hit \in 0 .. MAX_HIT - 1
  BY <1>2
<1>4. LastHit \in PassHits /\ \A h \in PassHits : h <= LastHit
  BY <1>2, GreatestNat DEF LastHit
<1>5. CASE hit <= TURN
  <2>1. NextHit = hit + 1
    BY <1>1, <1>3, <1>5 DEF NextHit
  <2>2. ASSUME NextHit < MAX_HIT PROVE NextHit \in PassHits
    BY <1>1, <1>3, <1>5, <2>1, <2>2 DEF PassHits
  <2>3. ASSUME NextHit >= MAX_HIT PROVE hit = LastHit /\ NextHit = HitBeyond
    <3>1. hit = MAX_HIT - 1
      BY <1>1, <1>3, <2>1, <2>3
    <3>2. hit <= LastHit /\ LastHit \in 0 .. MAX_HIT - 1
      BY <1>2, <1>4
    <3>3. hit = LastHit
      BY <1>1, <3>1, <3>2
    <3>4. QED  BY <1>1, <1>3, <1>5, <2>1, <3>1, <3>3 DEF HitBeyond
  <2>4. QED  BY <2>2, <2>3
<1>6. CASE hit > TURN
  <2>1. NextHit = hit + STEP
    BY <1>6 DEF NextHit
  <2>2. ASSUME NEW h \in PassHits, h > TURN
        PROVE  h - TURN - 1 \in Nat /\ (h - TURN - 1) % STEP = 0
    <3>1. h \in 0 .. MAX_HIT - 1
      BY <1>2
    <3>2. h <= TURN + 1 => h - TURN - 1 = 0
      BY <1>1, <3>1, <2>2
    <3>3. 0 % STEP = 0
      BY <1>1
    <3>4. h - TURN - 1 \in Nat
      BY <1>1, <2>2, <3>1
    <3>5. (h - TURN - 1) % STEP = 0
      BY <3>2, <3>3 DEF PassHits
    <3>6. QED  BY <3>4, <3>5
  <2> DEFINE x == hit - TURN - 1
  <2>3. x \in Nat /\ x % STEP = 0
    BY <1>6, <2>2
  <2>4. ASSUME NextHit < MAX_HIT PROVE NextHit \in PassHits
    <3>1. (x + STEP) % STEP = 0
      BY <1>1, <2>3, NextMultiple
    <3>2. NextHit - TURN - 1 = x + STEP
      BY <1>1, <1>3, <2>1
    <3>3. NextHit \in 0 .. MAX_HIT - 1
      BY <1>1, <1>3, <2>1, <2>4
    <3>4. QED  BY <3>1, <3>2, <3>3 DEF PassHits
  <2>5. ASSUME NextHit >= MAX_HIT PROVE hit = LastHit /\ NextHit = HitBeyond
    <3>1. LastHit \in 0 .. MAX_HIT - 1 /\ hit <= LastHit
      BY <1>2, <1>4
    <3>2. LastHit > TURN
      BY <1>1, <1>3, <1>6, <3>1
    <3> DEFINE y == LastHit - TURN - 1
    <3>3. y \in Nat /\ y % STEP = 0
      BY <1>4, <2>2, <3>2
    <3>4. ASSUME hit # LastHit PROVE FALSE
      <4>1. x < y
        BY <1>1, <1>3, <3>1, <3>4
      <4>2. x + STEP <= y
        <5> HIDE DEF x, y
        <5> QED  BY <1>1, <2>3, <3>3, <4>1, MultiplesApart
      <4>3. QED  BY <1>1, <1>3, <2>1, <2>5, <3>1, <4>2
    <3>5. QED  BY <2>1, <3>2, <3>4 DEF HitBeyond
  <2>6. QED  BY <2>4, <2>5
<1>7. QED  BY <1>1, <1>3, <1>5, <1>6

\* A proper fraction of a number.
LEMMA Fraction ==
  ASSUME NEW d \in Nat, NEW p \in Nat, NEW q \in Nat, p < q
  PROVE  /\ (d * p) \div q \in Nat
         /\ d > 0 => (d * p) \div q < d
         /\ d = 0 => (d * p) \div q = 0
OBVIOUS

\* A phase that is not rounded ends before the newest day, if that is not the
\* only one, and the last of them on the day before it.
LEMMA PhaseEnds ==
  ASSUME TypeOK, date_min <= date_max,
         NEW i \in 0 .. EXACT - 1, NEW h \in 0 .. MAX_HIT + STEP
  PROVE  /\ DateMax(i, h) \in Int
         /\ date_min < date_max => DateMax(i, h) < date_max
         /\ date_min = date_max => DateMax(i, h) = date_max
         /\ i = EXACT - 1 => DateMax(i, h) >= date_max - 1
<1> DEFINE k == 4 * 2 ^ i
           p == (k - 1) ^ (h + 1)
           q == k ^ (h + 1)
           d == date_max - date_min
<1>1. EXACT \in Nat /\ MAX_HIT \in Nat /\ STEP \in Nat /\ Today \in Nat
  BY CleanerAssumption
<1>2. h + 1 \in 1 .. MAX_HIT + STEP + 1
  BY <1>1
<1>3. date_min \in 0 .. Today /\ date_max \in 0 .. Today
  BY DEF TypeOK, CleanerType
<1>4. d \in 0 .. Today /\ d \in Nat
  BY <1>1, <1>3
<1>5. p \in Nat /\ q \in Nat /\ p < q
  BY <1>2, PhasesAssumption
<1>6. i = EXACT - 1 => (d * p) \div q >= d - 1
  BY <1>2, <1>4, PhasesAssumption
<1>7. ~(i >= EXACT)
  BY <1>1
<1>8. DateMax(i, h) = date_min + (d * p) \div q
  BY <1>7 DEF DateMax
<1> HIDE DEF k, p, q
<1>9. /\ (d * p) \div q \in Nat
      /\ d > 0 => (d * p) \div q < d
      /\ d = 0 => (d * p) \div q = 0
  BY <1>4, <1>5, Fraction
<1>10. QED  BY <1>1, <1>3, <1>6, <1>8, <1>9

\* The condition uses the date of the present phase and pass.
LEMMA DateOfPass == getNewDateMax = DateMax(fase, hit)
BY DEF getNewDateMax, DateMax

\* The ids of the rows are an order at the start.
LEMMA InitOrdered ==
  ASSUME Init
  PROVE  Ordered
<1>1. PICK left \in [Files -> Left] :
        /\ row = [f \in Files |-> left[f][1]]
        /\ \E ids \in SetToSeqs({f \in Files : left[f][1] # NoRow}) :
             older = {p \in Files \X Files :
                        \E i, j \in DOMAIN ids : i < j /\ p = <<ids[i], ids[j]>>}
  BY DEF Init
<1> DEFINE S == {f \in Files : left[f][1] # NoRow}
           D == 1 .. Cardinality(S)
<1>2. PICK ids \in SetToSeqs(S) :
        older = {p \in Files \X Files :
                   \E i, j \in DOMAIN ids : i < j /\ p = <<ids[i], ids[j]>>}
  BY <1>1
<1>3. Cardinality(S) \in Nat
  BY CleanerAssumption, FS_Subset, FS_CardinalityType
<1>4. ids \in [D -> S] /\ \A i, j \in D : i # j => ids[i] # ids[j]
  BY <1>2 DEF SetToSeqs
<1>5. D \subseteq Nat /\ DOMAIN ids = D
  BY <1>3, <1>4
<1>6. \A f \in S : HasRow(f)
  BY <1>1 DEF HasRow
<1> HIDE DEF S, D
<1>7. ASSUME NEW f, NEW g, <<f, g>> \in older
      PROVE  \E i, j \in D : i < j /\ f = ids[i] /\ g = ids[j]
  BY <1>2, <1>5, <1>7
<1>8. \A p \in older : HasRow(p[1]) /\ HasRow(p[2])
  <2>1. ASSUME NEW p \in older PROVE HasRow(p[1]) /\ HasRow(p[2])
    <3>1. PICK i \in D, j \in D : p = <<ids[i], ids[j]>>
      BY <1>2, <1>5
    <3>2. QED  BY <1>4, <1>6, <3>1
  <2>2. QED  BY <2>1
<1>9. \A f \in Files : <<f, f>> \notin older
  <2>1. ASSUME NEW f \in Files, <<f, f>> \in older PROVE FALSE
    <3>1. PICK i \in D, j \in D : i < j /\ f = ids[i] /\ f = ids[j]
      BY <1>7, <2>1
    <3>2. i # j
      BY <1>5, <3>1
    <3>3. QED  BY <1>4, <3>1, <3>2
  <2>2. QED  BY <2>1
<1>10. ASSUME NEW f \in Files, NEW g \in Files, NEW h \in Files,
              <<f, g>> \in older, <<g, h>> \in older
       PROVE  <<f, h>> \in older
  <2>1. PICK i \in D, j \in D : i < j /\ f = ids[i] /\ g = ids[j]
    BY <1>7, <1>10
  <2>2. PICK m \in D, n \in D : m < n /\ g = ids[m] /\ h = ids[n]
    BY <1>7, <1>10
  <2>3. j = m
    BY <1>4, <2>1, <2>2
  <2>4. i < n
    BY <1>5, <2>1, <2>2, <2>3
  <2>5. QED  BY <1>2, <1>5, <2>1, <2>2, <2>4
<1>11. QED  BY <1>8, <1>9, <1>10 DEF Ordered

\* A new row is the last; a deletion leaves the others in their order.
LEMMA OrderedStep ==
  ASSUME TypeOK, Ordered, Next
  PROVE  Ordered'
<1>1. CASE ChildStep
  <2>1. PICK c \in Children, f \in Files :
          \/ \E want \in Wanted : lockFile(c, f, want)
          \/ Look(c, f) \/ NotOnDisk(c, f) \/ RowMissing(c, f) \/ MapMissing(c, f)
          \/ MissOrHit(c, f) \/ OpenToWrite(c, f) \/ Write(c, f) \/ SubUpdate(c, f)
          \/ Update(c, f) \/ OpenToRead(c, f) \/ Die(c, f)
          \/ \E n \in 0 .. Cardinality(Blocks) : ServeHit(c, f, n)
    BY <1>1, CleanerAssumption DEF ChildStep
  <2>2. \A p \in older : p \in Files \X Files
    BY DEF TypeOK, TableType
  <2>3. \A p \in older : HasRow(p[1])' /\ HasRow(p[2])'
    <3>1. \A g \in Files : HasRow(g) => HasRow(g)'
      BY <1>1, ChildrenDeleteNothing
    <3>2. QED  BY <2>2, <3>1 DEF Ordered
  <2>4. CASE UNCHANGED older
    BY <2>3, <2>4 DEF Ordered
  <2>5. CASE ~HasRow(f) /\ \E want \in Wanted : lockFile(c, f, want)
    <3>1. older' = older \cup {<<g, f>> : g \in {h \in Files : HasRow(h)}}
      BY <2>5 DEF lockFile
    <3>2. HasRow(f)'
      <4>1. row' = [row EXCEPT ![f] = [Row(Today, 0, NULL) EXCEPT !.used = TRUE]]
        BY <2>5 DEF lockFile
      <4>2. [Row(Today, 0, NULL) EXCEPT !.used = TRUE].day = Today
        BY DEF Row
      <4>3. Today \in Nat /\ NoRow.day = -1
        BY CleanerAssumption DEF NoRow
      <4>4. row'[f].day = Today
        BY <4>1, <4>2 DEF TypeOK, TableType
      <4>5. QED  BY <4>3, <4>4 DEF HasRow
    <3>3. \A g \in Files : HasRow(g) => HasRow(g)'
      BY <1>1, ChildrenDeleteNothing
    <3>4. \A p \in older' : HasRow(p[1])' /\ HasRow(p[2])'
      BY <2>3, <3>1, <3>2, <3>3
    <3>5. \A g \in Files : <<f, g>> \notin older'
      <4>1. ASSUME NEW g \in Files, <<f, g>> \in older' PROVE FALSE
        <5>1. <<f, g>> \notin older
          BY <2>5 DEF Ordered
        <5>2. PICK h \in Files : HasRow(h) /\ <<f, g>> = <<h, f>>
          BY <3>1, <4>1, <5>1
        <5>3. QED  BY <2>5, <5>2
      <4>2. QED  BY <4>1
    <3>6. \A g \in Files : <<g, f>> \in older' => HasRow(g)
      <4>1. \A g \in Files : <<g, f>> \in older => HasRow(g)
        BY DEF Ordered
      <4>2. QED  BY <3>1, <4>1
    <3>7. \A g, h \in Files : h # f => (<<g, h>> \in older' <=> <<g, h>> \in older)
      BY <3>1
    <3>8. \A g \in Files : <<g, g>> \notin older'
      BY <3>5, <3>7 DEF Ordered
    <3>9. ASSUME NEW a \in Files, NEW b \in Files, NEW h \in Files,
                 <<a, b>> \in older', <<b, h>> \in older'
          PROVE  <<a, h>> \in older'
      <4>1. b # f
        BY <3>5, <3>9
      <4>2. <<a, b>> \in older
        BY <3>7, <3>9, <4>1
      <4>3. HasRow(a)
        BY <4>2 DEF Ordered
      <4>4. CASE h = f
        BY <3>1, <4>3, <4>4
      <4>5. CASE h # f
        BY <3>7, <3>9, <4>2, <4>5 DEF Ordered
      <4>6. QED  BY <4>4, <4>5
    <3>10. QED  BY <3>4, <3>8, <3>9 DEF Ordered
  <2>6. QED
    BY <2>1, <2>4, <2>5 DEF lockFile, Look, NotOnDisk, RowMissing, MapMissing, MissOrHit,
       OpenToWrite, Write, SubUpdate, Update, OpenToRead, ServeHit, Die, base
<1>2. ASSUME NEW gone, Deleted(gone) PROVE Ordered'
  <2>1. older' = {p \in older : p[1] \notin gone /\ p[2] \notin gone}
    BY <1>2 DEF Deleted
  <2>2. older \subseteq Files \X Files
    BY DEF TypeOK, TableType
  <2>3. ASSUME NEW p \in older' PROVE HasRow(p[1])' /\ HasRow(p[2])'
    <3>1. p[1] \in Files \ gone /\ p[2] \in Files \ gone /\ HasRow(p[1]) /\ HasRow(p[2])
      BY <2>1, <2>2, <2>3 DEF Ordered
    <3>2. row'[p[1]] = row[p[1]] /\ row'[p[2]] = row[p[2]]
      BY <1>2, <3>1, DeletedRow
    <3>3. QED  BY <3>1, <3>2 DEF HasRow
  <2>4. QED  BY <2>1, <2>3 DEF Ordered
<1>3. CASE Delete \/ deleteEmptyRecords
  BY <1>2, <1>3 DEF Delete, deleteEmptyRecords
<1>4. CASE Begin \/ Select \/ SelectNamed \/ RemoveFile \/ RemoveFails \/ CleanerDies
  <2>1. UNCHANGED <<row, older>>
    BY <1>4 DEF Begin, Select, SelectNamed, RemoveFile, RemoveFails, CleanerDies, base
  <2>2. QED  BY <2>1 DEF Ordered, HasRow
<1>5. QED  BY <1>1, <1>3, <1>4 DEF Next, Work

\* A statement that reaches no row has none to reach: the LIMIT leaves the
\* oldest.
LEMMA NothingMatches ==
  ASSUME TypeOK, Ordered, mysql_files = {}
  PROVE  Matching = {}
<1> DEFINE Before(f) == {g \in Matching : <<g, f>> \in older}
           Counts == {Cardinality(Before(f)) : f \in Matching}
<1>1. ASSUME NEW f PROVE IsFiniteSet(Before(f)) /\ Cardinality(Before(f)) \in Nat
  <2>1. Before(f) \subseteq Files
    BY DEF Matching
  <2>2. QED  BY <2>1, CleanerAssumption, FS_Subset, FS_CardinalityType
<1>2. SUFFICES ASSUME Matching # {} PROVE FALSE
  OBVIOUS
<1>3. Counts \in SUBSET Nat /\ Counts # {}
  BY <1>1, <1>2
<1>4. PICK n \in Counts : \A m \in Counts : n <= m
  BY <1>3, LeastNat
<1>5. PICK f \in Matching : n = Cardinality(Before(f))
  OBVIOUS
<1>6. Before(f) = {}
  <2>1. SUFFICES ASSUME NEW g \in Before(f) PROVE FALSE
    OBVIOUS
  <2>2. g \in Matching /\ <<g, f>> \in older /\ f \in Files /\ g \in Files
    BY DEF Matching
  <2>3. Before(g) \subseteq Before(f)
    BY <2>2 DEF Ordered, Matching
  <2>4. g \notin Before(g)
    BY <2>2 DEF Ordered
  <2>5. Cardinality(Before(g)) < Cardinality(Before(f))
    <3> HIDE DEF Before
    <3>1. Before(g) # Before(f)
      BY <2>4
    <3>2. Cardinality(Before(g)) <= Cardinality(Before(f))
      BY <1>1, <2>3, FS_Subset
    <3>3. Cardinality(Before(g)) # Cardinality(Before(f))
      BY <1>1, <2>3, <3>1, FS_Subset
    <3>4. QED  BY <1>1, <3>2, <3>3
  <2>6. Cardinality(Before(f)) <= Cardinality(Before(g))
    BY <1>4, <1>5, <2>2
  <2>7. Cardinality(Before(f)) \in Nat /\ Cardinality(Before(g)) \in Nat
    BY <1>1
  <2> HIDE DEF Before
  <2>8. QED  BY <2>5, <2>6, <2>7
<1>7. Cardinality(Before(f)) < NUM_FILES
  <2>1. Cardinality(Before(f)) = 0
    BY <1>6, FS_EmptySet
  <2>2. NUM_FILES \in Nat \ {0}
    BY CleanerAssumption
  <2> HIDE DEF Before
  <2>3. QED  BY <2>1, <2>2
<1>8. f \in mysql_files
  BY <1>7 DEF mysql_files
<1>9. QED  BY <1>8

\* A child changes the row of no file but one that the cleaner has met then.
LEMMA OtherRows ==
  ASSUME TypeOK, ChildStep, pc # "begin", NEW g \in Files \ met'
  PROVE  g \notin met /\ row'[g] = row[g]
<1>1. PICK c \in Children, f \in Files :
        \/ \E want \in Wanted : lockFile(c, f, want)
        \/ Look(c, f) \/ NotOnDisk(c, f) \/ RowMissing(c, f) \/ MapMissing(c, f)
        \/ MissOrHit(c, f) \/ OpenToWrite(c, f) \/ Write(c, f) \/ SubUpdate(c, f)
        \/ Update(c, f) \/ OpenToRead(c, f) \/ Die(c, f)
        \/ \E n \in 0 .. Cardinality(Blocks) : ServeHit(c, f, n)
  BY CleanerAssumption DEF ChildStep
<1>2. CASE Die(c, f)
  BY <1>2 DEF Die, base, past
<1>3. CASE ~Die(c, f)
  <2>1. Met(f)
    BY <1>1, <1>3 DEF lockFile, Look, NotOnDisk, RowMissing, MapMissing, MissOrHit,
       OpenToWrite, Write, SubUpdate, Update, OpenToRead, ServeHit, ChildAt
  <2>2. met' = met \cup {f}
    BY <2>1 DEF Met
  <2>3. g # f /\ g \notin met
    BY <2>2
  <2>4. row'[g] = row[g]
    BY <1>1, <1>3, <2>3 DEF lockFile, Look, NotOnDisk, RowMissing, MapMissing, MissOrHit,
       OpenToWrite, Write, SubUpdate, Update, MapSaved, OpenToRead, ServeHit, base,
       TypeOK, TableType
  <2>5. QED  BY <2>3, <2>4
<1>4. QED  BY <1>2, <1>3

\* The children do not move the cleaner.
LEMMA CleanerRests ==
  ASSUME ChildStep
  PROVE  UNCHANGED <<mode, pc, date_min, date_max, fase, hit, flag, todo, mb_eliminate>>
BY ChildMeets DEF Met, cleaner

\* What the passes have left they have left for good: rows that the cleaner has
\* not met since either stay as they are or go.
LEMMA PassStays ==
  ASSUME PassInv, UNCHANGED <<date_min, date_max, fase, hit, flag>>,
         \A g \in Files \ met' : g \notin met /\ (HasRow(g)' => row'[g] = row[g])
  PROVE  PassInv'
<1>1. DateMax(fase, LastHit)' = DateMax(fase, LastHit)
  BY DEF DateMax
<1>2. ASSUME NEW g \in Files \ met', NEW day, HasRow(g)'
      PROVE  /\ g \in Files \ met
             /\ By(g, day)' <=> By(g, day)
             /\ Above(g)' <=> Above(g)
             /\ Between(g)' <=> Between(g)
  BY <1>2 DEF By, Above, Between, HasRow
<1>3. QED
  BY <1>1, <1>2 DEF PassInv, By

\* After a pass that reached no row, every row of its dates was asked for more
\* than it took; after the pass with >, no more than that.
LEMMA PassDone ==
  ASSUME TypeOK, Matching = {}, mode # "file", NEW f \in Files, By(f, DateMax(fase, hit))
  PROVE  IF flag THEN row[f].asked <= hit * row[f].size
                 ELSE row[f].asked > hit * row[f].size
<1>1. ~Condition(f)
  BY DEF Matching
<1>2. row[f].asked \in Nat /\ row[f].size \in Nat /\ hit \in Nat
  BY RowType DEF TypeOK, CleanerType, By, Rows
<1>3. hit * row[f].size \in Nat
  BY <1>2
<1>4. date_min <= row[f].day /\ row[f].day <= getNewDateMax /\ HasRow(f)
  BY DateOfPass DEF By
<1>5. QED  BY <1>1, <1>2, <1>3, <1>4 DEF Condition

\* The last pass leaves nothing but what is between it and the one before.
LEMMA PhaseDone ==
  ASSUME TypeOK, PassInv, flag, Matching = {}, mode # "file",
         NEW day \in Int, day <= DateMax(fase, hit), day <= DateMax(fase, LastHit),
         DateMax(fase, hit) \in Int, DateMax(fase, LastHit) \in Int,
         NEW f \in Files \ met, By(f, day)
  PROVE  Between(f)
<1>1. row[f].day \in Int /\ HasRow(f)
  BY RowType DEF TypeOK, By, Rows
<1>2. By(f, DateMax(fase, hit)) /\ By(f, DateMax(fase, LastHit))
  BY <1>1 DEF By
<1>3. row[f].asked <= hit * row[f].size
  BY <1>2, PassDone
<1>4. Above(f)
  BY <1>2 DEF PassInv
<1>5. hit = HitBeyond
  BY DEF PassInv
<1>6. QED  BY <1>3, <1>4, <1>5 DEF Above, Between, HitBeyond, LastHit

\* The hit counts are numbers that PhaseEnds knows.
LEMMA HitRange ==
  ASSUME PassInv
  PROVE  hit \in 0 .. MAX_HIT + STEP /\ LastHit \in 0 .. MAX_HIT + STEP
<1>1. MAX_HIT \in Nat \ {0} /\ STEP \in Nat \ {0} /\ TURN \in Nat
  BY CleanerAssumption
<1>2. PassHits \in SUBSET (0 .. MAX_HIT - 1) /\ MAX_HIT - 1 \in Nat
  BY <1>1 DEF PassHits
<1>3. 0 \in PassHits
  BY <1>1 DEF PassHits
<1>4. LastHit \in 0 .. MAX_HIT - 1
  BY <1>2, <1>3, GreatestNat DEF LastHit
<1>5. HitBeyond \in 0 .. MAX_HIT + STEP
  BY <1>1, <1>4 DEF HitBeyond
<1>6. hit \in PassHits \/ hit = HitBeyond
  BY DEF PassInv
<1>7. hit \in 0 .. MAX_HIT + STEP
  <2>1. CASE hit \in PassHits
    <3>1. hit \in 0 .. MAX_HIT - 1
      BY <1>2, <2>1
    <3>2. QED  BY <1>1, <3>1
  <2>2. QED  BY <1>5, <1>6, <2>1
<1>8. QED  BY <1>1, <1>4, <1>7

\* At the end of the last phase nothing is left up to the newest day.
LEMMA EndReached ==
  ASSUME TypeOK, PassInv, flag, Matching = {}, mode # "file", getNewDateMax = date_max,
         NEW f \in Files \ met, By(f, date_max)
  PROVE  Between(f)
<1>1. DateMax(fase, hit) = date_max
  BY DateOfPass
<1>2. fase \in 0 .. EXACT /\ date_min \in Int /\ date_max \in Int
      /\ EXACT \in Nat /\ MAX_HIT \in Nat /\ STEP \in Nat
  BY CleanerAssumption DEF TypeOK, CleanerType
<1>3. DateMax(fase, LastHit) = date_max
  <2>1. CASE fase = EXACT
    BY <1>2, <2>1 DEF DateMax
  <2>2. CASE fase # EXACT
    <3>1. fase \in 0 .. EXACT - 1
      BY <1>2, <2>2
    <3>2. date_min <= date_max
      BY DEF PassInv
    <3>3. ~(date_min < date_max)
      BY <1>1, <1>2, <3>1, <3>2, HitRange, PhaseEnds
    <3>4. date_min = date_max
      BY <1>2, <3>2, <3>3
    <3>5. QED  BY <3>1, <3>2, <3>4, HitRange, PhaseEnds
  <2>3. QED  BY <2>1, <2>2
<1>4. date_max <= date_max
  BY <1>2
<1>5. QED  BY <1>1, <1>2, <1>3, <1>4, PhaseDone

\* From a pass that reached no row to the next.
LEMMA NextPassKeeps ==
  ASSUME TypeOK, PassInv, mode # "file", Matching = {}, NextPass,
         UNCHANGED <<row, date_min, date_max, met>>
  PROVE  PassInv'
<1> USE DEF TypeOK
<1>1. fase \in 0 .. EXACT /\ date_min \in Int /\ date_max \in Int
      /\ EXACT \in Nat \ {0} /\ MAX_HIT \in Nat \ {0} /\ STEP \in Nat \ {0} /\ TURN \in Nat
  BY CleanerAssumption DEF CleanerType
<1>2. \A f \in Files : By(f, date_max - 1)' = By(f, date_max - 1)
                       /\ Above(f)' = Above(f) /\ Between(f)' = Between(f)
  BY DEF By, Above, Between, HasRow
<1>3. \A i, h : DateMax(i, h)' = DateMax(i, h)
  BY DEF DateMax
<1>4. date_min' <= date_max'
  BY DEF PassInv
<1>5. CASE ~flag /\ hit' = NextHit /\ flag' = (NextHit >= MAX_HIT) /\ UNCHANGED <<fase, pc>>
  <2>1. hit \in PassHits
    BY <1>5 DEF PassInv
  <2>2. NextHit < MAX_HIT => NextHit \in PassHits
    BY <2>1, HitsInOrder
  <2>3. NextHit >= MAX_HIT => hit = LastHit /\ NextHit = HitBeyond
    BY <2>1, HitsInOrder
  <2>4. NextHit \in Nat
    BY <1>1 DEF NextHit, CleanerType
  <2>5. IF flag' THEN hit' = HitBeyond ELSE hit' \in PassHits
    <3>1. CASE NextHit >= MAX_HIT
      BY <1>5, <2>3, <3>1
    <3>2. CASE ~(NextHit >= MAX_HIT)
      <4>1. NextHit < MAX_HIT
        BY <1>1, <2>4, <3>2
      <4>2. ~flag'
        BY <1>5, <3>2, Zenon
      <4>3. QED  BY <1>5, <2>2, <4>1, <4>2
    <3>3. QED  BY <3>1, <3>2
  <2>6. ASSUME flag', NEW f \in Files \ met, By(f, DateMax(fase, LastHit))
        PROVE  Above(f)
    <3>1. hit = LastHit
      BY <1>5, <2>3, <2>6
    <3>2. row[f].asked > hit * row[f].size
      BY <1>5, <2>6, <3>1, PassDone
    <3>3. QED  BY <3>1, <3>2 DEF Above
  <2>7. flag' => \A f \in Files \ met' : (By(f, DateMax(fase, LastHit)) => Above(f))'
    <3>1. DateMax(fase, LastHit)' = DateMax(fase, LastHit)
      BY <1>5 DEF DateMax
    <3>2. \A f \in Files : By(f, DateMax(fase, LastHit))' = By(f, DateMax(fase, LastHit))
      BY <3>1 DEF By, HasRow
    <3>3. QED  BY <1>2, <2>6, <3>2
  <2>8. fase' = EXACT => \A f \in Files \ met' : (By(f, date_max - 1) => Between(f))'
    BY <1>2, <1>5 DEF PassInv
  <2>9. QED
    BY <1>4, <2>5, <2>7, <2>8 DEF PassInv, HitBeyond, LastHit, PassHits
<1>6. CASE /\ flag /\ fase' = (IF fase < EXACT THEN fase + 1 ELSE EXACT)
           /\ hit' = 0 /\ flag' = FALSE
  <2>1. 0 \in PassHits
    BY <1>1 DEF PassHits
  <2>2. ASSUME fase' = EXACT, NEW f \in Files \ met, By(f, date_max - 1)
        PROVE  Between(f)
    <3>1. CASE fase = EXACT
      BY <2>2, <3>1 DEF PassInv
    <3>2. CASE fase # EXACT
      <4>1. fase \in 0 .. EXACT - 1 /\ fase = EXACT - 1
        BY <1>1, <1>6, <2>2, <3>2
      <4>2. date_min <= date_max
        BY DEF PassInv
      <4>3. DateMax(fase, hit) \in Int /\ DateMax(fase, hit) >= date_max - 1
        BY <4>1, <4>2, HitRange, PhaseEnds
      <4>4. DateMax(fase, LastHit) \in Int /\ DateMax(fase, LastHit) >= date_max - 1
        BY <4>1, <4>2, HitRange, PhaseEnds
      <4> DEFINE day == date_max - 1
      <4>5. day \in Int /\ day <= DateMax(fase, hit) /\ day <= DateMax(fase, LastHit)
        BY <1>1, <4>3, <4>4
      <4>6. By(f, day)
        BY <2>2
      <4> HIDE DEF day
      <4>7. QED  BY <1>6, <2>2, <4>3, <4>4, <4>5, <4>6, PhaseDone
    <3>3. QED  BY <3>1, <3>2
  <2>3. fase' = EXACT => \A f \in Files \ met' : (By(f, date_max - 1) => Between(f))'
    BY <1>2, <2>2
  <2>4. QED
    BY <1>4, <1>6, <2>1, <2>3 DEF PassInv, PassHits
<1>7. CASE UNCHANGED <<fase, hit, flag>>
  BY <1>7, PassStays
<1>8. QED  BY <1>5, <1>6, <1>7 DEF NextPass

\* No step undoes what the passes have done.
LEMMA PassesStep ==
  ASSUME TypeOK, Ordered, PassesInv, Next
  PROVE  PassesInv'
<1>1. CASE ChildStep
  <2>1. UNCHANGED <<mode, pc, date_min, date_max, fase, hit, flag>>
    BY <1>1, CleanerRests
  <2>2. CASE pc = "begin"
    BY <2>1, <2>2 DEF PassesInv
  <2>3. CASE pc # "begin"
    <3>1. \A g \in Files \ met' : g \notin met /\ row'[g] = row[g]
      BY <1>1, <2>3, OtherRows
    <3>2. PassInv => PassInv'
      BY <2>1, <3>1, PassStays
    <3>3. QED  BY <2>1, <2>3, <3>2 DEF PassesInv
  <2>4. QED  BY <2>2, <2>3
<1>2. CASE Begin
  <2>1. CASE pc' = "empty"
    BY <2>1 DEF PassesInv
  <2>2. CASE pc' # "empty"
    <3>1. fase' = 0 /\ hit' = 0 /\ flag' = FALSE
      BY <1>2 DEF Begin, PassesInv
    <3>2. MAX_HIT \in Nat \ {0} /\ EXACT \in Nat \ {0} /\ TURN \in Nat /\ STEP \in Nat
      BY CleanerAssumption
    <3>3. 0 \in PassHits
      BY <3>2 DEF PassHits
    <3>5. date_min' <= date_max'
      BY <1>2, <2>2 DEF Begin
    <3>6. pc' = "select"
      BY <1>2, <2>2 DEF Begin
    <3>7. PassInv'
      BY <3>1, <3>2, <3>3, <3>5 DEF PassInv, PassHits
    <3>8. QED  BY <3>6, <3>7 DEF PassesInv
  <2>3. QED  BY <2>1, <2>2
<1>3. CASE Select
  <2>1. pc = "select" /\ UNCHANGED <<row, mode, date_min, date_max, met>>
    BY <1>3 DEF Select, base
  <2>2. pc' # "begin"
    BY <1>3 DEF Select, NextPass
  <2>3. SUFFICES ASSUME mode # "file" PROVE PassInv'
    BY <2>1, <2>2 DEF PassesInv
  <2>4. PassInv
    BY <2>1, <2>3 DEF PassesInv
  <2>5. CASE mysql_files = {}
    <3>1. Matching = {} /\ NextPass
      BY <1>3, <2>5, NothingMatches DEF Select
    <3>2. QED  BY <2>1, <2>3, <2>4, <3>1, NextPassKeeps
  <2>6. CASE mysql_files # {}
    BY <1>3, <2>1, <2>4, <2>6, PassStays DEF Select
  <2>7. QED  BY <2>5, <2>6
<1>4. CASE RemoveFile \/ RemoveFails
  <2>1. UNCHANGED <<row, mode, pc, date_min, date_max, fase, hit, flag, met>>
    BY <1>4 DEF RemoveFile, RemoveFails, base
  <2>2. PassInv => PassInv'
    BY <2>1, PassStays
  <2>3. QED  BY <2>1, <2>2 DEF PassesInv
<1>5. CASE Delete
  <2>1. UNCHANGED <<mode, date_min, date_max, fase, hit, flag, met>> /\ pc = "remove"
        /\ pc' \in {"end", "select"} /\ Deleted(mysql_files)
    BY <1>5 DEF Delete
  <2>2. \A g \in Files : HasRow(g)' => row'[g] = row[g]
    BY <2>1, DeletedRow DEF HasRow
  <2>3. PassInv => PassInv'
    BY <2>1, <2>2, PassStays
  <2>4. QED  BY <2>1, <2>3 DEF PassesInv
<1>6. CASE SelectNamed \/ deleteEmptyRecords \/ CleanerDies
  BY <1>6 DEF SelectNamed, deleteEmptyRecords, CleanerDies, PassesInv
<1>7. QED  BY <1>1, <1>2, <1>3, <1>4, <1>5, <1>6 DEF Next, Work

\* The cleaner stops before its amount only after the last phase.
LEMMA ForgottenStep ==
  ASSUME TypeOK, Ordered, PassesInv, NothingForgotten, Next
  PROVE  NothingForgotten'
<1> SUFFICES ASSUME pc' = "end", mode' \in {"limit", "dates"},
                    (mb_eliminate < total_delete_mb)',
                    NEW f \in Files, HasRow(f)',
                    (date_min <= row[f].day /\ row[f].day <= date_max)',
                    f \notin met'
             PROVE  Between(f)'
  BY DEF NothingForgotten, Spared
<1>1. CASE ChildStep
  <2>1. UNCHANGED <<mode, pc, date_min, date_max, mb_eliminate>>
    BY <1>1, CleanerRests
  <2>2. f \notin met /\ row'[f] = row[f]
    BY <1>1, <2>1, OtherRows
  <2>3. total_delete_mb' = total_delete_mb
    BY <2>1 DEF total_delete_mb
  <2>4. Between(f)
    BY <2>1, <2>2, <2>3 DEF NothingForgotten, Spared, HasRow
  <2>5. QED  BY <2>2, <2>4 DEF Between
<1>2. CASE Select
  <2>1. pc = "select" /\ mode # "file"
        /\ UNCHANGED <<row, mode, date_min, date_max, mb_eliminate, met>>
    BY <1>2 DEF Select, base
  <2>2. mysql_files = {} /\ NextPass
    BY <1>2, <2>1 DEF Select
  <2>3. total_delete_mb' = total_delete_mb
    BY <2>1 DEF total_delete_mb
  <2>4. total_delete_mb \in Nat /\ mb_eliminate \in Nat
    BY CleanerAssumption DEF total_delete_mb, TypeOK, CleanerType
  <2>5. flag /\ getNewDateMax = date_max
    BY <2>1, <2>2, <2>3, <2>4 DEF NextPass
  <2>6. PassInv
    BY <2>1 DEF PassesInv
  <2>7. By(f, date_max)
    BY <2>1 DEF By, HasRow
  <2>8. Between(f)
    BY <2>1, <2>2, <2>5, <2>6, <2>7, NothingMatches, EndReached
  <2>9. QED  BY <2>1, <2>8 DEF Between
<1>3. CASE Delete
  <2>1. mb_eliminate > total_delete_mb /\ UNCHANGED <<mode, mb_eliminate>>
    BY <1>3 DEF Delete
  <2>2. total_delete_mb \in Nat /\ mb_eliminate \in Nat /\ total_delete_mb' = total_delete_mb
    BY <2>1, CleanerAssumption DEF total_delete_mb, TypeOK, CleanerType
  <2>3. QED  BY <2>1, <2>2
<1>4. CASE \/ Begin \/ SelectNamed \/ RemoveFile \/ RemoveFails
          \/ deleteEmptyRecords \/ CleanerDies
  BY <1>4 DEF Begin, SelectNamed, RemoveFile, RemoveFails, deleteEmptyRecords, CleanerDies
<1>5. QED  BY <1>1, <1>2, <1>3, <1>4 DEF Next, Work

\* A deletion that reaches the newest day comes in the rounded phases.
LEMMA NewestStep ==
  ASSUME TypeOK, PassesInv, Delete, mode # "file",
         NEW f \in Files, NEW g \in Files, row[f] # row'[f], row[f].day = date_max,
         HasRow(g), date_min <= row[g].day, row[g].day < date_max
  PROVE  Spared(g)
<1>1. pc = "remove" /\ Deleted(mysql_files)
  BY DEF Delete
<1>2. f \in mysql_files
  BY <1>1, DeletedRow
<1>3. date_max <= getNewDateMax
  BY <1>2 DEF mysql_files, Matching, Condition, TypeOK, CleanerType
<1>4. PassInv
  BY <1>1 DEF PassesInv
<1>5. fase \in 0 .. EXACT /\ date_min \in Int /\ date_max \in Int /\ EXACT \in Nat
      /\ row[g].day \in Int
  BY CleanerAssumption, RowType DEF TypeOK, CleanerType, Rows
<1>6. fase = EXACT
  <2>1. SUFFICES ASSUME fase # EXACT PROVE FALSE
    OBVIOUS
  <2>2. fase \in 0 .. EXACT - 1
    BY <1>5, <2>1
  <2>3. date_min <= date_max /\ date_min < date_max
    BY <1>5
  <2>4. DateMax(fase, hit) \in Int /\ DateMax(fase, hit) < date_max
    BY <1>4, <2>2, <2>3, HitRange, PhaseEnds
  <2>5. QED  BY <1>3, <1>5, <2>4, DateOfPass
<1>7. By(g, date_max - 1)
  BY <1>5 DEF By
<1>8. QED  BY <1>4, <1>6, <1>7 DEF PassInv, Spared

(***************************************************************************)
(* The theorems.                                                           *)
(***************************************************************************)

CleanerInv ==
  /\ TypeOK /\ LinkedFiles
  /\ \A f \in Files \ raced : FileInv(f)
  /\ FilesFirst
  /\ FilesHaveRows
  /\ Ordered /\ PassesInv /\ NothingForgotten

LEMMA InitInv ==
  ASSUME Init
  PROVE  CleanerInv
<1>1. TypeOK /\ LinkedFiles
  BY InitTypes
<1>2. pc = "begin" /\ child = [c \in Children |-> Idle]
  BY DEF Init
<1>3. PICK left \in [Files -> Left] :
        row = [f \in Files |-> left[f][1]] /\ disk = [f \in Files |-> left[f][2]]
  BY DEF Init
<1>4. \A l \in Left : /\ l[1] # NoRow /\ l[2] # NoFile => l[1].map \subseteq l[2]
                      /\ l[2] # NoFile => l[1] # NoRow
  <2>1. Today \in Nat /\ Asked \subseteq Nat
    BY CleanerAssumption
  <2>2. \A d \in 0 .. Today, a \in Asked :
          Row(d, a, Blocks).map = Blocks /\ Row(d, a, Blocks) # NoRow
    BY <2>1, RowIsRow DEF Maps
  <2>3. Row(0, 0, {}).map = {} /\ Row(0, 0, {}) # NoRow
    BY <2>1, RowIsRow DEF Maps
  <2>4. QED  BY <2>2, <2>3 DEF Left
<1>5. ASSUME NEW f \in Files PROVE FileInv(f)
  <2>1. \A c \in Children : ~AtWork(c, f)
    BY <1>2 DEF AtWork, Idle
  <2>2. Saved(f)
    BY <1>3, <1>4 DEF Saved, HasRow, OnDisk
  <2>3. QED  BY <2>1, <2>2 DEF FileInv, OneAtWork, Held, Busy
<1>6. FilesFirst
  BY <1>2 DEF FilesFirst
<1>7. FilesHaveRows
  BY <1>3, <1>4 DEF FilesHaveRows, HasRow, OnDisk
<1>8. Ordered /\ PassesInv /\ NothingForgotten
  BY <1>2, InitOrdered DEF Init, PassesInv, NothingForgotten
<1>9. QED  BY <1>1, <1>5, <1>6, <1>7, <1>8 DEF CleanerInv

LEMMA StepInv ==
  ASSUME CleanerInv, [Next]_vars
  PROVE  CleanerInv'
<1>1. CASE Next
  <2>1. TypeOK /\ LinkedFiles /\ FilesFirst /\ FilesHaveRows
        /\ \A f \in Files \ raced : FileInv(f)
    BY DEF CleanerInv
  <2>2. TypeOK' /\ LinkedFiles'
    BY <1>1, <2>1, ChildTypes, WorkTypes, LinkedStep DEF Next
  <2>3. FilesFirst' /\ FilesHaveRows'
    BY <1>1, <2>1, FilesFirstStep, RowsStep
  <2>4. ASSUME NEW f \in Files \ raced' PROVE FileInv(f)'
    <3>1. raced \subseteq raced'
      BY <1>1, ChildKeepsHistory DEF Next, Work, Begin, Select, SelectNamed, RemoveFile,
         RemoveFails, Delete, deleteEmptyRecords, CleanerDies, past
    <3>2. FileInv(f)
      BY <2>1, <3>1
    <3>3. QED  BY <1>1, <2>1, <3>2, ChildKeeps, CleanerKeeps DEF Next
  <2>5. Ordered' /\ PassesInv' /\ NothingForgotten'
    BY <1>1, <2>1, OrderedStep, PassesStep, ForgottenStep DEF CleanerInv
  <2>6. QED  BY <2>2, <2>3, <2>4, <2>5 DEF CleanerInv
<1>2. CASE UNCHANGED vars
  <2>1. UNCHANGED <<row, older, disk, child, mode, pc, date_min, date_max,
                    fase, hit, flag, todo, mb_eliminate, met, crossed, raced, stuck>>
    BY <1>2 DEF vars, base, cleaner, past
  <2>2. TypeOK' /\ LinkedFiles'
    BY <2>1 DEF CleanerInv, TypeOK, TableType, ChildType, CleanerType, PastType,
       LinkedFiles, AtWork, OnDisk
  <2>3. \A f \in Files \ raced' : FileInv(f)'
    BY <2>1, LeftAlone DEF CleanerInv
  <2>4. FilesFirst'
    BY <2>1, SameRows DEF CleanerInv, FilesFirst, OnDisk
  <2>5. FilesHaveRows'
    BY <2>1 DEF CleanerInv, FilesHaveRows, OnDisk, HasRow
  <2>6. Ordered'
    BY <2>1 DEF CleanerInv, Ordered, HasRow
  <2>7. PassesInv'
    <3>1. PassInv => PassInv'
      BY <2>1, PassStays
    <3>2. QED  BY <2>1, <3>1 DEF CleanerInv, PassesInv
  <2>8. NothingForgotten'
    BY <2>1 DEF CleanerInv, NothingForgotten, Spared, Between, HasRow, total_delete_mb
  <2>9. QED  BY <2>2, <2>3, <2>4, <2>5, <2>6, <2>7, <2>8 DEF CleanerInv
<1>3. QED  BY <1>1, <1>2

\* The invariant: a file that no race has struck has one child at most, which
\* has the lock of its row and knows the file as it is; what a DELETE will
\* reach has lost its file before; and what is left of the dates is what the
\* passes so far do not reach.
THEOREM OneChildOrARace == Spec => []CleanerInv
<1>1. Init => CleanerInv
  BY InitInv
<1>2. CleanerInv /\ [Next]_vars => CleanerInv'
  BY StepInv
<1>3. QED
  BY <1>1, <1>2, PTL DEF Spec

\* The variables of the table, the children and the cleaner have their types.
THEOREM TypeCorrect == Spec => []TypeOK
<1>1. CleanerInv => TypeOK
  BY DEF CleanerInv
<1>2. QED  BY <1>1, OneChildOrARace, PTL

\* A saved map names bytes that are on the disk, as long as a file is there,
\* unless the cleaner took it from a child about to open it, or took the row
\* of a child at work (SubUpdate(), Update() and delete_by_block()).
THEOREM MapsNameWhatIsThere == Spec => []SavedOnDisk
<1>1. CleanerInv => SavedOnDisk
  BY DEF CleanerInv, FileInv, Saved, SavedOnDisk
<1>2. QED  BY <1>1, OneChildOrARace, PTL

\* delete_by_block() and --file leave a file without its row only if a child
\* stepped in between SELECT and DELETE, or an rm of it failed and was not
\* looked at, wherever the cleaner is killed.
THEOREM RowsGoAfterFiles == Spec => []FilesHaveRows
<1>1. CleanerInv => FilesHaveRows
  BY DEF CleanerInv
<1>2. QED  BY <1>1, OneChildOrARace, PTL

\* A cleaner that stops short of its amount has deleted every row of its dates,
\* but those between its last two passes and those that children worked on:
\* whatever the number of files, the LIMIT, the hit counts and the phases.
THEOREM PassesReachAll == Spec => []NothingForgotten
<1>1. CleanerInv => NothingForgotten
  BY DEF CleanerInv
<1>2. QED  BY <1>1, OneChildOrARace, PTL

\* A row of the newest day is deleted only when no older row of the dates is
\* left that a pass could reach: the phases that are not rounded end before
\* that day, and the last of them has left nothing behind.
THEOREM NewestDayGoesLast == Spec => NewestLast
<1> DEFINE last ==
      Delete /\ mode # "file" =>
        \A f, g \in Files :
          (row[f] # row'[f] /\ row[f].day = date_max
             /\ HasRow(g) /\ date_min <= row[g].day /\ row[g].day < date_max)
          => Spared(g)
<1>1. ASSUME CleanerInv PROVE last
  BY <1>1, NewestStep DEF CleanerInv
<1>2. CleanerInv /\ [Next]_vars => [last]_vars
  BY <1>1
<1>3. QED  BY <1>2, OneChildOrARace, PTL DEF Spec, NewestLast
=============================================================================
