--------------------------- MODULE Processes_proofs ---------------------------
(***************************************************************************)
(* Proofs about what the children share with no regard to a file's bytes:  *)
(* the edit lock, for any set of children, any lease, any renewal period   *)
(* and any patience, and the pool that they belong to, for every           *)
(* configuration.                                                          *)
(***************************************************************************)
EXTENDS EditLock, ProcessPool, TLAPS

USE DEF Holder, Holders

(***************************************************************************)
(* Types.                                                                  *)
(***************************************************************************)

\* Every variable keeps its type: in particular the age of the row never
\* leaves 0 .. Lease + 1, whichever statements race.
THEOREM TypeCorrect == Spec => []TypeOK
<1> USE TimesAssumption
<1>1. Init => TypeOK
  <2> SUFFICES ASSUME Init PROVE TypeOK
    OBVIOUS
  <2>1. row \in Rows
    BY DEF Init
  <2>2. pc \in [Workers -> Phases]
    BY DEF Init, Phases
  <2> QED
    BY <2>1, <2>2 DEF Init, TypeOK, Breaches
<1>2. TypeOK /\ [Next]_vars => TypeOK'
  <2> SUFFICES ASSUME TypeOK, [Next]_vars PROVE TypeOK'
    OBVIOUS
  <2> USE DEF TypeOK, Rows, Phases, Goto, Breaches, Broken
  <2>1. ASSUME NEW p \in Workers, InsertLock(p) PROVE TypeOK'
    BY <2>1 DEF InsertLock, GotLock
  <2>2. ASSUME NEW p \in Workers, TakeFree(p) PROVE TypeOK'
    BY <2>2 DEF TakeFree, GotLock
  <2>3. ASSUME NEW p \in Workers, RefuseBusy(p) PROVE TypeOK'
    BY <2>3 DEF RefuseBusy, GoDirect
  <2>4. ASSUME NEW p \in Workers, TakeStale(p) PROVE TypeOK'
    BY <2>4 DEF TakeStale, GotLock
  <2>5. ASSUME NEW p \in Workers, LockError(p) PROVE TypeOK'
    BY <2>5 DEF LockError, GoDirect
  <2>6. ASSUME NEW p \in Workers, Advance(p) PROVE TypeOK'
    <3>1. CASE FileAbsent(p) BY <3>1 DEF FileAbsent, Touch
    <3>2. CASE FileMiss(p) BY <3>2 DEF FileMiss
    <3>3. CASE FileHit(p) BY <3>3 DEF FileHit, Touch
    <3>4. CASE KeepLock(p) BY <3>4 DEF KeepLock
    <3>5. CASE Cancel(p) BY <3>5 DEF Cancel, liberate_edition
    <3>6. CASE StartBody(p) BY <3>6 DEF StartBody
    <3>7. CASE Update(p) BY <3>7 DEF Update, Touch
    <3>8. CASE UpdateFrees(p) BY <3>8 DEF UpdateFrees, liberate_edition
    <3>9. CASE NextRequest(p) BY <3>9 DEF NextRequest, Forget
    <3>10. CASE CloseUpdate(p)
      BY <3>10 DEF CloseUpdate, Forget, liberate_edition
    <3> QED
      BY <2>6, <3>1, <3>2, <3>3, <3>4, <3>5, <3>6, <3>7, <3>8, <3>9, <3>10
         DEF Advance
  <2>7. ASSUME NEW p \in Workers, SubUpdate(p) PROVE TypeOK'
    BY <2>7 DEF SubUpdate, Touch
  <2>8. ASSUME NEW p \in Workers, Crash(p) PROVE TypeOK'
    BY <2>8 DEF Crash, Forget
  <2>9. CASE Tick
    BY <2>9 DEF Tick
  <2>10. CASE UNCHANGED vars
    BY <2>10 DEF vars
  <2>11. ASSUME NEW p \in Workers, CommitLost(p) PROVE TypeOK'
    BY <2>11 DEF CommitLost
  <2> QED
    BY <2>1, <2>2, <2>3, <2>4, <2>5, <2>6, <2>7, <2>8, <2>9, <2>10, <2>11
       DEF Next, lockFile
<1> QED
  BY <1>1, <1>2, PTL DEF Spec

(***************************************************************************)
(* Exclusion until a theft.                                                *)
(***************************************************************************)

\* The lease argument, one step per action: a release, a refusal, an error or
\* a crash takes nobody's lock away, and a take-over of a held lock and a lost
\* COMMIT are breaches.
LEMMA LeaseStep == TypeOK /\ LeaseInv /\ [Next]_vars => LeaseInv'
<1> SUFFICES ASSUME TypeOK, LeaseInv, [Next]_vars PROVE LeaseInv'
  OBVIOUS
<1> USE TimesAssumption DEF TypeOK, Rows, LeaseInv, Goto, Broken
<1>1. ASSUME NEW p \in Workers, InsertLock(p) PROVE LeaseInv'
  BY <1>1 DEF InsertLock, GotLock
<1>2. ASSUME NEW p \in Workers, TakeFree(p) PROVE LeaseInv'
  BY <1>2 DEF TakeFree, GotLock
<1>3. ASSUME NEW p \in Workers, RefuseBusy(p) PROVE LeaseInv'
  BY <1>3 DEF RefuseBusy, GoDirect
<1>4. ASSUME NEW p \in Workers, TakeStale(p) PROVE LeaseInv'
  BY <1>4 DEF TakeStale, GotLock
<1>5. ASSUME NEW p \in Workers, LockError(p) PROVE LeaseInv'
  BY <1>5 DEF LockError, GoDirect
<1>6. ASSUME NEW p \in Workers, Advance(p) PROVE LeaseInv'
  <2>1. CASE FileAbsent(p) BY <2>1 DEF FileAbsent, Touch
  <2>2. CASE FileMiss(p) BY <2>2 DEF FileMiss
  <2>3. CASE FileHit(p) BY <2>3 DEF FileHit, Touch
  <2>4. CASE KeepLock(p) BY <2>4 DEF KeepLock
  <2>5. CASE Cancel(p) BY <2>5 DEF Cancel, liberate_edition
  <2>6. CASE StartBody(p) BY <2>6 DEF StartBody
  <2>7. CASE Update(p) BY <2>7 DEF Update, Touch
  <2>8. CASE UpdateFrees(p) BY <2>8 DEF UpdateFrees, liberate_edition
  <2>9. CASE NextRequest(p) BY <2>9 DEF NextRequest, Forget
  <2>10. CASE CloseUpdate(p)
    BY <2>10 DEF CloseUpdate, Forget, liberate_edition
  <2> QED
    BY <1>6, <2>1, <2>2, <2>3, <2>4, <2>5, <2>6, <2>7, <2>8, <2>9, <2>10
       DEF Advance
<1>7. ASSUME NEW p \in Workers, SubUpdate(p) PROVE LeaseInv'
  BY <1>7 DEF SubUpdate, Touch
<1>8. ASSUME NEW p \in Workers, Crash(p) PROVE LeaseInv'
  BY <1>8 DEF Crash, Forget
<1>9. CASE Tick
  BY <1>9 DEF Tick
<1>10. CASE UNCHANGED vars
  BY <1>10 DEF vars
<1>11. ASSUME NEW p \in Workers, CommitLost(p) PROVE LeaseInv'
  BY <1>11 DEF CommitLost
<1> QED
  BY <1>1, <1>2, <1>3, <1>4, <1>5, <1>6, <1>7, <1>8, <1>9, <1>10, <1>11
     DEF Next, lockFile

LEMMA LeaseAlways == Spec => []LeaseInv
<1>1. Init => LeaseInv
  BY DEF Init, LeaseInv
<1> QED
  BY <1>1, TypeCorrect, LeaseStep, PTL DEF Spec

\* Whatever the lease and however silent the holders: two children edit one
\* file only after a lock was taken over from a live holder or never committed.
THEOREM Exclusive == Spec => []ExclusiveUntilTheft
<1>1. LeaseInv => ExclusiveUntilTheft
  BY DEF LeaseInv, ExclusiveUntilTheft
<1> QED
  BY <1>1, LeaseAlways, PTL

\* The first child robbed of its lock had not touched the row for longer than
\* the lease.
THEOREM Silence == Spec => TheftNeedsSilence
<1>1. TypeOK /\ LeaseInv /\ [Next]_vars
       => [breach' = "theft" /\ breach = "none"
             => \A p \in Holders : quiet[p] > Lease]_vars
  <2> SUFFICES ASSUME TypeOK, LeaseInv, Next, breach' = "theft",
                      breach = "none", NEW q \in Holders
               PROVE quiet[q] > Lease
    BY DEF vars
  <2>1. PICK p \in Workers : TakeStale(p)
    BY DEF Next, lockFile, Advance, InsertLock, TakeFree, RefuseBusy, LockError,
           GotLock, GoDirect, FileAbsent, FileMiss, FileHit, KeepLock, Cancel,
           StartBody, Update, UpdateFrees, NextRequest, CloseUpdate, Forget,
           SubUpdate, Crash, Tick, CommitLost, Broken
  <2>2. row.age \in Nat /\ quiet[q] \in Nat
    BY TimesAssumption DEF TypeOK, Rows
  <2>3. row.age > Lease
    BY <2>1, <2>2, TimesAssumption DEF TakeStale, Fresh
  <2>4. row.age <= quiet[q]
    BY DEF LeaseInv
  <2> QED
    BY <2>2, <2>3, <2>4, TimesAssumption
<1> QED
  BY <1>1, TypeCorrect, LeaseAlways, PTL DEF Spec, TheftNeedsSilence

(***************************************************************************)
(* Short silences: full exclusion and the mutex.                           *)
(***************************************************************************)

\* A holder that is never silent for longer than the lease is never robbed.
LEMMA ShortStep ==
  ASSUME Patience <= Lease, ~CommitFails, TypeOK, LeaseInv, ShortInv, [Next]_vars
  PROVE  ShortInv'
<1> USE TimesAssumption DEF TypeOK, Rows, ShortInv, Goto, Broken
<1>1. ASSUME NEW p \in Workers, lockFile(p) PROVE ShortInv'
  <2>1. CASE InsertLock(p) BY <2>1 DEF InsertLock, GotLock
  <2>2. CASE TakeFree(p) BY <2>2 DEF TakeFree, GotLock
  <2>3. CASE RefuseBusy(p) BY <2>3 DEF RefuseBusy, GoDirect
  <2>4. CASE TakeStale(p)
    <3>1. Holders = {}
      <4>1. ASSUME NEW q \in Holders PROVE FALSE
        <5>1. row.age <= quiet[q] /\ quiet[q] <= Patience
          BY DEF LeaseInv
        <5>2. row.age > Lease
          BY <2>4 DEF TakeStale, Fresh
        <5> QED
          BY <5>1, <5>2
      <4> QED
        BY <4>1
    <3>2. \A q \in Workers : q # p => ~Holder(q)'
      BY <3>1, <2>4 DEF TakeStale, GotLock
    <3> QED
      BY <3>1, <3>2, <2>4 DEF TakeStale, GotLock
  <2>5. CASE LockError(p) BY <2>5 DEF LockError, GoDirect
  <2>6. CASE CommitLost(p) BY <2>6 DEF CommitLost
  <2> QED
    BY <1>1, <2>1, <2>2, <2>3, <2>4, <2>5, <2>6 DEF lockFile
<1>2. ASSUME NEW p \in Workers, Advance(p) PROVE ShortInv'
  <2>1. CASE FileAbsent(p) BY <2>1 DEF FileAbsent, Touch
  <2>2. CASE FileMiss(p) BY <2>2 DEF FileMiss
  <2>3. CASE FileHit(p) BY <2>3 DEF FileHit, Touch
  <2>4. CASE KeepLock(p) BY <2>4 DEF KeepLock
  <2>5. CASE Cancel(p) BY <2>5 DEF Cancel, liberate_edition
  <2>6. CASE StartBody(p) BY <2>6 DEF StartBody
  <2>7. CASE Update(p) BY <2>7 DEF Update, Touch
  <2>8. CASE UpdateFrees(p) BY <2>8 DEF UpdateFrees, liberate_edition
  <2>9. CASE NextRequest(p) BY <2>9 DEF NextRequest, Forget
  <2>10. CASE CloseUpdate(p)
    BY <2>10 DEF CloseUpdate, Forget, liberate_edition
  <2> QED
    BY <1>2, <2>1, <2>2, <2>3, <2>4, <2>5, <2>6, <2>7, <2>8, <2>9, <2>10
       DEF Advance
<1>3. ASSUME NEW p \in Workers, SubUpdate(p) PROVE ShortInv'
  BY <1>3 DEF SubUpdate, Touch
<1>4. ASSUME NEW p \in Workers, Crash(p) PROVE ShortInv'
  BY <1>4 DEF Crash, Forget
<1>5. CASE Tick
  BY <1>5 DEF Tick
<1>6. CASE UNCHANGED vars
  BY <1>6 DEF vars
<1> QED
  BY <1>1, <1>2, <1>3, <1>4, <1>5, <1>6 DEF Next

LEMMA ShortAlways ==
  ASSUME Patience <= Lease, ~CommitFails
  PROVE  Spec => []ShortInv
<1>1. Init => ShortInv
  BY DEF Init, ShortInv
<1>2. TypeOK /\ LeaseInv /\ ShortInv /\ [Next]_vars => ShortInv'
  BY ShortStep
<1> QED
  BY <1>1, <1>2, TypeCorrect, LeaseAlways, PTL DEF Spec

\* When no holder stays silent longer than the lease and every COMMIT works, at
\* most one child edits the file, whatever else fails, dies or forgets its lock.
THEOREM ShortHolders ==
  ASSUME Patience <= Lease, ~CommitFails
  PROVE  Spec => []OneEditor
<1>1. LeaseInv /\ ShortInv => OneEditor
  BY DEF LeaseInv, ShortInv, OneEditor
<1> QED
  BY <1>1, LeaseAlways, ShortAlways, PTL

\* The editor is the holder, when there is one.
EditorOK ==
  /\ \A p \in Holders : Editor = p
  /\ Holders = {} => Editor = Nobody

\* With one holder at most, Editor names it.
LEMMA EditorIsHolder == OneEditor => EditorOK
<1> SUFFICES ASSUME OneEditor PROVE EditorOK
  OBVIOUS
<1>1. ASSUME NEW p \in Holders PROVE Editor = p
  <2>1. Editor = CHOOSE q \in Workers : Holder(q)
    BY DEF Editor
  <2>2. Editor \in Holders
    BY <2>1
  <2> QED
    BY <2>2 DEF OneEditor
<1> QED
  BY <1>1 DEF Editor, EditorOK

\* No step hands the lock from one child to another: a new holder finds none.
LEMMA NoHandOver ==
  ASSUME Patience <= Lease, ~CommitFails, TypeOK, LeaseInv, ShortInv, [Next]_vars
  PROVE  Holders # {} => Holders' \subseteq Holders
<1> SUFFICES ASSUME Holders # {} PROVE Holders' \subseteq Holders
  OBVIOUS
<1>1. row.there /\ row.used /\ row.age <= Lease
  BY TimesAssumption DEF LeaseInv, ShortInv, TypeOK, Rows
<1> USE DEF TypeOK
<1>2. ASSUME NEW p \in Workers, lockFile(p) PROVE Holders' \subseteq Holders
  BY <1>1, <1>2 DEF lockFile, InsertLock, TakeFree, RefuseBusy, TakeStale,
                    LockError, CommitLost, GoDirect, Fresh
<1>3. ASSUME NEW p \in Workers, Advance(p) PROVE Holders' \subseteq Holders
  BY <1>3 DEF Advance, FileAbsent, FileMiss, FileHit, KeepLock, Cancel,
              StartBody, Update, UpdateFrees, NextRequest, CloseUpdate, Forget,
              liberate_edition
<1>4. ASSUME NEW p \in Workers, SubUpdate(p) PROVE Holders' \subseteq Holders
  BY <1>4 DEF SubUpdate
<1>5. ASSUME NEW p \in Workers, Crash(p) PROVE Holders' \subseteq Holders
  BY <1>5 DEF Crash, Forget
<1>6. CASE Tick
  BY <1>6 DEF Tick
<1>7. CASE UNCHANGED vars
  BY <1>7 DEF vars
<1> QED
  BY <1>2, <1>3, <1>4, <1>5, <1>6, <1>7 DEF Next

\* When no holder stays silent longer than the lease and every COMMIT works, the
\* row's protocol implements the mutex of FileMutex.
THEOREM Refinement ==
  ASSUME Patience <= Lease, ~CommitFails
  PROVE  Spec => MutexSpec
<1>1. Init => Mutex!Init
  <2> SUFFICES ASSUME Init PROVE Editor = Nobody
    BY DEF Mutex!Init
  <2> QED
    BY DEF Init, Editor
<1>2. /\ TypeOK /\ LeaseInv /\ ShortInv /\ EditorOK /\ EditorOK'
      /\ [Next]_vars
      => [Mutex!Next]_Editor
  <2> SUFFICES ASSUME TypeOK, LeaseInv, ShortInv, EditorOK, EditorOK',
                      [Next]_vars
               PROVE  [Mutex!Next]_Editor
    OBVIOUS
  <2>1. /\ \A p \in Holders : Editor = p
        /\ Holders = {} => Editor = Nobody
    BY DEF EditorOK
  <2>2. /\ \A p \in Holders' : Editor' = p
        /\ Holders' = {} => Editor' = Nobody
    BY DEF EditorOK
  <2>3. CASE Holders = {}
    <3>1. CASE Holders' = {}
      BY <2>1, <2>2, <2>3, <3>1
    <3>2. CASE Holders' # {}
      <4>1. PICK p \in Holders' : Editor' = p
        BY <2>2, <3>2
      <4>2. Mutex!Take(p)
        BY <2>1, <2>3, <4>1 DEF Mutex!Take
      <4> QED
        BY <4>1, <4>2 DEF Mutex!Next
    <3> QED
      BY <3>1, <3>2
  <2>4. CASE Holders # {}
    <3>1. Holders' \subseteq Holders
      BY <2>4, NoHandOver
    <3>2. PICK p \in Holders : Editor = p
      BY <2>1, <2>4
    <3>3. CASE Holders' = {}
      <4>1. Editor # Nobody
        BY <3>2, NobodyAssumption
      <4> QED
        BY <4>1, <2>2, <3>3 DEF Mutex!Next, Mutex!Leave
    <3>4. CASE Holders' # {}
      BY <3>1, <3>4, <2>1, <2>2
    <3> QED
      BY <3>3, <3>4
  <2> QED
    BY <2>3, <2>4
<1> QED
  BY <1>1, <1>2, TypeCorrect, LeaseAlways, ShortAlways, ShortHolders,
     EditorIsHolder, PTL DEF Spec, MutexSpec, Mutex!Spec

(***************************************************************************)
(* The pool of children, for every configuration.                          *)
(***************************************************************************)

LEMMA MostNat == Most \in Nat /\ Most >= SERVERNUMBER /\ Most >= MAXSERVERS + 1
BY PoolAssumption DEF Most

\* Every step of the parent and of its children keeps the invariant.
LEMMA PoolStep == PoolInv /\ [PoolNext]_poolvars => PoolInv'
<1> SUFFICES ASSUME PoolInv, [PoolNext]_poolvars PROVE PoolInv'
  OBVIOUS
<1> USE PoolAssumption, MostNat
         DEF PoolInv, PoolTypeOK, InstancesExact,
             InstancesBound, StartInv, Steps,
             At, Onto, children, WantsChild
<1>1. CASE Top
  BY <1>1 DEF Top
<1>2. CASE Reap
  BY <1>2 DEF Reap
<1>3. CASE Reaped
  BY <1>3 DEF Reaped
<1>4. CASE Fork
  <2>1. CASE startchild > 0
    BY <1>4, <2>1 DEF Fork
  <2>2. CASE startchild = 0
    BY <1>4, <2>2 DEF Fork
  <2> QED
    BY <2>1, <2>2
<1>5. CASE ForkError
  BY <1>5 DEF ForkError
<1>6. CASE ForkAgain
  BY <1>6 DEF ForkAgain
<1>7. CASE Forked
  BY <1>7 DEF Forked
<1>8. CASE Look
  BY <1>8 DEF Look
<1>9. CASE LookAgain
  <2>1. main' = "top" /\ hangup' = FALSE /\ rereadall' = rereadall
    BY <1>9 DEF LookAgain
  <2>2. UNCHANGED <<room, Instances, backlog, waiting, serving, zombies>>
    BY <1>9 DEF LookAgain
  <2>3. startchild = 0
    BY <1>9 DEF LookAgain
  <2>4. startchild' = 0 \/ (startchild' = 2 /\ Instances < MAXSERVERS)
    <3>1. CASE hangup /\ Instances < MAXSERVERS /\ backlog > 0
      BY <1>9, <2>3, <3>1 DEF LookAgain
    <3>2. CASE ~(hangup /\ Instances < MAXSERVERS /\ backlog > 0)
      BY <1>9, <2>3, <3>2 DEF LookAgain
    <3> QED
      BY <3>1, <3>2
  <2>5. PoolTypeOK'
    <3>1. startchild' \in 0 .. 2
      BY <2>4
    <3>2. rereadall' \in BOOLEAN /\ hangup' \in BOOLEAN
      BY <2>1
    <3> QED
      BY <2>1, <2>2, <3>1, <3>2
  <2>6. InstancesExact' /\ InstancesBound'
    BY <2>2
  <2>7. StartInv'
    BY <2>1, <2>2, <2>4
  <2> QED
    BY <2>5, <2>6, <2>7
<1>10. CASE AcceptClient
  BY <1>10 DEF AcceptClient
<1>11. CASE Exit
  BY <1>11 DEF Exit
<1>12. CASE Arrive
  BY <1>12 DEF Arrive
<1>13. CASE RereadAll
  BY <1>13 DEF RereadAll
<1>14. CASE UNCHANGED poolvars
  BY <1>14 DEF poolvars
<1>15. CASE Die
  BY <1>15 DEF Die
<1> QED
  BY <1>1, <1>2, <1>3, <1>4, <1>5, <1>6, <1>7, <1>8, <1>9, <1>10, <1>11,
     <1>12, <1>13, <1>14, <1>15 DEF PoolNext, Parent

LEMMA PoolAlways == PoolSpec => []PoolInv
<1>1. PoolInit => PoolInv
  <2> SUFFICES ASSUME PoolInit PROVE PoolInv
    OBVIOUS
  <2>1. PoolTypeOK
    <3>1. main \in Steps
      BY DEF PoolInit, Steps
    <3>2. rereadall \in BOOLEAN /\ hangup \in BOOLEAN
      BY DEF PoolInit
    <3>3. startchild \in 0 .. 2
      BY DEF PoolInit
    <3>4. backlog \in 0 .. MaxBacklog
      BY PoolAssumption DEF PoolInit
    <3> QED
      BY <3>1, <3>2, <3>3, <3>4 DEF PoolInit, PoolTypeOK
  <2>2. InstancesExact /\ StartInv
    BY DEF PoolInit, InstancesExact, StartInv
  <2>3. InstancesBound
    BY MostNat, PoolAssumption DEF PoolInit, InstancesBound
  <2> QED
    BY <2>1, <2>2, <2>3 DEF PoolInv
<1> QED
  BY <1>1, PoolStep, PTL DEF PoolSpec

\* The variables have their types; startchild never exceeds two.
THEOREM PoolTypeCorrect == PoolSpec => []PoolTypeOK
BY PoolAlways, PTL DEF PoolInv

\* The parent's count is that of its children, whoever ends when.
THEOREM CountExact == PoolSpec => []InstancesExact
BY PoolAlways, PTL DEF PoolInv

\* The pool overshoots MAXSERVERS by one child and never by more.
THEOREM CountBound == PoolSpec => []InstancesBound
BY PoolAlways, PTL DEF PoolInv

\* Where the process table has room for the largest pool, fork() is never tried
\* on a full table: neither the children nor those that ended and were not
\* waited for can keep the parent in its fork loop.
THEOREM ForkFindsRoom ==
  ASSUME \A n \in Rooms : n >= Most
  PROVE  PoolSpec => [](At("fork") /\ WantsChild => Processes < room)
<1>1. PoolInv => (At("fork") /\ WantsChild => Processes < room)
  <2> SUFFICES ASSUME PoolInv, WantsChild PROVE Processes < room
    OBVIOUS
  <2>1. Processes = Instances
    BY DEF Processes, PoolInv, InstancesExact
  <2>2. room \in Nat /\ room >= Most
    BY PoolAssumption DEF PoolInv, PoolTypeOK
  <2>3. Instances < Most
    BY MostNat, PoolAssumption DEF PoolInv, StartInv, WantsChild, PoolTypeOK
  <2> QED
    BY <2>1, <2>2, <2>3, MostNat DEF PoolInv, PoolTypeOK
<1> QED
  BY <1>1, PoolAlways, PTL
=============================================================================
