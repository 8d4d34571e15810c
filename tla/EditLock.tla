------------------------------- MODULE EditLock -------------------------------
(***************************************************************************)
(* The edit lock of one cached file.  The row of the file in the table     *)
(* `haarp` carries `file_used` and the two dates `modified` and            *)
(* `last_request`; every child process that handles a request for the file *)
(* runs lockFile(), and a child that finds the file in use goes straight   *)
(* to the Internet.  The lock is a lease: 30 seconds after the last touch  *)
(* of the row anybody may take it over.  There is no owner in the row, so  *)
(* liberate_edition() frees whatever lock is there.                        *)
(*                                                                         *)
(* Only GREATEST(modified, last_request) is ever compared, so the row      *)
(* keeps its age in seconds, which stops counting once the lease is over.  *)
(* One action is one SQL statement or transaction, with the assignments of *)
(* the process around it.                                                  *)
(***************************************************************************)
EXTENDS Naturals, FiniteSets

CONSTANTS
  Workers,     \* the forked children that request the file
  Nobody,      \* no child
  Lease,       \* lockFile(): seconds a touch keeps the lock (30)
  RenewAfter,  \* ReadBodyPart(): seconds between two SubUpdate() (over 30)
  Patience,    \* bound of the environment: seconds a holder may stay silent
  CommitFails  \* does the database ever refuse a COMMIT?

ASSUME NobodyAssumption == Nobody \notin Workers

ASSUME TimesAssumption ==
  Lease \in Nat /\ RenewAfter \in Nat /\ Patience \in Nat \ {0}

ASSUME CommitAssumption == CommitFails \in BOOLEAN

VARIABLES
  row,           \* the file's row: is it there, file_used, its age
  pc,            \* where each child is in its request
  editing,       \* ~exists_transaction_editing_file
  was_liberate,  \* the flag of the same name
  quiet,         \* history: seconds since the holder last touched the row
  breach         \* history: what first let a second child edit the file

vars == <<row, pc, editing, was_liberate, quiet, breach>>

Breaches ==
  {"none",
   "theft",  \* a lock was taken over from a live holder
   "lost"}   \* a child went on with a lock that was never committed

Phases ==
  {"idle",      \* waiting for a request
   "inserted",  \* lockFile() inserted the row
   "locked",    \* lockFile() took the row's lock
   "miss",      \* Cache() decided MISS: r.match && !hit, no header yet
   "body",      \* receiving the body and writing the cache file
   "hit",       \* r.match && hit: serving the cache file
   "direct",    \* !r.match: a plain proxy request
   "updated",   \* Update() wrote the row and is about to free the lock
   "ended"}     \* the request is answered

Rows == [there : BOOLEAN, used : BOOLEAN, age : 0 .. (Lease + 1)]

TypeOK ==
  /\ row \in Rows
  /\ pc \in [Workers -> Phases]
  /\ editing \in [Workers -> BOOLEAN]
  /\ was_liberate \in [Workers -> BOOLEAN]
  /\ quiet \in [Workers -> Nat]
  /\ breach \in Breaches

\* A child holds the lock as far as it knows: it would free it.
Holder(p) == editing[p] /\ ~was_liberate[p]
Holders == {p \in Workers : Holder(p)}

\* SELECT ... abs(TIMESTAMPDIFF(SECOND, now(), GREATEST(...))) <= 30
Fresh == row.age <= Lease
Lockable == row.used => ~Fresh

(***************************************************************************)
(* The statements.                                                         *)
(***************************************************************************)

\* Mutant of Touch: the date is left zero, far in the past.
TouchZeroDate(p) ==
  /\ row' = [row EXCEPT !.age = IF row.there THEN Lease + 2 ELSE @]
  /\ quiet' = [quiet EXCEPT ![p] = 0]

\* UPDATE haarp SET modified=now() / last_request=now(): the owner of the
\* lock, if there is one, is not asked.  The statement may fail.
Touch(p) ==
  \/ /\ row' = [row EXCEPT !.age = IF row.there THEN 0 ELSE @]
     /\ quiet' = [quiet EXCEPT ![p] = 0]
  \/ UNCHANGED <<row, quiet>>

\* liberate_edition(): UPDATE haarp SET file_used=0, whoever holds it; on an
\* error the lock stays and the flag too.
liberate_edition(p) ==
  \/ /\ Holder(p)
     /\ row' = [row EXCEPT !.used = FALSE]
     /\ was_liberate' = [was_liberate EXCEPT ![p] = TRUE]
  \/ UNCHANGED <<row, was_liberate>>

Goto(p, phase) == pc' = [pc EXCEPT ![p] = phase]

(***************************************************************************)
(* lockFile(): one transaction.                                            *)
(***************************************************************************)

GotLock(p, phase) ==
  /\ Goto(p, phase)
  /\ row' = [there |-> TRUE, used |-> TRUE, age |-> 0]
  /\ editing' = [editing EXCEPT ![p] = TRUE]
  /\ was_liberate' = [was_liberate EXCEPT ![p] = FALSE]
  /\ quiet' = [quiet EXCEPT ![p] = 0]

Broken(how) == IF breach = "none" THEN how ELSE breach

\* The file has no row: INSERT ... file_used=1.
InsertLock(p) ==
  /\ pc[p] = "idle"
  /\ ~row.there
  /\ GotLock(p, "inserted")
  /\ UNCHANGED breach

\* Mutant of TakeFree: looks at the row and not at file_used.
TakeUsed(p) ==
  /\ pc[p] = "idle"
  /\ row.there
  /\ GotLock(p, "locked")
  /\ UNCHANGED breach

\* file_used=0: UPDATE ... file_used=1.
TakeFree(p) ==
  /\ pc[p] = "idle"
  /\ row.there /\ ~row.used
  /\ GotLock(p, "locked")
  /\ UNCHANGED breach

\* The refused child works without the lock, "go direct to internet".
GoDirect(p) ==
  /\ pc[p] = "idle"
  /\ Goto(p, "direct")
  /\ editing' = [editing EXCEPT ![p] = FALSE]
  /\ UNCHANGED <<was_liberate, quiet, breach>>

\* Mutant of RefuseBusy: a refused request is recorded as a touch.
RefuseAndTouch(p) ==
  /\ row.there /\ row.used /\ Fresh
  /\ GoDirect(p)
  /\ row' = [row EXCEPT !.age = 0]

\* file_used=1 and touched within the lease: return 0.
RefuseBusy(p) ==
  /\ row.there /\ row.used /\ Fresh
  /\ GoDirect(p)
  /\ UNCHANGED row

\* A statement of the transaction fails: ROLLBACK, return -1.
LockError(p) == GoDirect(p) /\ UNCHANGED row

\* Mutant of TakeStale: the lease is not looked at.
TakeAnyUsed(p) ==
  /\ pc[p] = "idle"
  /\ row.there /\ row.used
  /\ breach' = Broken(IF Holders = {} THEN "none" ELSE "theft")
  /\ GotLock(p, "locked")

\* file_used=1 and not touched within the lease: "BLOCKING STRICT".
TakeStale(p) ==
  /\ pc[p] = "idle"
  /\ row.there /\ row.used /\ ~Fresh
  /\ breach' = Broken(IF Holders = {} THEN "none" ELSE "theft")
  /\ GotLock(p, "locked")

\* The COMMIT of a lock fails: nobody looks at its result, so the row stays as
\* it was and the child goes on as if the lock were its own.
CommitLost(p) ==
  /\ CommitFails
  /\ pc[p] = "idle"
  /\ Lockable
  /\ Goto(p, IF row.there THEN "locked" ELSE "inserted")
  /\ editing' = [editing EXCEPT ![p] = TRUE]
  /\ was_liberate' = [was_liberate EXCEPT ![p] = FALSE]
  /\ quiet' = [quiet EXCEPT ![p] = 0]
  /\ breach' = Broken("lost")
  /\ UNCHANGED row

(***************************************************************************)
(* Cache() after the lock, and the header of the answer.                   *)
(***************************************************************************)

\* The file is not on disk: MISS.  A row that was there is reset and touched.
FileAbsent(p) ==
  /\ pc[p] \in {"inserted", "locked"}
  /\ Goto(p, "miss")
  /\ IF pc[p] = "locked" THEN Touch(p) ELSE UNCHANGED <<row, quiet>>
  /\ UNCHANGED <<editing, was_liberate, breach>>

\* The file is on disk and lacks bytes of the request (or may lack them).
FileMiss(p) ==
  /\ pc[p] = "locked"
  /\ Goto(p, "miss")
  /\ UNCHANGED <<row, editing, was_liberate, quiet, breach>>

\* HIT, found by Cache() or, once the length is known, by Cache2().
FileHit(p) ==
  /\ pc[p] \in {"locked", "miss"}
  /\ Goto(p, "hit")
  /\ Touch(p)
  /\ UNCHANGED <<editing, was_liberate, breach>>

\* r.match = false with the lock kept: no disk has room, an odd netflix
\* name, a rewritten URL, an error of the UPDATE that resets the row.
KeepLock(p) ==
  /\ pc[p] \in {"inserted", "locked"}
  /\ Goto(p, "direct")
  /\ UNCHANGED <<row, editing, was_liberate, quiet, breach>>

\* r.match = false with liberate_edition(): errors in Cache(), a length out
\* of bounds, a status other than 200 and 206, If-None-Match on a HIT, a body
\* longer than the blocks asked for, a work list that is no HIT.
Cancel(p) ==
  /\ pc[p] \in {"locked", "miss", "body", "hit"}
  /\ Goto(p, "direct")
  /\ liberate_edition(p)
  /\ UNCHANGED <<editing, quiet, breach>>

\* The header is good for the cache; the body follows.
StartBody(p) ==
  /\ pc[p] = "miss"
  /\ Goto(p, "body")
  /\ UNCHANGED <<row, editing, was_liberate, quiet, breach>>

(***************************************************************************)
(* The transfer and its end.                                               *)
(***************************************************************************)

\* Mutant of SubUpdate: saves the ranges and forgets modified=now().
SubUpdateKeepDate(p) ==
  /\ pc[p] = "body"
  /\ quiet[p] >= RenewAfter
  /\ quiet' = [quiet EXCEPT ![p] = 0]
  /\ UNCHANGED <<row, pc, editing, was_liberate, breach>>

\* SubUpdate(): the only renewal of the lease during a transfer.  It needs
\* more than 15 flushes, each over 1.2 s (so 2 whole seconds) after the last.
SubUpdate(p) ==
  /\ pc[p] = "body"
  /\ quiet[p] >= RenewAfter
  /\ Touch(p)
  /\ UNCHANGED <<pc, editing, was_liberate, breach>>

\* Update(): the row gets the result of the request.  On a HIT that sent
\* nothing the statement is left out, which looks like a failed one.
Update(p) ==
  /\ pc[p] \in {"miss", "body", "hit"}
  /\ Goto(p, "updated")
  /\ Touch(p)
  /\ UNCHANGED <<editing, was_liberate, breach>>

\* The end of Update().
UpdateFrees(p) ==
  /\ pc[p] = "updated"
  /\ Goto(p, "ended")
  /\ liberate_edition(p)
  /\ UNCHANGED <<editing, quiet, breach>>

\* The child forgets the request: initializeVariables() before the next one
\* on the connection, or the end of the process.
Forget(p) ==
  /\ Goto(p, "idle")
  /\ editing' = [editing EXCEPT ![p] = FALSE]
  /\ quiet' = [quiet EXCEPT ![p] = 0]
  /\ UNCHANGED breach

\* The next request on a kept connection, or Close() after the browser left:
\* nothing is freed.  An answer without a body never calls Update().
NextRequest(p) ==
  /\ pc[p] \in {"miss", "hit", "direct", "ended"}
  /\ Forget(p)
  /\ UNCHANGED <<row, was_liberate>>

\* CloseUpdate() on a request that Update() is done with.
CloseUpdate(p) ==
  /\ pc[p] \in {"direct", "ended"}
  /\ Forget(p)
  /\ liberate_edition(p)

\* The child dies.
Crash(p) ==
  /\ pc[p] # "idle"
  /\ Forget(p)
  /\ UNCHANGED <<row, was_liberate>>

\* A second passes; no holder has been silent for Patience seconds.
Tick ==
  /\ \A p \in Holders : quiet[p] < Patience
  /\ row' = [row EXCEPT !.age = IF row.age <= Lease THEN @ + 1 ELSE @]
  /\ quiet' = [p \in Workers |-> IF Holder(p) THEN quiet[p] + 1 ELSE 0]
  /\ UNCHANGED <<pc, editing, was_liberate, breach>>

(***************************************************************************)
(* The specification.                                                      *)
(***************************************************************************)

\* The table outlives the program: the row may be anything, a forgotten lock
\* included.
Init ==
  /\ row \in {r \in Rows : ~r.there => ~r.used /\ r.age = 0}
  /\ pc = [p \in Workers |-> "idle"]
  /\ editing = [p \in Workers |-> FALSE]
  /\ was_liberate = [p \in Workers |-> FALSE]
  /\ quiet = [p \in Workers |-> 0]
  /\ breach = "none"

lockFile(p) ==
  \/ InsertLock(p) \/ TakeFree(p) \/ RefuseBusy(p) \/ TakeStale(p)
  \/ LockError(p) \/ CommitLost(p)

\* The steps that bring a request to its end.
Advance(p) ==
  \/ FileAbsent(p) \/ FileMiss(p) \/ FileHit(p) \/ KeepLock(p) \/ Cancel(p)
  \/ StartBody(p) \/ Update(p) \/ UpdateFrees(p)
  \/ NextRequest(p) \/ CloseUpdate(p)

Next ==
  \/ \E p \in Workers : lockFile(p) \/ Advance(p) \/ SubUpdate(p) \/ Crash(p)
  \/ Tick

Spec == Init /\ [][Next]_vars

\* Time passes, and every request ends: the waits for the network all have
\* time limits and bodies are finite.
FairSpec == Spec /\ WF_vars(Tick) /\ \A p \in Workers : WF_vars(Advance(p))

(***************************************************************************)
(* Properties.                                                             *)
(***************************************************************************)

\* Two children may edit the file at once only after a lock was taken over
\* from a live holder, or a COMMIT that nobody looks at has failed: releases,
\* refusals, other errors, crashes and forgotten locks never lead there on
\* their own.
ExclusiveUntilTheft ==
  breach # "none" \/ \A p, q \in Holders : p = q

\* The first take-over from a live holder robs a child that has not touched
\* the row for longer than the lease.
TheftNeedsSilence ==
  [][breach' = "theft" /\ breach = "none"
       => \A p \in Holders : quiet[p] > Lease]_vars

\* With Patience <= Lease, and no COMMIT lost: at most one child edits the file.
OneEditor == \A p, q \in Holders : p = q

\* A lock that is taken becomes free or stale again, whatever happened to the
\* child that took it.
LockableAgain == row.used ~> Lockable

\* At most one child receives a body into the cache file.  The README of the
\* program says (versions 1.2.1 and 1.3) "Fix concurrent caching of files."
OneWriter == \A p, q \in Workers : pc[p] = "body" /\ pc[q] = "body" => p = q

(***************************************************************************)
(* The invariants the proofs need; TLC checks them first.                  *)
(***************************************************************************)

\* Until the first breach a holder's lock is in the row, the row is at least as
\* young as the holder's last touch, and nobody else holds it.
LeaseInv ==
  \/ breach # "none"
  \/ /\ \A p \in Holders : row.there /\ row.used /\ row.age <= quiet[p]
     /\ \A p, q \in Holders : p = q

\* With Patience <= Lease, and no COMMIT lost, there is no breach at all.
ShortInv == breach = "none" /\ \A p \in Holders : quiet[p] <= Patience

(***************************************************************************)
(* The lock as a FileMutex.                                                *)
(***************************************************************************)

\* The child that edits the file.
Editor == IF Holders = {} THEN Nobody ELSE CHOOSE p \in Workers : Holder(p)

Mutex == INSTANCE FileMutex WITH NoEditor <- Nobody, editor <- Editor

\* With Patience <= Lease, and no COMMIT lost, the row's protocol implements
\* the mutex.
MutexSpec == Mutex!Spec
=============================================================================
