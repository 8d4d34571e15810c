------------------------------ MODULE FileMutex ------------------------------
(***************************************************************************)
(* What the edit lock of a cached file promises its callers: the row       *)
(* `file_used` of a file names at most one process that may change the     *)
(* file's bytes and its map in the database.  EditLock implements it when  *)
(* no lock holder stays silent longer than the lease and no COMMIT fails.  *)
(***************************************************************************)
CONSTANTS Workers,   \* the forked children of haarp
          NoEditor   \* no process edits the file

VARIABLE editor

TypeOK == editor \in Workers \cup {NoEditor}

Init == editor = NoEditor

\* A child starts to edit the file: nobody else does.
Take(p) == editor = NoEditor /\ editor' = p

\* The editor stops: it released the lock, forgot it, or died.
Leave == editor # NoEditor /\ editor' = NoEditor

Next == Leave \/ \E p \in Workers : Take(p)

Spec == Init /\ [][Next]_editor
=============================================================================
