----------------------------- MODULE ProcessPool -----------------------------
(***************************************************************************)
(* The pool of proxy children.  The parent's loop in main() reaps children *)
(* that ended, forks new ones until there are SERVERNUMBER, and starts two *)
(* more when a connection is still not accepted after a second.  A child   *)
(* accepts one connection, serves it and exits.  The children are counted, *)
(* their work is in the other modules.  No name here is one of EditLock,   *)
(* so that one module can hold the proofs of both.                         *)
(***************************************************************************)
EXTENDS Integers

CONSTANTS
  SERVERNUMBER,  \* configured: children to keep
  MAXSERVERS,    \* configured: children at most
  Rooms,         \* limits the system may set on the processes at once
  MaxBacklog     \* bound: connections waiting for accept()

ASSUME PoolAssumption ==
  /\ SERVERNUMBER \in Nat /\ MAXSERVERS \in Nat /\ MaxBacklog \in Nat
  /\ Rooms \subseteq Nat

VARIABLES
  room,        \* the limit this system has set
  main,        \* where the parent is in its loop
  rereadall,   \* SIGHUP was received
  Instances,   \* the parent's count of its children
  startchild,  \* children still to be started for waiting connections
  hangup,      \* what CheckForData() said before the sleep
  backlog,     \* connections that wait for accept()
  waiting,     \* children in accept()
  serving,     \* children with a connection
  zombies      \* children that ended and were not waited for

poolvars == <<room, main, rereadall, Instances, startchild, hangup, backlog, waiting,
              serving, zombies>>

children == <<waiting, serving, zombies>>

Steps == {"top", "reap", "fork", "failed", "look", "sleep"}

(***************************************************************************)
(* The parent.                                                             *)
(***************************************************************************)

At(step) == main = step
Onto(step) == main' = step

\* Mutant of Top: the request is acted upon and stays.
TopKeepsRequest ==
  /\ At("top") /\ Onto("reap")
  /\ UNCHANGED <<room, rereadall, Instances, startchild, hangup, backlog, children>>

\* Logs are reopened and SIGUSR1 is sent to the children; they note it in
\* childrestart, which nobody reads.
Top ==
  /\ At("top") /\ Onto("reap")
  /\ rereadall' = FALSE
  /\ UNCHANGED <<room, Instances, startchild, hangup, backlog, children>>

\* Mutant of Reap: one child per round.
ReapOne ==
  /\ At("reap") /\ zombies > 0
  /\ Onto("fork")
  /\ zombies' = zombies - 1
  /\ Instances' = Instances - 1
  /\ UNCHANGED <<room, rereadall, startchild, hangup, backlog, waiting, serving>>

\* Mutant of Reap: the count is forgotten.
ReapUncounted ==
  /\ At("reap") /\ zombies > 0
  /\ zombies' = zombies - 1
  /\ UNCHANGED <<room, main, rereadall, Instances, startchild, hangup, backlog, waiting,
                 serving>>

\* while (waitpid(-1, &status, WNOHANG) > 0) Instances--;
Reap ==
  /\ At("reap") /\ zombies > 0
  /\ zombies' = zombies - 1
  /\ Instances' = Instances - 1
  /\ UNCHANGED <<room, main, rereadall, startchild, hangup, backlog, waiting, serving>>

Reaped ==
  /\ At("reap") /\ zombies = 0
  /\ Onto("fork")
  /\ UNCHANGED <<room, rereadall, Instances, startchild, hangup, backlog, children>>

WantsChild == startchild > 0 \/ Instances < SERVERNUMBER
Processes == waiting + serving + zombies

Fork ==
  /\ At("fork") /\ WantsChild /\ Processes < room
  /\ startchild' = IF startchild > 0 THEN startchild - 1 ELSE startchild
  /\ Instances' = Instances + 1
  /\ waiting' = waiting + 1
  /\ UNCHANGED <<room, main, rereadall, hangup, backlog, serving, zombies>>

\* Too many processes, where one that ended and was not waited for still has its
\* place in the table, or no memory at the moment.
ForkError ==
  /\ At("fork") /\ WantsChild
  /\ Onto("failed")
  /\ UNCHANGED <<room, rereadall, Instances, startchild, hangup, backlog, children>>

\* Ten seconds later, and in the same loop.
ForkAgain ==
  /\ At("failed") /\ Onto("fork")
  /\ UNCHANGED <<room, rereadall, Instances, startchild, hangup, backlog, children>>

Forked ==
  /\ At("fork") /\ ~WantsChild
  /\ Onto("look")
  /\ UNCHANGED <<room, rereadall, Instances, startchild, hangup, backlog, children>>

Look ==
  /\ At("look") /\ Onto("sleep")
  /\ hangup' = (backlog > 0)
  /\ UNCHANGED <<room, rereadall, Instances, startchild, backlog, children>>

\* Mutant of LookAgain: the limit is not looked at.
LookAgainUnlimited ==
  /\ At("sleep") /\ Onto("top")
  /\ startchild' = IF hangup /\ backlog > 0 THEN startchild + 2 ELSE startchild
  /\ hangup' = FALSE
  /\ UNCHANGED <<room, rereadall, Instances, backlog, children>>

\* Mutant of LookAgain: compared with the wrong number.
LookAgainServers ==
  /\ At("sleep") /\ Onto("top")
  /\ startchild' = IF hangup /\ Instances < SERVERNUMBER /\ backlog > 0
                   THEN startchild + 2 ELSE startchild
  /\ hangup' = FALSE
  /\ UNCHANGED <<room, rereadall, Instances, backlog, children>>

\* "Did a old process take care or is there still data?"
LookAgain ==
  /\ At("sleep") /\ Onto("top")
  /\ startchild' = IF hangup /\ Instances < MAXSERVERS /\ backlog > 0
                   THEN startchild + 2 ELSE startchild
  /\ hangup' = FALSE
  /\ UNCHANGED <<room, rereadall, Instances, backlog, children>>

(***************************************************************************)
(* The children and the world.                                             *)
(***************************************************************************)

AcceptClient ==
  /\ waiting > 0 /\ backlog > 0
  /\ waiting' = waiting - 1 /\ serving' = serving + 1 /\ backlog' = backlog - 1
  /\ UNCHANGED <<room, main, rereadall, Instances, startchild, hangup, zombies>>

\* Mutant of Exit: the child that ends takes itself off the parent's count.
ExitCountsItself ==
  /\ serving > 0
  /\ serving' = serving - 1 /\ zombies' = zombies + 1
  /\ Instances' = Instances - 1
  /\ UNCHANGED <<room, main, rereadall, startchild, hangup, backlog, waiting>>

\* Proxy() returns when the browser is dropped; `Instances--` of the child
\* changes its own copy.  A child that crashes while it serves ends here too.
Exit ==
  /\ serving > 0
  /\ serving' = serving - 1 /\ zombies' = zombies + 1
  /\ UNCHANGED <<room, main, rereadall, Instances, startchild, hangup, backlog, waiting>>

\* A child ends while it waits: its signals could not be installed, or it was
\* killed.
Die ==
  /\ waiting > 0
  /\ waiting' = waiting - 1 /\ zombies' = zombies + 1
  /\ UNCHANGED <<room, main, rereadall, Instances, startchild, hangup, backlog, serving>>

Arrive ==
  /\ backlog < MaxBacklog
  /\ backlog' = backlog + 1
  /\ UNCHANGED <<room, main, rereadall, Instances, startchild, hangup, children>>

\* SIGHUP, or SIGUSR2.
RereadAll ==
  /\ rereadall' = TRUE
  /\ UNCHANGED <<room, main, Instances, startchild, hangup, backlog, children>>

(***************************************************************************)
(* The specification.                                                      *)
(***************************************************************************)

PoolInit ==
  /\ room \in Rooms
  /\ main = "top" /\ rereadall = FALSE /\ hangup = FALSE
  /\ Instances = 0 /\ startchild = 0
  /\ backlog = 0 /\ waiting = 0 /\ serving = 0 /\ zombies = 0

Parent ==
  \/ Top \/ Reap \/ Reaped \/ Fork \/ ForkError \/ ForkAgain \/ Forked
  \/ Look \/ LookAgain

PoolNext == Parent \/ AcceptClient \/ Exit \/ Die \/ Arrive \/ RereadAll

PoolSpec == PoolInit /\ [][PoolNext]_poolvars

\* The scheduler runs the parent, and a child that can accept does.  A fork()
\* that is tried again and again, with room in the table, works at last ("Lets
\* hope the the causing error goes away soon").  Nothing says here how long a
\* connection lasts.
FairPool ==
  PoolSpec /\ WF_poolvars(Parent) /\ SF_poolvars(Fork) /\ WF_poolvars(AcceptClient)

(***************************************************************************)
(* Properties.                                                             *)
(***************************************************************************)

PoolTypeOK ==
  /\ room \in Rooms /\ main \in Steps
  /\ rereadall \in BOOLEAN /\ hangup \in BOOLEAN
  /\ Instances \in Nat /\ startchild \in 0 .. 2
  /\ backlog \in 0 .. MaxBacklog
  /\ waiting \in Nat /\ serving \in Nat /\ zombies \in Nat

\* The parent's count is that of its children, ended ones included, however
\* their ends and the waitpid() calls of the parent interleave.
InstancesExact == Instances = waiting + serving + zombies

Most == IF SERVERNUMBER > MAXSERVERS + 1 THEN SERVERNUMBER ELSE MAXSERVERS + 1

\* There are never more children than SERVERNUMBER or MAXSERVERS + 1 (two are
\* started where there may be place for one), whatever waits and whoever ends.
InstancesBound == Instances <= Most

\* The process table has room for the largest pool.
Roomy == room >= Most

\* Connections do not wait for ever behind busy children: a child becomes
\* free, or new ones are started until MAXSERVERS is reached.
SpawnsForWaiting ==
  Roomy => []<>(backlog = 0 \/ waiting > 0 \/ Instances >= MAXSERVERS)

\* A SIGHUP is acted upon.
Reloads == Roomy => (rereadall ~> ~rereadall)

\* Ended children do not pile up: again and again there is none.
ReapsAll == Roomy => []<>(zombies = 0)

(***************************************************************************)
(* The invariant the proofs need.                                          *)
(***************************************************************************)

\* Children still to be started fit under the bound, and there are none while
\* the parent looks for waiting connections.
StartInv ==
  /\ startchild > 0 => Instances + startchild <= MAXSERVERS + 1
  /\ main \in {"look", "sleep"} => startchild = 0

PoolInv == PoolTypeOK /\ InstancesExact /\ InstancesBound /\ StartInv
=============================================================================
