-------------------------- MODULE ProxyChild_proofs --------------------------
(***************************************************************************)
(* Proofs about a proxy child and its browser connection, for every set of *)
(* hosts, every length of bodies and every number of addresses: what is    *)
(* sent reaches the host it names, the body of a request is taken once, a  *)
(* retry neither meets its own lock nor follows an answer, and the browser *)
(* is kept only behind a whole answer.                                     *)
(***************************************************************************)
EXTENDS ProxyChild, TLAPS

USE ProxyAssumption

(***************************************************************************)
(* What every step keeps of the variables' types, as far as the invariants *)
(* need it: bounds are of no use to them.                                  *)
(***************************************************************************)

AnyLink == [open : BOOLEAN, host : Hosts \cup {NoHost}, named : BOOLEAN, rest : Int]
AnyAnswer == [length : Int, got : Int, sent : Int]

Shape ==
  /\ req \in Requests
  /\ drop \subseteq Flags
  /\ retries \in Nat
  /\ ServerConnected \in BOOLEAN
  /\ addr \in Hosts \cup {NoHost}
  /\ link \in AnyLink
  /\ file \in Files
  /\ ans \in AnyAnswer
  /\ bodies \in Nat

LEMMA FileTypes ==
  /\ Blank \in Files /\ Kept \in Files /\ Lockless \in Files
  /\ Page \in Files /\ Redirect \in Files
  /\ \A hit \in BOOLEAN : Locked(hit) \in Files /\ General(hit) \in Files
  BY DEF Blank, Page, Redirect, Kept, Lockless, Locked, General, Files

LEMMA FileSteps ==
  ASSUME NEW f \in Files
  PROVE  /\ liberate_edition(f) \in Files
         /\ Cancel(f) \in Files
         /\ Update(f) \in Files
         /\ \A g \in MayCancel(f) : g \in Files
  BY DEF liberate_edition, Cancel, Update, MayCancel, Files

LEMMA Rewrited ==
  ASSUME NEW f \in Files
  PROVE  LET g == [f EXCEPT !.rewrited = TRUE]
         IN /\ g \in Files /\ g.rewrited
            /\ g.taken = f.taken /\ g.editing = f.editing /\ g.freed = f.freed
  BY DEF Files

LEMMA DecidedTypes ==
  ASSUME file \in Files
  PROVE  /\ \A f \in Decided : f \in Files
         /\ \A f \in HeaderDecided : f \in Files
<1>1. [Blank EXCEPT !.taken = TRUE] \in Files
  BY DEF Blank, Files
<1>2. \A f \in Files : [f EXCEPT !.early = TRUE] \in Files
  BY DEF Files
<1> QED
  BY <1>1, <1>2, FileTypes, FileSteps DEF Decided, HeaderDecided

LEMMA LinkTypes ==
  /\ Closed \in AnyLink
  /\ \A h \in Hosts \cup {NoHost}, n \in BOOLEAN : Open(h, n) \in AnyLink
  BY DEF Closed, Open, AnyLink

\* A new length of the rest of a body changes nothing else of a connection.
LEMMA LinkRest ==
  ASSUME NEW l \in AnyLink, NEW n \in Int
  PROVE  LET m == [l EXCEPT !.rest = n]
         IN m \in AnyLink /\ m.open = l.open /\ m.host = l.host /\ m.named = l.named
  BY DEF AnyLink

LEMMA AnswerTypes ==
  /\ NoAnswer \in AnyAnswer
  /\ \A n \in Int : [NoAnswer EXCEPT !.length = n] \in AnyAnswer
  BY DEF NoAnswer, AnyAnswer

\* The three ways in which an early header fails.
LEMMA ErrorCases ==
  \A e \in HeaderErrors :
    /\ e.code # 0
    /\ \/ e.flags = {} /\ e.addr = addr /\ e.link = link
       \/ e.flags = {} /\ e.addr = req.host /\ e.link = Closed
       \/ e.flags = {"DropServer"} /\ e.addr = req.host /\ e.link = Open(req.host, TRUE)
<1> TAKE e \in HeaderErrors
<1>1. CASE e = [code |-> -51, flags |-> {}, addr |-> addr, link |-> link]
  BY <1>1
<1>2. CASE e = [code |-> -61, flags |-> {}, addr |-> req.host, link |-> Closed]
  BY <1>2
<1>3. ASSUME NEW c \in {-60, -80},
             e = [code |-> c, flags |-> {"DropServer"}, addr |-> req.host,
                  link |-> Open(req.host, TRUE)]
      PROVE  /\ e.code # 0 /\ e.flags = {"DropServer"}
             /\ e.addr = req.host /\ e.link = Open(req.host, TRUE)
  BY <1>3
<1> QED
  BY <1>1, <1>2, <1>3 DEF HeaderErrors

LEMMA ErrorTypes ==
  ASSUME Shape, NEW e \in HeaderErrors
  PROVE  e.addr \in Hosts \cup {NoHost} /\ e.link \in AnyLink /\ e.flags \subseteq Flags
<1>1. /\ req.host \in Hosts /\ addr \in Hosts \cup {NoHost}
      /\ link \in AnyLink /\ Closed \in AnyLink /\ Open(req.host, TRUE) \in AnyLink
  BY LinkTypes DEF Shape, Requests
<1>2. {} \subseteq Flags /\ {"DropServer"} \subseteq Flags
  BY DEF Flags
<1>3. /\ e.addr = addr \/ e.addr = req.host
      /\ e.link = link \/ e.link = Closed \/ e.link = Open(req.host, TRUE)
      /\ e.flags = {} \/ e.flags = {"DropServer"}
  BY ErrorCases, Zenon
<1> QED
  BY <1>1, <1>2, <1>3

LEMMA PartLengths == Parts \subseteq Int
  BY DEF Parts

LEMMA UncountedTypes ==
  ASSUME file \in Files
  PROVE  Uncounted \subseteq {0, 1}
  BY DEF Uncounted, Files

\* New counts change nothing else of an answer.
Shifted(a, x, y) ==
  LET d == [a EXCEPT !.got = x, !.sent = y]
  IN d \in AnyAnswer /\ d.length = a.length /\ d.got = x /\ d.sent = y

LEMMA AnswerCounts ==
  ASSUME NEW a \in AnyAnswer, NEW x \in Int, NEW y \in Int
  PROVE  Shifted(a, x, y)
<1> DEFINE b == [a EXCEPT !.got = x]
<1>1. b \in AnyAnswer /\ b.length = a.length /\ b.got = x
  BY DEF AnyAnswer
<1>2. \A c \in AnyAnswer : LET e == [c EXCEPT !.sent = y]
        IN e \in AnyAnswer /\ e.length = c.length /\ e.got = c.got /\ e.sent = y
  BY DEF AnyAnswer
<1> HIDE DEF b
<1>3. LET e == [b EXCEPT !.sent = y]
      IN e \in AnyAnswer /\ e.length = a.length /\ e.got = x /\ e.sent = y
  BY <1>1, <1>2
<1> QED
  BY <1>3 DEF b, Shifted

\* What the cut makes of an answer.
LEMMA CutTypes ==
  ASSUME NEW a \in AnyAnswer
  PROVE  /\ Cut(a) \in AnyAnswer
         /\ Cut(a).length = a.length
         /\ a.length > 0 => Cut(a).got <= a.length
         /\ Cut(a).sent - Cut(a).got = a.sent - a.got
<1>1. CASE a.length > 0 /\ a.got > a.length
  <2>1. Cut(a) = [a EXCEPT !.got = a.length, !.sent = @ - (a.got - a.length)]
    BY <1>1 DEF Cut
  <2>2. a.length \in Int /\ a.got \in Int /\ a.sent \in Int
    BY DEF AnyAnswer
  <2>3. \A x \in Int, y \in Int : Shifted(a, x, y)
    BY AnswerCounts, Zenon
  <2>4. a.sent - (a.got - a.length) \in Int
    BY <2>2
  <2>5. Shifted(a, a.length, a.sent - (a.got - a.length))
    BY <2>2, <2>3, <2>4, Zenon
  <2>6. /\ Cut(a) \in AnyAnswer /\ Cut(a).length = a.length /\ Cut(a).got = a.length
        /\ Cut(a).sent = a.sent - (a.got - a.length)
    BY <2>1, <2>5 DEF Shifted
  <2> QED
    BY <2>2, <2>6
<1>2. CASE ~(a.length > 0 /\ a.got > a.length)
  <2>1. Cut(a) = a
    BY <1>2 DEF Cut
  <2>2. a.length \in Int /\ a.got \in Int
    BY DEF AnyAnswer
  <2> QED
    BY <1>2, <2>1, <2>2
<1> QED
  BY <1>1, <1>2

LEMMA PartTypes ==
  ASSUME Shape, NEW n \in Int, ReadPart(n)
  PROVE  file' \in Files /\ link' \in AnyLink /\ ans' \in AnyAnswer
<1>1. ans' \in AnyAnswer
  <2>1. PICK u \in Uncounted : ans' = [ans EXCEPT !.got = @ + n, !.sent = @ + n + u]
    BY DEF ReadPart
  <2>2. u \in Int /\ ans \in AnyAnswer
    BY UncountedTypes DEF Shape
  <2>3. ans.got + n \in Int /\ ans.sent + n + u \in Int
    BY <2>2 DEF AnyAnswer
  <2> QED
    BY <2>1, <2>2, <2>3, AnswerCounts DEF Shifted
<1>2. link' \in AnyLink
  BY DEF Shape, ReadPart, AnyLink
<1>3. file' \in Files
  BY DEF Shape, ReadPart, Files
<1> QED
  BY <1>1, <1>2, <1>3

LEMMA LoggedTypes ==
  ASSUME file \in Files, NEW f \in Logged
  PROVE  f \in Files /\ liberate_edition(Update(f)) \in Files
  BY FileSteps DEF Logged

LEMMA InitShape == Init => Shape
<1> SUFFICES ASSUME Init PROVE Shape
  OBVIOUS
<1>1. req \in Requests
  <2>1. PICK h \in Hosts : TRUE
    OBVIOUS
  <2>2. [type |-> "GET", host |-> h, body |-> "none"] \in Requests
    BY DEF Requests
  <2>3. \E r \in Requests : r.type = "GET"
    BY <2>2
  <2> QED
    BY <2>3 DEF Init
<1> QED
  BY <1>1, FileTypes, LinkTypes, AnswerTypes DEF Init, Shape

LEMMA StepShape == Shape /\ [Next]_vars => Shape'
<1> SUFFICES ASSUME Shape, [Next]_vars PROVE Shape'
  OBVIOUS
<1> USE DEF Shape
<1>0. req.host \in Hosts /\ req.host \in Hosts \cup {NoHost}
  BY DEF Requests
<1>1. CASE Top
  BY <1>1, LinkTypes, FileTypes, AnswerTypes DEF Top
<1>2. CASE CheckForData
  BY <1>2 DEF CheckForData, Flags
<1>3. CASE BadRequest
  BY <1>3 DEF BadRequest, Flags
<1>4. ASSUME NEW r \in Requests, NEW keep \in BOOLEAN, GoodRequest(r, keep)
      PROVE  Shape'
  BY <1>4 DEF GoodRequest, Flags
<1>5. CASE Start
  <2>1. file' \in Files
    BY <1>5 DEF Start, Files
  <2>2. drop' \subseteq Flags
    BY <1>5 DEF Start, Return, Flags
  <2>3. link' \in AnyLink /\ ServerConnected' \in BOOLEAN
    BY <1>5, LinkTypes DEF Start
  <2> QED
    BY <1>5, <2>1, <2>2, <2>3, AnswerTypes DEF Start
<1>6. CASE Cache
  <2>1. CASE file' \in Decided /\ UNCHANGED <<addr, link, drop>>
    BY <1>6, <2>1, DecidedTypes DEF Cache
  <2>2. CASE ReadEarly /\ UNCHANGED drop
    BY <1>6, <2>2, <1>0, DecidedTypes, LinkTypes DEF Cache, ReadEarly
  <2>3. ASSUME NEW e \in HeaderErrors, file' = Lockless, addr' = e.addr,
               link' = e.link, Return(e.code, e.flags)
        PROVE  Shape'
    BY <1>6, <2>3, ErrorTypes, FileTypes DEF Cache, Return
  <2> QED
    BY <1>6, <2>1, <2>2, <2>3 DEF Cache
<1>7. CASE CacheAgain
  <2>1. CASE file' \in Decided /\ UNCHANGED <<addr, link>>
    BY <1>7, <2>1, DecidedTypes DEF CacheAgain
  <2>2. CASE ReadEarly
    BY <1>7, <2>2, <1>0, DecidedTypes, LinkTypes DEF CacheAgain, ReadEarly
  <2>3. ASSUME NEW e \in HeaderErrors, file' = Lockless, addr' = e.addr, link' = e.link
        PROVE  Shape'
    BY <1>7, <2>3, ErrorTypes, FileTypes DEF CacheAgain
  <2> QED
    BY <1>7, <2>1, <2>2, <2>3 DEF CacheAgain
<1>8. CASE ConnectToServer
  <2>1. drop' \subseteq Flags /\ ServerConnected' \in BOOLEAN
    BY <1>8 DEF ConnectToServer, Connected, Return
  <2>2. addr' \in Hosts \cup {NoHost}
    BY <1>8, <1>0 DEF ConnectToServer
  <2>3. link' \in AnyLink
    BY <1>8, <2>2, LinkTypes DEF ConnectToServer
  <2> QED
    BY <1>8, <2>1, <2>2, <2>3 DEF ConnectToServer
<1>9. CASE SendHeader
  BY <1>9 DEF SendHeader, Return, Flags
<1>10. CASE SendBody
  <2>1. bodies' \in Nat
    BY <1>10 DEF SendBody
  <2>2. drop' \subseteq Flags
    BY <1>10 DEF SendBody, Return, Flags
  <2> QED
    BY <1>10, <2>1, <2>2 DEF SendBody
<1>11. CASE HeaderLost \/ ChildDies \/ RedirectHeader
  BY <1>11 DEF HeaderLost, ChildDies, RedirectHeader, Return, Flags
<1>12. CASE LateHit \/ LateNotModified
  <2>1. CASE LateHit
    <3>1. file' \in Files
      BY <2>1 DEF LateHit, Files
    <3>2. link' \in AnyLink
      BY <2>1, LinkRest DEF LateHit
    <3> QED
      BY <2>1, <3>1, <3>2 DEF LateHit
  <2>2. CASE LateNotModified
    <3>1. file' \in Files
      BY <2>2, FileSteps, Rewrited DEF LateNotModified
    <3>2. link' \in AnyLink
      BY <2>2, LinkRest DEF LateNotModified
    <3>3. ans' \in AnyAnswer
      BY <2>2, AnswerTypes DEF LateNotModified
    <3> QED
      BY <2>2, <3>1, <3>2, <3>3 DEF LateNotModified
  <2> QED
    BY <1>12, <2>1, <2>2
<1>13. CASE HitHeader
  <2>1. ans' \in AnyAnswer
    BY <1>13, AnswerTypes DEF HitHeader
  <2>2. file' \in Files
    BY <1>13, FileSteps, Rewrited DEF HitHeader
  <2> QED
    BY <1>13, <2>1, <2>2 DEF HitHeader, Flags
<1>14. ASSUME NEW r \in Replies, ServerHeader(r) PROVE Shape'
  <2>1. file' \in Files
    BY <1>14, FileSteps DEF ServerHeader
  <2>2. ans' \in AnyAnswer
    BY <1>14, AnswerTypes DEF ServerHeader, Replies, Unknown
  <2>3. link' \in AnyLink
    BY <1>14, LinkRest DEF ServerHeader
  <2>4. drop' \subseteq Flags
    BY <1>14 DEF ServerHeader, Return, Flags
  <2> QED
    BY <1>14, <2>1, <2>2, <2>3, <2>4 DEF ServerHeader
<1>15. CASE NoBody
  BY <1>15 DEF NoBody, Return, Flags
<1>16. CASE ReadFirst
  <2>1. ASSUME NEW n \in Parts, ReadPart(n), UNCHANGED drop
        PROVE  Shape'
    BY <1>16, <2>1, PartTypes, PartLengths DEF ReadFirst
  <2>2. CASE ReadFails /\ Return(-74, {"DropServer"}) /\ UNCHANGED ans
    BY <1>16, <2>2, FileSteps DEF ReadFirst, ReadFails, Return, Flags
  <2>3. CASE ReadEnds /\ UNCHANGED ans
    BY <1>16, <2>3 DEF ReadFirst, ReadEnds, Return, Flags
  <2> QED
    BY <1>16, <2>1, <2>2, <2>3 DEF ReadFirst
<1>17. CASE AnswerHeader
  BY <1>17 DEF AnswerHeader, Return, Flags
<1>18. CASE SendPart
  <2>1. ans' \in AnyAnswer
    BY <1>18, CutTypes DEF SendPart
  <2>2. file' \in Files
    BY <1>18, FileSteps DEF SendPart
  <2>3. drop' \subseteq Flags
    BY <1>18 DEF SendPart, Return, Flags
  <2> QED
    BY <1>18, <2>1, <2>2, <2>3 DEF SendPart
<1>19. CASE ReadMore
  <2>1. ASSUME NEW n \in Parts, ReadPart(n), UNCHANGED drop
        PROVE  Shape'
    BY <1>19, <2>1, PartTypes, PartLengths DEF ReadMore
  <2>2. CASE /\ file' \in {Update(f) : f \in MayCancel(file)}
             /\ Return(-75, {"DropServer"})
             /\ UNCHANGED <<link, ans>>
    BY <1>19, <2>2, FileSteps DEF ReadMore, Return, Flags
  <2>3. CASE /\ file' = Update(file)
             /\ Return(0, IF ans.got < ans.length THEN {"DropBrowser"} ELSE {})
             /\ UNCHANGED <<link, ans>>
    BY <1>19, <2>3, FileSteps DEF ReadMore, Return, Flags
  <2> QED
    BY <1>19, <2>1, <2>2, <2>3 DEF ReadMore
<1>20. CASE Retry
  <2>1. file' \in Files /\ link' \in AnyLink /\ ServerConnected' \in BOOLEAN
    BY <1>20, LoggedTypes, LinkTypes DEF Retry, CloseUpdate
  <2> QED
    BY <1>20, <2>1 DEF Retry
<1>21. CASE Finish
  <2>1. drop' \subseteq Flags
    <3>1. \A d \in SUBSET Flags : ProxyMessage(d) \subseteq SUBSET Flags
      BY DEF ProxyMessage, Flags
    <3>2. drop \ {"DropServer"} \in SUBSET Flags /\ drop \in SUBSET Flags
      OBVIOUS
    <3>3. \E d \in SUBSET Flags :
            drop' = d \/ \E f \in ProxyMessage(d) : drop' = f \cup {"DropBrowser"}
      BY <1>21, <3>2 DEF Finish
    <3> QED
      BY <3>1, <3>3 DEF Flags
  <2>2. file' \in Files /\ link' \in AnyLink /\ ServerConnected' \in BOOLEAN
    BY <1>21, LoggedTypes, LinkTypes DEF Finish, CloseUpdate
  <2> QED
    BY <1>21, <2>1, <2>2 DEF Finish
<1>22. CASE UNCHANGED vars
  BY <1>22 DEF vars
<1> QED
  BY <1>1, <1>2, <1>3, <1>4, <1>5, <1>6, <1>7, <1>8, <1>9, <1>10, <1>11, <1>12,
     <1>13, <1>14, <1>15, <1>16, <1>17, <1>18, <1>19, <1>20, <1>21, <1>22
     DEF Next, Browser, CommunicationHTTP

THEOREM ShapeHolds == Spec => []Shape
<1> QED
  BY InitShape, StepShape, PTL DEF Spec

(***************************************************************************)
(* The lock.  A lock that was not freed belongs to this request's file and *)
(* is still marked as to be freed, so the one CloseUpdate() behind every   *)
(* failed attempt frees it; this is what makes the property inductive.     *)
(***************************************************************************)

LockInv ==
  /\ file.taken => file.editing /\ ~file.freed
  /\ pc \in {"wait", "read", "comm", "cache", "recache"} => ~file.taken

\* What a step may make of a file that follows the first part of LockInv.
Freeable(f) == f.taken => f.editing /\ ~f.freed

LEMMA FileLocks ==
  ASSUME NEW f \in Files, Freeable(f)
  PROVE  /\ Freeable(liberate_edition(f)) /\ ~liberate_edition(f).taken
         /\ Freeable(Cancel(f))
         /\ Freeable(Update(f))
         /\ \A g \in MayCancel(f) : Freeable(g)
         /\ ~liberate_edition(Update(f)).taken
  BY DEF Freeable, liberate_edition, Cancel, Update, MayCancel, Files

LEMMA DecidedLocks ==
  ASSUME ~file.taken
  PROVE  /\ \A f \in Decided : Freeable(f)
         /\ \A f \in HeaderDecided : Freeable(f)
         /\ Freeable(Lockless)
<1>1. \A f \in Decided : Freeable(f)
  <2>1. /\ Freeable(Blank) /\ Freeable(Kept) /\ Freeable(Page) /\ Freeable(Redirect)
        /\ \A hit \in BOOLEAN : Freeable(Locked(hit)) /\ Freeable(General(hit))
    BY DEF Freeable, Blank, Page, Redirect, Kept, Locked, General, Lockless
  <2> QED
    BY <2>1, FileTypes, FileLocks DEF Decided
<1>2. \A f \in HeaderDecided : Freeable(f)
  BY DEF HeaderDecided, Freeable, Lockless, General, Blank
<1>3. Freeable(Lockless)
  BY DEF Freeable, Lockless, Blank
<1> QED
  BY <1>1, <1>2, <1>3

LEMMA PartLocks ==
  ASSUME file \in Files, Freeable(file), NEW n \in Int, ReadPart(n)
  PROVE  Freeable(file')
  BY DEF ReadPart, Freeable, Files

LEMMA StepLock == Shape /\ LockInv /\ [Next]_vars => LockInv'
<1> SUFFICES ASSUME Shape, LockInv, [Next]_vars PROVE LockInv'
  OBVIOUS
<1>0. file \in Files /\ Freeable(file)
  BY DEF Shape, LockInv, Freeable
<1>1. CASE Top
  BY <1>1 DEF Top, LockInv, Blank
<1>2. CASE CheckForData \/ BadRequest
  BY <1>2 DEF CheckForData, BadRequest, LockInv
<1>3. ASSUME NEW r \in Requests, NEW keep \in BOOLEAN, GoodRequest(r, keep)
      PROVE  LockInv'
  BY <1>3 DEF GoodRequest, LockInv
<1>4. CASE Start
  BY <1>0, <1>4 DEF Start, Return, LockInv, Files
<1>5. CASE Cache
  <2>1. ~file.taken
    BY <1>5 DEF Cache, LockInv
  <2>2. CASE file' \in Decided /\ pc' = "dial"
    BY <2>1, <2>2, DecidedLocks DEF LockInv, Freeable
  <2>3. CASE ReadEarly /\ pc' = "dial"
    BY <2>1, <2>3, DecidedLocks DEF ReadEarly, LockInv, Freeable
  <2>4. CASE file' = Lockless /\ pc' = "return"
    BY <2>1, <2>4, DecidedLocks DEF LockInv, Freeable
  <2> QED
    BY <1>5, <2>2, <2>3, <2>4 DEF Cache, Return
<1>6. CASE CacheAgain
  <2>1. ~file.taken /\ pc' = "send"
    BY <1>6 DEF CacheAgain, LockInv
  <2>2. CASE file' \in Decided
    BY <2>1, <2>2, DecidedLocks DEF LockInv, Freeable
  <2>3. CASE ReadEarly
    BY <2>1, <2>3, DecidedLocks DEF ReadEarly, LockInv, Freeable
  <2>4. CASE file' = Lockless
    BY <2>1, <2>4, DecidedLocks DEF LockInv, Freeable
  <2> QED
    BY <1>6, <2>2, <2>3, <2>4 DEF CacheAgain
<1>7. CASE \/ ConnectToServer \/ SendHeader \/ SendBody \/ HeaderLost
            \/ ChildDies \/ RedirectHeader
  BY <1>7 DEF ConnectToServer, Connected, SendHeader, SendBody, HeaderLost, ChildDies,
              RedirectHeader, Return, LockInv
<1>8. CASE LateHit
  BY <1>0, <1>8 DEF LateHit, LockInv, Files
<1>9. CASE HitHeader \/ LateNotModified
  <2>1. Freeable(Cancel(file)) /\ Freeable([Cancel(file) EXCEPT !.rewrited = TRUE])
    BY <1>0, FileLocks, FileSteps, Rewrited DEF Freeable
  <2> QED
    BY <1>0, <1>9, <2>1 DEF HitHeader, LateNotModified, LockInv, Freeable
<1>10. ASSUME NEW r \in Replies, ServerHeader(r) PROVE LockInv'
  BY <1>0, <1>10, FileLocks DEF ServerHeader, Return, LockInv, Freeable
<1>11. CASE NoBody \/ AnswerHeader
  BY <1>11 DEF NoBody, AnswerHeader, Return, LockInv
<1>12. CASE ReadFirst
  <2>1. pc' \in {"head", "return"}
    BY <1>12 DEF ReadFirst, Return
  <2>2. Freeable(file')
    BY <1>0, <1>12, PartLocks, PartLengths, FileLocks DEF ReadFirst, ReadFails, ReadEnds
  <2> QED
    BY <2>1, <2>2 DEF LockInv, Freeable
<1>13. CASE SendPart
  BY <1>0, <1>13, FileLocks DEF SendPart, Return, LockInv, Freeable
<1>14. CASE ReadMore
  <2>1. pc' \in {"part", "return"}
    BY <1>14 DEF ReadMore, Return
  <2>2. Freeable(file')
    <3>1. ASSUME NEW n \in Parts, ReadPart(n) PROVE Freeable(file')
      BY <1>0, <3>1, PartLocks, PartLengths
    <3>2. ASSUME NEW f \in MayCancel(file), file' = Update(f) PROVE Freeable(file')
      BY <1>0, <3>2, FileLocks, FileSteps
    <3>3. CASE file' = Update(file)
      BY <1>0, <3>3, FileLocks
    <3> QED
      BY <1>14, <3>1, <3>2, <3>3 DEF ReadMore
  <2> QED
    BY <2>1, <2>2 DEF LockInv, Freeable
<1>15. CASE Retry
  <2>1. PICK f \in Logged : file' = liberate_edition(Update(f))
    BY <1>15 DEF Retry, CloseUpdate
  <2>2. f \in Files /\ Freeable(f)
    BY <1>0, FileSteps, FileLocks DEF Logged
  <2> QED
    BY <2>1, <2>2, FileLocks DEF LockInv
<1>16. CASE Finish
  <2>1. PICK f \in Logged : file' = f \/ file' = liberate_edition(Update(f))
    BY <1>16 DEF Finish, CloseUpdate
  <2>2. f \in Files /\ Freeable(f)
    BY <1>0, FileSteps, FileLocks DEF Logged
  <2>3. pc' = "top"
    BY <1>16 DEF Finish
  <2> QED
    BY <2>1, <2>2, <2>3, FileLocks DEF LockInv, Freeable
<1>17. CASE UNCHANGED vars
  BY <1>17 DEF vars, LockInv
<1> QED
  BY <1>1, <1>2, <1>3, <1>4, <1>5, <1>6, <1>7, <1>8, <1>9, <1>10, <1>11, <1>12,
     <1>13, <1>14, <1>15, <1>16, <1>17 DEF Next, Browser, CommunicationHTTP

\* A retry never meets the lock of its own failed attempt (NoSelfLock):
\* Proxy() calls CloseUpdate() before each, and nothing has unmarked the lock.
THEOREM RetryFindsNoLock == Spec => []NoSelfLock
<1>1. Init => LockInv
  BY DEF Init, LockInv, Blank
<1>2. LockInv => NoSelfLock
  BY DEF LockInv, NoSelfLock
<1> QED
  BY <1>1, <1>2, StepLock, ShapeHolds, PTL DEF Spec

(***************************************************************************)
(* The body of the request.  Until it is sent nothing of it was read, and  *)
(* an attempt that ends with an error Proxy() tries again has, for any     *)
(* method but GET, ended before.                                           *)
(***************************************************************************)

BodyInv ==
  /\ pc \in {"wait", "read"} => bodies = 0
  /\ req.type # "GET" =>
       /\ bodies <= 1
       /\ pc \in {"comm", "cache", "dial", "recache", "send", "body"} => bodies = 0
       /\ pc = "return" /\ code \in {-60, -61} => bodies = 0

LEMMA StepBody == Shape /\ BodyInv /\ [Next]_vars => BodyInv'
<1> SUFFICES ASSUME Shape, BodyInv, [Next]_vars PROVE BodyInv'
  OBVIOUS
<1> USE DEF BodyInv
<1>0. bodies \in Nat
  BY DEF Shape
<1>1. CASE Top
  BY <1>1 DEF Top
<1>2. CASE CheckForData \/ BadRequest
  BY <1>2 DEF CheckForData, BadRequest
<1>3. ASSUME NEW r \in Requests, NEW keep \in BOOLEAN, GoodRequest(r, keep)
      PROVE  BodyInv'
  BY <1>3 DEF GoodRequest
<1>4. CASE Start
  BY <1>4 DEF Start, Return
<1>5. CASE Cache
  BY <1>5 DEF Cache, Return
<1>6. CASE CacheAgain
  BY <1>6 DEF CacheAgain
<1>7. CASE ConnectToServer
  BY <1>7 DEF ConnectToServer, Connected, Return
<1>8. CASE SendHeader
  BY <1>8 DEF SendHeader, Return
<1>9. CASE SendBody
  <2>1. pc = "body" /\ pc' \in {"header", "return"} /\ req' = req
    BY <1>9 DEF SendBody, Return
  <2>2. pc' = "return" => code' \in {-10, -76}
    BY <1>9 DEF SendBody, Return
  <2>3. bodies' = bodies \/ bodies' = bodies + 1
    BY <1>9 DEF SendBody
  <2>4. req.type # "GET" => bodies' <= 1
    BY <1>0, <2>1, <2>3
  <2> QED
    BY <2>1, <2>2, <2>4
<1>10. CASE HeaderLost \/ LateHit \/ ChildDies \/ LateNotModified \/ RedirectHeader
  BY <1>10 DEF HeaderLost, LateHit, ChildDies, LateNotModified, RedirectHeader, Return
<1>11. CASE HitHeader
  BY <1>11 DEF HitHeader
<1>12. ASSUME NEW r \in Replies, ServerHeader(r) PROVE BodyInv'
  BY <1>12 DEF ServerHeader, Return
<1>13. CASE NoBody \/ AnswerHeader
  BY <1>13 DEF NoBody, AnswerHeader, Return
<1>14. CASE ReadFirst
  BY <1>14 DEF ReadFirst, Return
<1>15. CASE SendPart
  BY <1>15 DEF SendPart, Return
<1>16. CASE ReadMore
  BY <1>16 DEF ReadMore, Return
<1>17. CASE Retry
  BY <1>17 DEF Retry, Retryable
<1>18. CASE Finish
  BY <1>18 DEF Finish
<1>19. CASE UNCHANGED vars
  BY <1>19 DEF vars
<1> QED
  BY <1>1, <1>2, <1>3, <1>4, <1>5, <1>6, <1>7, <1>8, <1>9, <1>10, <1>11, <1>12,
     <1>13, <1>14, <1>15, <1>16, <1>17, <1>18, <1>19 DEF Next, Browser, CommunicationHTTP

\* A retry does not take the body of a request from the browser again
\* (BodyOnce): Proxy() tries a HEAD or POST again only after -60 and -61, which
\* come before SendBody().
THEOREM BodyTakenOnce == Spec => []BodyOnce
<1>1. Init => BodyInv
  BY DEF Init, BodyInv
<1>2. BodyInv => BodyOnce
  BY DEF BodyInv, BodyOnce
<1> QED
  BY <1>1, <1>2, StepBody, ShapeHolds, PTL DEF Spec

(***************************************************************************)
(* The answer's header.  Once it is out, only a part, the end of the       *)
(* connection or an error that is not tried again can follow.              *)
(***************************************************************************)

HeadedInv ==
  headed => \/ pc \in {"part", "more", "top"}
            \/ pc = "return" /\ code \notin {-60, -61, -80}

LEMMA StepHeaded == HeadedInv /\ [Next]_vars => HeadedInv'
<1> SUFFICES ASSUME HeadedInv, [Next]_vars PROVE HeadedInv'
  OBVIOUS
<1> USE DEF HeadedInv
<1>1. CASE Browser
  BY <1>1 DEF Browser, Top, CheckForData, BadRequest, GoodRequest
<1>2. CASE Start \/ Cache \/ CacheAgain \/ ConnectToServer
  BY <1>2 DEF Start, Cache, CacheAgain, ConnectToServer, Connected, Return
<1>3. CASE SendHeader \/ SendBody \/ HeaderLost \/ LateHit \/ HitHeader
  BY <1>3 DEF SendHeader, SendBody, HeaderLost, LateHit, HitHeader, Return
<1>4. ASSUME NEW r \in Replies, ServerHeader(r) PROVE HeadedInv'
  BY <1>4 DEF ServerHeader, Return
<1>5. CASE NoBody \/ AnswerHeader
  <2>1. CASE NoBody
    <3>1. CASE \E flags \in SUBSET Flags : Return(0, flags)
      BY <3>1 DEF Return
    <3>2. CASE Return(-10, {"BrowserDropped"})
      BY <3>2 DEF Return
    <3> QED
      BY <2>1, <3>1, <3>2 DEF NoBody, Flags
  <2>2. CASE AnswerHeader
    BY <2>2 DEF AnswerHeader, Return
  <2> QED
    BY <1>5, <2>1, <2>2
<1>6. CASE ReadFirst
  <2>1. CASE pc' = "head" /\ UNCHANGED headed
    BY <1>6, <2>1 DEF ReadFirst
  <2>2. CASE pc' = "return" /\ code' \in {-74, 0, -10}
    BY <2>2
  <2> QED
    BY <1>6, <2>1, <2>2 DEF ReadFirst, Return
<1>7. CASE SendPart \/ ReadMore
  <2>1. \/ pc' \in {"part", "more"}
        \/ pc' = "return" /\ code' \in {0, -10, -75}
    BY <1>7 DEF SendPart, ReadMore, Return
  <2> QED
    BY <2>1
<1>8. CASE Retry \/ Finish
  BY <1>8 DEF Retry, Retryable, Finish
<1>9. CASE ChildDies \/ LateNotModified \/ RedirectHeader
  BY <1>9 DEF ChildDies, LateNotModified, RedirectHeader
<1>10. CASE UNCHANGED vars
  BY <1>10 DEF vars
<1> QED
  BY <1>1, <1>2, <1>3, <1>4, <1>5, <1>6, <1>7, <1>8, <1>9, <1>10 DEF Next, CommunicationHTTP

LEMMA OnlyRetryCounts ==
  ASSUME retries \in Nat, [Next]_vars, retries' > retries
  PROVE  Retry
<1>1. CASE Browser
  <2>1. retries' = 0 \/ retries' = retries
    BY <1>1 DEF Browser, Top, CheckForData, BadRequest, GoodRequest
  <2> QED
    BY <2>1
<1>2. CASE CommunicationHTTP
  <2>1. UNCHANGED retries
    <3>1. CASE Start \/ Cache \/ CacheAgain \/ ConnectToServer
      BY <3>1 DEF Start, Cache, CacheAgain, ConnectToServer
    <3>2. CASE SendHeader \/ SendBody \/ HeaderLost \/ LateHit \/ HitHeader
      BY <3>2 DEF SendHeader, SendBody, HeaderLost, LateHit, HitHeader
    <3>3. CASE \E r \in Replies : ServerHeader(r)
      BY <3>3 DEF ServerHeader
    <3>4. CASE NoBody \/ ReadFirst \/ AnswerHeader \/ SendPart \/ ReadMore
      BY <3>4 DEF NoBody, ReadFirst, AnswerHeader, SendPart, ReadMore
    <3>5. CASE ChildDies \/ LateNotModified \/ RedirectHeader
      BY <3>5 DEF ChildDies, LateNotModified, RedirectHeader
    <3> QED
      BY <1>2, <3>1, <3>2, <3>3, <3>4, <3>5 DEF CommunicationHTTP
  <2> QED
    BY <2>1
<1>3. CASE Finish
  BY <1>3 DEF Finish
<1>4. CASE UNCHANGED vars
  BY <1>4 DEF vars
<1> QED
  BY <1>1, <1>2, <1>3, <1>4 DEF Next

\* A request is tried again only while the browser has seen nothing of an
\* answer to it (RetryUnseen): the codes of Proxy()'s retry all come before
\* SendHeader() to the browser.
THEOREM RetriesAreUnseen == Spec => RetryUnseen
<1>1. Init => HeadedInv
  BY DEF Init, HeadedInv
<1>2. HeadedInv /\ Shape /\ [Next]_vars => [retries' > retries => ~headed]_vars
  <2> SUFFICES ASSUME HeadedInv, Shape, [Next]_vars, retries' > retries PROVE ~headed
    OBVIOUS
  <2>1. Retry
    BY OnlyRetryCounts DEF Shape
  <2> QED
    BY <2>1 DEF Retry, Retryable, HeadedInv
<1> QED
  BY <1>1, <1>2, StepHeaded, ShapeHolds, PTL DEF Spec, RetryUnseen

(***************************************************************************)
(* The server connection.  It is of the host in ConnectedHost, of no host  *)
(* while ServerConnected is off between requests, and of the request's     *)
(* host from the connecting on.  An early header that failed in between    *)
(* leaves an open connection that nobody remembers: only the DropServer    *)
(* that comes with it keeps the next request from using it.                *)
(***************************************************************************)

\* The connection, if its address came from a name, is this host's.
LinkOf(h) == link.open /\ link.named => link.host = h

ServerInv ==
  /\ pc \in {"top", "wait", "read", "comm", "cache"} /\ ~ServerConnected => ~link.open
  /\ ServerConnected => LinkOf(ConnectedHost)
  /\ pc \in {"recache", "send", "body", "header", "nobody", "first", "head", "part", "more"}
       => ServerConnected /\ ConnectedHost = req.host
  /\ pc = "cache" => ~ServerConnected
  /\ pc = "dial" => ~ServerConnected /\ LinkOf(req.host)
  /\ pc = "return" /\ ~ServerConnected /\ link.open => "DropServer" \in drop /\ code # 0

\* Steps that go on, or end with an error, on the connection of the request.
LEMMA SameServer ==
  ASSUME ServerInv, ServerConnected, ConnectedHost = req.host,
         UNCHANGED <<ServerConnected, ConnectedHost, req>>,
         link' = link \/ LinkOf(req.host)',
         pc' \in {"send", "body", "header", "nobody", "first", "head", "part", "more", "return"}
  PROVE  ServerInv'
  BY DEF ServerInv, LinkOf

LEMMA StepServer == Shape /\ ServerInv /\ [Next]_vars => ServerInv'
<1> SUFFICES ASSUME Shape, ServerInv, [Next]_vars PROVE ServerInv'
  OBVIOUS
<1>1. CASE Top
  BY <1>1 DEF Top, ServerInv, LinkOf, Open, Closed
<1>2. CASE CheckForData \/ BadRequest
  BY <1>2 DEF CheckForData, BadRequest, ServerInv, LinkOf
<1>3. ASSUME NEW r \in Requests, NEW keep \in BOOLEAN, GoodRequest(r, keep)
      PROVE  ServerInv'
  BY <1>3 DEF GoodRequest, ServerInv, LinkOf
<1>4. CASE Start
  <2>1. CASE Return(-10, {"BrowserDropped"}) /\ UNCHANGED <<link, ServerConnected>>
    BY <1>4, <2>1 DEF Start, Return, ServerInv, LinkOf
  <2>2. CASE LET keep == ServerConnected /\ ConnectedHost = req.host IN
             /\ link' = IF ServerConnected /\ ~keep THEN Closed ELSE link
             /\ ServerConnected' = keep
             /\ pc' = IF keep THEN "recache" ELSE "cache"
    BY <1>4, <2>2 DEF Start, ServerInv, LinkOf, Open, Closed
  <2> QED
    BY <1>4, <2>1, <2>2 DEF Start
<1>5. CASE Cache
  <2>1. ~ServerConnected /\ ~link.open /\ UNCHANGED <<ServerConnected, ConnectedHost, req>>
    BY <1>5 DEF Cache, ServerInv
  <2>2. CASE pc' = "dial" /\ UNCHANGED link
    BY <2>1, <2>2 DEF ServerInv, LinkOf
  <2>3. CASE pc' = "dial" /\ ReadEarly
    <3>1. link' = Closed \/ link' = Open(req.host, TRUE)
      BY <2>3 DEF ReadEarly
    <3> QED
      BY <2>1, <2>3, <3>1 DEF ServerInv, LinkOf, Open, Closed
  <2>4. ASSUME NEW e \in HeaderErrors, link' = e.link, Return(e.code, e.flags)
        PROVE  ServerInv'
    <3>1. e.link = link \/ e.link = Closed \/ (e.code # 0 /\ e.flags = {"DropServer"})
      BY ErrorCases, Zenon
    <3>2. ~link'.open \/ (code' # 0 /\ "DropServer" \in drop')
      BY <2>1, <2>4, <3>1 DEF Return, Open, Closed
    <3> QED
      BY <2>1, <2>4, <3>2 DEF Return, ServerInv, LinkOf
  <2> QED
    BY <1>5, <2>2, <2>3, <2>4 DEF Cache
<1>6. CASE CacheAgain
  <2>1. link' = link \/ LinkOf(req.host)'
    <3>1. \A e \in HeaderErrors : e.link \in {link, Closed, Open(req.host, TRUE)}
      BY ErrorCases
    <3>2. link' \in {link, Closed, Open(req.host, TRUE)}
      BY <1>6, <3>1 DEF CacheAgain, ReadEarly
    <3> QED
      BY <1>6, <3>2 DEF CacheAgain, LinkOf, Open, Closed
  <2> QED
    BY <1>6, <2>1, SameServer DEF CacheAgain, ServerInv
<1>7. CASE ConnectToServer
  <2>1. CASE link' = Closed /\ Return(-60, {}) /\ UNCHANGED <<ServerConnected, ConnectedHost>>
    BY <1>7, <2>1 DEF ConnectToServer, Return, ServerInv, LinkOf, Open, Closed
  <2>2. CASE Connected
    <3>1. LinkOf(req.host)'
      <4>1. CASE UNCHANGED link
        BY <1>7, <4>1 DEF ConnectToServer, ServerInv, LinkOf
      <4>2. ASSUME NEW named \in BOOLEAN, named => addr' = req.host, link' = Open(addr', named)
            PROVE  LinkOf(req.host)'
        BY <1>7, <4>2 DEF ConnectToServer, LinkOf, Open, Closed
      <4> QED
        BY <1>7, <2>2, <4>1, <4>2 DEF ConnectToServer, Connected, Return
    <3> QED
      BY <1>7, <2>2, <3>1 DEF ConnectToServer, Connected, ServerInv, LinkOf
  <2> QED
    BY <1>7, <2>1, <2>2 DEF ConnectToServer
<1>8. CASE SendHeader \/ SendBody \/ HeaderLost \/ RedirectHeader
  BY <1>8, SameServer DEF SendHeader, SendBody, HeaderLost, RedirectHeader, Return, ServerInv
<1>9. CASE LateHit \/ LateNotModified
  <2>1. LinkOf(req.host)'
    <3>1. PICK n \in 1 .. MaxBody : link' = [link EXCEPT !.rest = n]
      BY <1>9 DEF LateHit, LateNotModified
    <3>2. link \in AnyLink /\ LinkOf(req.host) /\ UNCHANGED req
      BY <1>9 DEF LateHit, LateNotModified, ServerInv, Shape
    <3> QED
      BY <3>1, <3>2, LinkRest DEF LinkOf
  <2>2. pc' \in {"header", "nobody", "first"}
    BY <1>9 DEF LateHit, LateNotModified
  <2> QED
    BY <1>9, <2>1, <2>2, SameServer DEF LateHit, LateNotModified, ServerInv
<1>10. CASE HitHeader
  BY <1>10, SameServer DEF HitHeader, ServerInv
<1>11. ASSUME NEW r \in Replies, ServerHeader(r) PROVE ServerInv'
  <2>1. link' = link \/ LinkOf(req.host)'
    <3>1. link' = link \/ \E n \in Int : link' = [link EXCEPT !.rest = n]
      <4>1. ans'.length \in Int \/ UNCHANGED link
        BY <1>11 DEF ServerHeader, NoAnswer, Replies, Unknown
      <4> QED
        BY <1>11, <4>1 DEF ServerHeader
    <3>2. link \in AnyLink /\ LinkOf(req.host) /\ UNCHANGED req
      BY <1>11 DEF ServerHeader, ServerInv, Shape
    <3>3. ASSUME NEW n \in Int, link' = [link EXCEPT !.rest = n]
          PROVE  LinkOf(req.host)'
      BY <3>2, <3>3, LinkRest DEF LinkOf
    <3> QED
      BY <3>1, <3>3
  <2>2. pc' \in {"nobody", "first", "return"}
    BY <1>11 DEF ServerHeader, Return
  <2> QED
    BY <1>11, <2>1, <2>2, SameServer DEF ServerHeader, ServerInv
<1>12. CASE NoBody \/ AnswerHeader
  BY <1>12, SameServer DEF NoBody, AnswerHeader, Return, ServerInv
<1>13. CASE ReadFirst \/ ReadMore
  <2>1. link' = link \/ LinkOf(req.host)'
    <3>1. ASSUME NEW n \in Parts, ReadPart(n)
          PROVE  link' = link \/ LinkOf(req.host)'
      <4>1. link' = link \/ link' = [link EXCEPT !.rest = @ - n]
        BY <3>1 DEF ReadPart
      <4>2. link \in AnyLink /\ LinkOf(req.host) /\ UNCHANGED req /\ n \in Int
        BY <1>13, PartLengths DEF ReadFirst, ReadMore, ServerInv, Shape
      <4>3. link.rest - n \in Int
        BY <4>2 DEF AnyLink
      <4>4. PICK k \in Int : link' = link \/ link' = [link EXCEPT !.rest = k]
        BY <4>1, <4>3
      <4> QED
        <5>1. CASE link' = [link EXCEPT !.rest = k]
          <6>1. link'.open = link.open /\ link'.host = link.host /\ link'.named = link.named
            BY <4>2, <5>1, LinkRest
          <6> QED
            BY <4>2, <6>1 DEF LinkOf
        <5> QED
          BY <4>4, <5>1
    <3> QED
      BY <1>13, <3>1 DEF ReadFirst, ReadMore, ReadFails, ReadEnds
  <2> QED
    BY <1>13, <2>1, SameServer DEF ReadFirst, ReadMore, Return, ServerInv
<1>14. CASE SendPart
  <2>1. pc' \in {"more", "return"}
    BY <1>14 DEF SendPart, Return
  <2> QED
    BY <1>14, <2>1, SameServer DEF SendPart, ServerInv
<1>15. CASE Retry
  BY <1>15 DEF Retry, CloseUpdate, ServerInv, LinkOf, Open, Closed
<1>16. CASE Finish
  <2>1. CASE link' = Closed /\ ServerConnected' = FALSE
    BY <1>16, <2>1 DEF Finish, ServerInv, LinkOf, Open, Closed
  <2>2. CASE UNCHANGED <<link, ServerConnected>> /\ (code # 0 => drop = {})
    BY <1>16, <2>2 DEF Finish, ServerInv, LinkOf
  <2> QED
    BY <1>16, <2>1, <2>2 DEF Finish, CloseUpdate
<1>17. CASE ChildDies
  BY <1>17 DEF ChildDies, ServerInv, LinkOf
<1>18. CASE UNCHANGED vars
  BY <1>18 DEF vars, ServerInv, LinkOf
<1> QED
  BY <1>1, <1>2, <1>3, <1>4, <1>5, <1>6, <1>7, <1>8, <1>9, <1>10, <1>11, <1>12,
     <1>13, <1>14, <1>15, <1>16, <1>17, <1>18 DEF Next, Browser, CommunicationHTTP

\* A request goes to the host it names (RightServer): CommunicationHTTP()
\* closes a kept connection of another host and Proxy() one that an early
\* header left open.
THEOREM RequestsReachTheirHost == Spec => []RightServer
<1>1. Init => ServerInv
  BY DEF Init, ServerInv, LinkOf, Open, Closed
<1>2. ServerInv => RightServer
  BY DEF ServerInv, RightServer, LinkOf
<1> QED
  BY <1>1, <1>2, StepServer, ShapeHolds, PTL DEF Spec

(***************************************************************************)
(* The answer.  A length is announced and then a part is cut to it, or it  *)
(* is unknown and the browser is dropped from the header on.               *)
(***************************************************************************)

WholeInv ==
  /\ pc \in {"cache", "dial", "recache", "send", "body", "header"} => ans = NoAnswer
  /\ pc = "nobody" => ans.got = ans.length
  /\ pc \in {"first", "head", "part", "more"} =>
       ans.length > 0 \/ "DropBrowser" \in drop
  /\ pc = "more" => ans.got # ans.length /\ (ans.length > 0 => ans.got <= ans.length)
  /\ pc = "return" /\ code = 0 => ans.got = ans.length \/ "DropBrowser" \in drop
  /\ pc = "top" /\ drop \cap {"DropBrowser", "BrowserDropped"} = {}
       => ans.got = ans.length

LEMMA StepWhole == Shape /\ WholeInv /\ [Next]_vars => WholeInv'
<1> SUFFICES ASSUME Shape, WholeInv, [Next]_vars PROVE WholeInv'
  OBVIOUS
<1> USE DEF WholeInv
<1>0. ans \in AnyAnswer /\ ans.got \in Int /\ ans.length \in Int
  BY DEF Shape, AnyAnswer
<1>1. CASE Top
  BY <1>1 DEF Top, NoAnswer
<1>2. CASE CheckForData \/ BadRequest
  BY <1>2 DEF CheckForData, BadRequest
<1>3. ASSUME NEW r \in Requests, NEW keep \in BOOLEAN, GoodRequest(r, keep)
      PROVE  WholeInv'
  BY <1>3 DEF GoodRequest
<1>4. CASE Start
  BY <1>4 DEF Start, Return
<1>5. CASE Cache
  <2>1. \A e \in HeaderErrors : e.code # 0
    BY ErrorCases, Zenon
  <2> QED
    BY <1>5, <2>1 DEF Cache, Return
<1>6. CASE CacheAgain
  BY <1>6 DEF CacheAgain
<1>7. CASE ConnectToServer
  BY <1>7 DEF ConnectToServer, Connected, Return
<1>8. CASE SendHeader \/ SendBody \/ HeaderLost \/ LateHit \/ ChildDies \/ RedirectHeader
  BY <1>8 DEF SendHeader, SendBody, HeaderLost, LateHit, ChildDies, RedirectHeader, Return, NoAnswer
<1>9. CASE HitHeader \/ LateNotModified
  <2>1. CASE UNCHANGED ans /\ pc' = "nobody"
    BY <1>9, <2>1 DEF HitHeader, LateNotModified, NoAnswer
  <2>2. ASSUME NEW n \in 1 .. MaxBody,
               ans' = [NoAnswer EXCEPT !.length = IF req.type = "HEAD" THEN 0 ELSE n],
               pc' = IF req.type = "HEAD" THEN "nobody" ELSE "first"
        PROVE  WholeInv'
    BY <2>2 DEF NoAnswer
  <2>3. ASSUME NEW n \in 1 .. MaxBody, ans' = [NoAnswer EXCEPT !.length = n], pc' = "first"
        PROVE  WholeInv'
    BY <2>3 DEF NoAnswer
  <2> QED
    BY <1>9, <2>1, <2>2, <2>3 DEF HitHeader, LateNotModified
<1>10. ASSUME NEW r \in Replies, ServerHeader(r) PROVE WholeInv'
  <2>1. r.length \in Unknown .. MaxBody
    BY DEF Replies
  <2>2. CASE Return(-233, {"DropServer"})
    BY <2>2 DEF Return
  <2>3. CASE /\ pc' = "nobody"
             /\ ans' = [NoAnswer EXCEPT !.length = 0]
    BY <2>3 DEF NoAnswer
  <2>4. CASE /\ pc' = "first" /\ r.length # 0
             /\ ans' = [NoAnswer EXCEPT !.length = r.length]
             /\ r.length = Unknown => "DropBrowser" \in drop'
    BY <2>1, <2>4 DEF NoAnswer, Unknown
  <2> QED
    BY <1>10, <2>2, <2>3, <2>4 DEF ServerHeader
<1>11. CASE NoBody
  BY <1>11 DEF NoBody, Return
<1>12. CASE ReadFirst
  <2>1. CASE pc' = "head" /\ UNCHANGED drop /\ \E n \in Parts : ReadPart(n)
    <3>1. ans'.length = ans.length
      BY <1>0, <2>1 DEF ReadPart, AnyAnswer
    <3> QED
      BY <1>12, <2>1, <3>1 DEF ReadFirst
  <2>2. CASE pc' = "return" /\ (code' # 0 \/ "DropBrowser" \in drop')
    BY <2>2
  <2> QED
    BY <1>12, <2>1, <2>2 DEF ReadFirst, Return
<1>13. CASE AnswerHeader
  BY <1>13 DEF AnswerHeader, Return
<1>14. CASE SendPart
  <2>1. /\ ans'.length = ans.length
        /\ ans'.length > 0 => ans'.got <= ans'.length
    BY <1>0, <1>14, CutTypes DEF SendPart
  <2>2. CASE pc' = "return" /\ (code' # 0 \/ ans'.got = ans'.length)
    <3>1. ans'.got = ans.length => ans'.got = ans'.length
      BY <2>1
    <3> QED
      BY <2>2
  <2>3. CASE pc' = "more" /\ UNCHANGED drop /\ ans'.got # ans.length
    BY <1>14, <2>1, <2>3 DEF SendPart
  <2> QED
    BY <1>14, <2>1, <2>2, <2>3 DEF SendPart, Return
<1>15. CASE ReadMore
  <2>1. CASE pc' = "part" /\ UNCHANGED drop /\ \E n \in Parts : ReadPart(n)
    <3>1. ans'.length = ans.length
      BY <1>0, <2>1 DEF ReadPart, AnyAnswer
    <3> QED
      BY <1>15, <2>1, <3>1 DEF ReadMore
  <2>2. CASE Return(-75, {"DropServer"})
    BY <2>2 DEF Return
  <2>3. CASE /\ Return(0, IF ans.got < ans.length THEN {"DropBrowser"} ELSE {})
             /\ UNCHANGED ans
    <3>1. "DropBrowser" \in drop'
      BY <1>0, <1>15, <2>3 DEF ReadMore, Return
    <3> QED
      BY <2>3, <3>1 DEF Return
  <2> QED
    BY <1>15, <2>1, <2>2, <2>3 DEF ReadMore
<1>16. CASE Retry
  BY <1>16 DEF Retry
<1>17. CASE Finish
  BY <1>17 DEF Finish
<1>18. CASE UNCHANGED vars
  BY <1>18 DEF vars
<1> QED
  BY <1>1, <1>2, <1>3, <1>4, <1>5, <1>6, <1>7, <1>8, <1>9, <1>10, <1>11, <1>12,
     <1>13, <1>14, <1>15, <1>16, <1>17, <1>18 DEF Next, Browser, CommunicationHTTP

\* What is sent is never less than what is counted, and more only of a page that
\* is rewritten or a 304 that is filled up.
SentInv ==
  /\ ans.sent >= ans.got
  /\ ans.sent # ans.got => file.page \/ file.rewrited

\* Nothing that happens to a file's lock takes these two flags away.
LEMMA FileFlags ==
  ASSUME NEW f \in Files, f.page \/ f.rewrited
  PROVE  /\ liberate_edition(f).page \/ liberate_edition(f).rewrited
         /\ Cancel(f).page \/ Cancel(f).rewrited
         /\ Update(f).page \/ Update(f).rewrited
         /\ \A g \in MayCancel(f) : g.page \/ g.rewrited
         /\ LET g == liberate_edition(Update(f)) IN g.page \/ g.rewrited
         /\ [f EXCEPT !.disk = TRUE].page \/ [f EXCEPT !.disk = TRUE].rewrited
         /\ [f EXCEPT !.hit = TRUE].page \/ [f EXCEPT !.hit = TRUE].rewrited
<1>1. \A g \in Files : g.page \/ g.rewrited =>
        /\ liberate_edition(g).page \/ liberate_edition(g).rewrited
        /\ Cancel(g).page \/ Cancel(g).rewrited
        /\ Update(g).page \/ Update(g).rewrited
  BY DEF liberate_edition, Cancel, Update, Files
<1>2. /\ liberate_edition(f).page \/ liberate_edition(f).rewrited
      /\ Cancel(f).page \/ Cancel(f).rewrited
      /\ Update(f).page \/ Update(f).rewrited
  BY <1>1
<1>3. \A g \in MayCancel(f) : g.page \/ g.rewrited
  BY <1>2 DEF MayCancel
<1>4. LET g == liberate_edition(Update(f)) IN g.page \/ g.rewrited
  BY <1>1, <1>2, FileSteps
<1>5. /\ [f EXCEPT !.disk = TRUE].page \/ [f EXCEPT !.disk = TRUE].rewrited
      /\ [f EXCEPT !.hit = TRUE].page \/ [f EXCEPT !.hit = TRUE].rewrited
  BY DEF Files
<1> QED
  BY <1>2, <1>3, <1>4, <1>5

LEMMA PartSent ==
  ASSUME Shape, SentInv, NEW n \in Int, ReadPart(n)
  PROVE  SentInv'
<1>1. file \in Files /\ ans \in AnyAnswer
  BY DEF Shape
<1>2. PICK u \in Uncounted : ans' = [ans EXCEPT !.got = @ + n, !.sent = @ + n + u]
  BY DEF ReadPart
<1>3. /\ u \in {0, 1}
      /\ u = 1 => ans.sent = ans.got /\ (file.page \/ file.rewrited)
  BY <1>1 DEF Uncounted, Files
<1>4. ans'.sent - ans'.got = ans.sent - ans.got + u
  BY <1>1, <1>2, <1>3 DEF AnyAnswer
<1>5. file.page \/ file.rewrited => file'.page \/ file'.rewrited
  BY <1>1, FileFlags DEF ReadPart
<1>6. /\ ans.sent \in Int /\ ans.got \in Int
      /\ ans'.sent \in Int /\ ans'.got \in Int
  BY <1>1, PartTypes DEF AnyAnswer
<1>7. ans'.sent >= ans'.got
  BY <1>3, <1>4, <1>6 DEF SentInv
<1>8. ans'.sent # ans'.got => u = 1 \/ ans.sent # ans.got
  <2> SUFFICES ASSUME u # 1, ans.sent = ans.got PROVE ans'.sent = ans'.got
    OBVIOUS
  <2>1. u = 0
    BY <1>3
  <2>2. ans'.sent - ans'.got = 0
    BY <1>4, <1>6, <2>1
  <2> QED
    BY <1>6, <2>2
<1> QED
  BY <1>3, <1>5, <1>7, <1>8 DEF SentInv

LEMMA StepSent == Shape /\ WholeInv /\ SentInv /\ [Next]_vars => SentInv'
<1> SUFFICES ASSUME Shape, WholeInv, SentInv, [Next]_vars PROVE SentInv'
  OBVIOUS
<1>0. file \in Files /\ ans \in AnyAnswer
  BY DEF Shape
<1>1. ASSUME UNCHANGED ans, file.page \/ file.rewrited => file'.page \/ file'.rewrited
      PROVE  SentInv'
  BY <1>1 DEF SentInv
<1>2. ASSUME ans'.sent = 0, ans'.got = 0 PROVE SentInv'
  BY <1>2 DEF SentInv
<1>3. CASE Browser
  BY <1>1, <1>2, <1>3 DEF Browser, Top, CheckForData, BadRequest, GoodRequest, NoAnswer
<1>4. CASE Start
  BY <1>2, <1>4 DEF Start, NoAnswer
<1>5. CASE Cache \/ CacheAgain
  BY <1>2, <1>5 DEF Cache, CacheAgain, WholeInv, NoAnswer
<1>6. CASE ConnectToServer \/ SendHeader \/ SendBody \/ HeaderLost \/ ChildDies \/ RedirectHeader
  BY <1>1, <1>6 DEF ConnectToServer, SendHeader, SendBody, HeaderLost, ChildDies, RedirectHeader
<1>7. CASE LateHit \/ HitHeader \/ LateNotModified \/ \E r \in Replies : ServerHeader(r)
  <2>1. ans = NoAnswer
    BY <1>7 DEF LateHit, HitHeader, LateNotModified, ServerHeader, WholeInv
  <2>2. UNCHANGED ans \/ \E n : ans' = [NoAnswer EXCEPT !.length = n]
    BY <1>7 DEF LateHit, HitHeader, LateNotModified, ServerHeader
  <2> QED
    BY <1>2, <2>1, <2>2 DEF NoAnswer
<1>8. CASE NoBody \/ AnswerHeader
  BY <1>1, <1>8 DEF NoBody, AnswerHeader
<1>9. CASE ReadFirst \/ ReadMore
  <2>1. ASSUME NEW n \in Parts, ReadPart(n) PROVE SentInv'
    BY <2>1, PartSent, PartLengths
  <2>2. CASE UNCHANGED ans /\ (ReadFails \/ ReadEnds)
    BY <1>0, <1>1, <2>2, FileFlags DEF ReadFails, ReadEnds
  <2>3. ASSUME NEW f \in MayCancel(file), file' = Update(f), UNCHANGED ans PROVE SentInv'
    BY <1>0, <1>1, <2>3, FileFlags, FileSteps
  <2>4. CASE UNCHANGED ans /\ file' = Update(file)
    BY <1>0, <1>1, <2>4, FileFlags
  <2> QED
    BY <1>9, <2>1, <2>2, <2>3, <2>4 DEF ReadFirst, ReadMore
<1>10. CASE SendPart
  <2>1. /\ ans'.sent - ans'.got = ans.sent - ans.got
        /\ ans'.sent \in Int /\ ans'.got \in Int /\ ans.sent \in Int /\ ans.got \in Int
    BY <1>0, <1>10, CutTypes DEF SendPart, AnyAnswer
  <2>2. file.page \/ file.rewrited => file'.page \/ file'.rewrited
    BY <1>0, <1>10, FileFlags DEF SendPart
  <2> QED
    BY <2>1, <2>2 DEF SentInv
<1>11. CASE Retry \/ Finish
  <2>1. PICK f \in Logged : file' = f \/ file' = liberate_edition(Update(f))
    BY <1>11 DEF Retry, Finish, CloseUpdate
  <2>2. f \in Files /\ (file.page \/ file.rewrited => f.page \/ f.rewrited)
    BY <1>0, FileSteps, FileFlags DEF Logged
  <2>3. file.page \/ file.rewrited => file'.page \/ file'.rewrited
    BY <2>1, <2>2, FileFlags
  <2>4. UNCHANGED ans
    BY <1>11 DEF Retry, Finish
  <2> QED
    BY <1>1, <2>3, <2>4
<1>12. CASE UNCHANGED vars
  BY <1>1, <1>12 DEF vars
<1> QED
  BY <1>3, <1>4, <1>5, <1>6, <1>7, <1>8, <1>9, <1>10, <1>11, <1>12
     DEF Next, CommunicationHTTP

\* The browser is kept for another request only behind a whole answer
\* (WholeBeforeNext): whatever ends an answer early sets DropBrowser, or an
\* error for which Proxy() sets it; what is sent is what is counted but for
\* rewritten pages and late 304s, of which it is more.
THEOREM KeptBehindWholeAnswers == Spec => []WholeBeforeNext
<1>1. Init => WholeInv /\ SentInv
  BY DEF Init, WholeInv, SentInv, NoAnswer
<1>2. Shape /\ WholeInv /\ SentInv => WholeBeforeNext
  BY DEF Shape, AnyAnswer, WholeInv, SentInv, WholeBeforeNext
<1> QED
  BY <1>1, <1>2, StepWhole, StepSent, ShapeHolds, PTL DEF Spec

(***************************************************************************)
(* The error page.  An error behind the header is that of a browser that   *)
(* is gone, or comes while a part is awaited, when the answer is not whole.*)
(***************************************************************************)

LEMMA StepPage ==
  HeadedInv /\ WholeInv /\ NoPageBehindAnswer /\ [Next]_vars => NoPageBehindAnswer'
<1> SUFFICES ASSUME HeadedInv, WholeInv, NoPageBehindAnswer, [Next]_vars
             PROVE  NoPageBehindAnswer'
  OBVIOUS
<1> USE DEF NoPageBehindAnswer
<1>1. CASE Browser
  BY <1>1 DEF Browser, Top, CheckForData, BadRequest, GoodRequest
<1>2. CASE UNCHANGED headed /\ pc \in Phases \ {"part", "more", "top", "return"}
  BY <1>2 DEF HeadedInv, Phases
<1>3. CASE NoBody \/ AnswerHeader
  <2>1. pc' = "return" => code' = 0 \/ "BrowserDropped" \in drop'
    BY <1>3 DEF NoBody, AnswerHeader, Return
  <2> QED
    BY <2>1
<1>4. CASE ReadFirst
  <2>1. CASE UNCHANGED headed
    BY <1>2, <1>4, <2>1 DEF ReadFirst, Phases
  <2>2. CASE code' = 0 \/ "BrowserDropped" \in drop'
    BY <2>2
  <2> QED
    BY <1>4, <2>1, <2>2 DEF ReadFirst, Return
<1>5. CASE SendPart
  <2>1. pc' = "return" => code' = 0 \/ "BrowserDropped" \in drop'
    BY <1>5 DEF SendPart, Return
  <2> QED
    BY <2>1
<1>6. CASE ReadMore
  <2>1. pc = "more" /\ ans.got # ans.length
    BY <1>6 DEF ReadMore, WholeInv
  <2>2. CASE pc' = "part" \/ UNCHANGED ans
    BY <2>1, <2>2
  <2> QED
    BY <1>6, <2>2 DEF ReadMore
<1>7. CASE Start \/ Cache \/ CacheAgain \/ ConnectToServer
  BY <1>2, <1>7 DEF Start, Cache, CacheAgain, ConnectToServer, Phases
<1>8. CASE SendHeader \/ SendBody \/ HeaderLost \/ LateHit \/ HitHeader
  BY <1>2, <1>8 DEF SendHeader, SendBody, HeaderLost, LateHit, HitHeader, Phases
<1>9. ASSUME NEW r \in Replies, ServerHeader(r) PROVE NoPageBehindAnswer'
  BY <1>2, <1>9 DEF ServerHeader, Phases
<1>12. CASE ChildDies \/ LateNotModified \/ RedirectHeader
  BY <1>12 DEF ChildDies, LateNotModified, RedirectHeader
<1>10. CASE Retry \/ Finish
  BY <1>10 DEF Retry, Finish
<1>11. CASE UNCHANGED vars
  BY <1>11 DEF vars
<1> QED
  BY <1>1, <1>3, <1>4, <1>5, <1>6, <1>7, <1>8, <1>9, <1>10, <1>11, <1>12
     DEF Next, CommunicationHTTP

\* No error page follows a whole answer (NoPageBehindAnswer): SendPart() returns
\* at the last byte before anything can fail.
THEOREM PagesReplaceAnswers == Spec => []NoPageBehindAnswer
<1>1. Init => HeadedInv /\ WholeInv /\ NoPageBehindAnswer
  BY DEF Init, HeadedInv, WholeInv, NoPageBehindAnswer, NoAnswer
<1> QED
  BY <1>1, StepHeaded, StepWhole, StepPage, ShapeHolds, PTL DEF Spec
=============================================================================
