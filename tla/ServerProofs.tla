---------------------------- MODULE ServerProofs ----------------------------
(* What Server keeps for every set of connections and every max_sessions.   *)
EXTENDS Server, FiniteSetTheorems, TLAPS

(* Where stop() is tells which threads and sockets are left: the flags fall *)
(* together, nobody is accepted once the listening socket is closed and the *)
(* accept thread joined, and only a stop() under way has sockets to close.  *)
StopInv ==
    /\ serving = running
    /\ stopper # "idle" => ~running
    /\ listening => running \/ stopper = "listen"
    /\ acceptor # "none" => running \/ stopper \in {"listen", "join"}
    /\ conns # {} => running \/ stopper \in {"listen", "join", "clear"}
    /\ toClose # {} => stopper = "close"

(* Every socket has somebody who will close it.                             *)
SocketInv ==
    /\ \A c \in Conns : sock[c] = "backlog" => listening
    /\ \A c \in Conns : sock[c] = "taken" => acceptor = "busy"
    /\ \A c, d \in Conns : sock[c] = "taken" /\ sock[d] = "taken" => c = d
    /\ \A c \in Conns : sock[c] \in {"open", "ending", "eof"} =>
           c \in conns \/ c \in toClose \/ worker[c] = "left"

(* The table: shown, bounded, and without the session being dropped.        *)
TableInv ==
    /\ TableIsShown
    /\ HandlerHasSession
    /\ SessionsBounded
    /\ \A c \in Conns : worker[c] = "dropping" => c \notin sessions

IInv == TypeInv /\ StopInv /\ SocketInv /\ TableInv
-----------------------------------------------------------------------------
(* The steps of one connection and its client.                              *)
StepOf(c) ==
    \/ Connect(c) \/ HangUp(c) \/ Accept(c) \/ Registers(c) \/ WorkerBegins(c)
    \/ Polls(c) \/ TimesOut(c) \/ Leaves(c) \/ WorkerEnds(c) \/ EnsureSession(c)
    \/ GetImpl(c) \/ HandlerDone(c) \/ Teardown(c) \/ DropSession(c)
    \/ DropTold(c) \/ Reply(c) \/ ReplyFails(c) \/ Throws(c) \/ ParseFails(c)
    \/ Receives(c)

(* The steps of start(), stop() and the accept thread.                      *)
StepOfServer ==
    \/ Start \/ StopBegins \/ StopListening \/ StopJoins \/ StopClears
    \/ StopCloses \/ StopSessions \/ StopTold \/ AcceptorEnds

LEMMA StepCases ==
    ASSUME Next
    PROVE  StepOfServer \/ \E c \in Conns : StepOf(c)
  BY DEF Next, Stopping, GoesOn, Request, Dispatch, StepOf, StepOfServer

(* Every step keeps the types.                                              *)
LEMMA TypeStep ==
    ASSUME TypeInv, Next
    PROVE  TypeInv'
<1>. USE DEF TypeInv, Sockets, Workers, Stops, control, http, table, WorkerAt
<1>1. ASSUME StepOfServer
      PROVE  TypeInv'
  <2>1. CASE Start
    BY <2>1 DEF Start
  <2>2. CASE StopBegins
    BY <2>2 DEF StopBegins
  <2>3. CASE StopListening
    BY <2>3 DEF StopListening
  <2>4. CASE StopJoins
    BY <2>4 DEF StopJoins
  <2>5. CASE StopClears
    BY <2>5 DEF StopClears
  <2>6. CASE StopCloses
    BY <2>6 DEF StopCloses
  <2>7. CASE StopSessions
    BY <2>7 DEF StopSessions
  <2>8. CASE StopTold
    BY <2>8 DEF StopTold
  <2>9. CASE AcceptorEnds
    BY <2>9 DEF AcceptorEnds
  <2>. QED
    BY <1>1, <2>1, <2>2, <2>3, <2>4, <2>5, <2>6, <2>7, <2>8, <2>9 DEF StepOfServer
<1>2. ASSUME NEW c \in Conns, StepOf(c)
      PROVE  TypeInv'
  <2>1. CASE Connect(c)
    BY <2>1 DEF Connect
  <2>2. CASE HangUp(c)
    BY <2>2 DEF HangUp
  <2>3. CASE Accept(c)
    BY <2>3 DEF Accept
  <2>4. CASE Registers(c)
    BY <2>4 DEF Registers
  <2>5. CASE WorkerBegins(c)
    BY <2>5 DEF WorkerBegins
  <2>6. CASE Polls(c)
    BY <2>6 DEF Polls
  <2>7. CASE TimesOut(c)
    BY <2>7 DEF TimesOut
  <2>8. CASE Leaves(c)
    BY <2>8 DEF Leaves
  <2>9. CASE WorkerEnds(c)
    BY <2>9 DEF WorkerEnds
  <2>10. CASE EnsureSession(c)
    BY <2>10 DEF EnsureSession
  <2>11. CASE GetImpl(c)
    BY <2>11 DEF GetImpl
  <2>12. CASE HandlerDone(c)
    BY <2>12 DEF HandlerDone
  <2>13. CASE Teardown(c)
    BY <2>13 DEF Teardown
  <2>14. CASE DropSession(c)
    BY <2>14 DEF DropSession
  <2>15. CASE DropTold(c)
    BY <2>15 DEF DropTold
  <2>16. CASE Reply(c)
    BY <2>16 DEF Reply
  <2>17. CASE ReplyFails(c)
    BY <2>17 DEF ReplyFails
  <2>18. CASE Throws(c)
    BY <2>18 DEF Throws
  <2>19. CASE ParseFails(c)
    BY <2>19 DEF ParseFails
  <2>20. CASE Receives(c)
    BY <2>20 DEF Receives
  <2>. QED
    BY <1>2, <2>1, <2>2, <2>3, <2>4, <2>5, <2>6, <2>7, <2>8, <2>9, <2>10, <2>11,
       <2>12, <2>13, <2>14, <2>15, <2>16, <2>17, <2>18, <2>19, <2>20 DEF StepOf
<1>. QED
  BY StepCases, <1>1, <1>2

(* Every step keeps what stop() has reached.                                *)
LEMMA StopStep ==
    ASSUME TypeInv, StopInv, SocketInv, Next
    PROVE  StopInv'
<1>. USE DEF TypeInv, StopInv, SocketInv, control, http, table, WorkerAt
<1>1. ASSUME StepOfServer
      PROVE  StopInv'
  <2>1. CASE Start
    BY <2>1 DEF Start
  <2>2. CASE StopBegins
    BY <2>2 DEF StopBegins
  <2>3. CASE StopListening
    BY <2>3 DEF StopListening
  <2>4. CASE StopJoins
    BY <2>4 DEF StopJoins
  <2>5. CASE StopClears
    BY <2>5 DEF StopClears
  <2>6. CASE StopCloses
    BY <2>6 DEF StopCloses
  <2>7. CASE StopSessions
    BY <2>7 DEF StopSessions
  <2>8. CASE StopTold
    BY <2>8 DEF StopTold
  <2>9. CASE AcceptorEnds
    BY <2>9 DEF AcceptorEnds
  <2>. QED
    BY <1>1, <2>1, <2>2, <2>3, <2>4, <2>5, <2>6, <2>7, <2>8, <2>9 DEF StepOfServer
<1>2. ASSUME NEW c \in Conns, StepOf(c)
      PROVE  StopInv'
  <2>1. CASE Connect(c)
    BY <2>1 DEF Connect
  <2>2. CASE HangUp(c)
    BY <2>2 DEF HangUp
  <2>3. CASE Accept(c)
    BY <2>3 DEF Accept
  <2>4. CASE Registers(c)
    BY <2>4 DEF Registers
  <2>5. CASE WorkerBegins(c)
    BY <2>5 DEF WorkerBegins
  <2>6. CASE Polls(c)
    BY <2>6 DEF Polls
  <2>7. CASE TimesOut(c)
    BY <2>7 DEF TimesOut
  <2>8. CASE Leaves(c)
    BY <2>8 DEF Leaves
  <2>9. CASE WorkerEnds(c)
    BY <2>9 DEF WorkerEnds
  <2>10. CASE EnsureSession(c)
    BY <2>10 DEF EnsureSession
  <2>11. CASE GetImpl(c)
    BY <2>11 DEF GetImpl
  <2>12. CASE HandlerDone(c)
    BY <2>12 DEF HandlerDone
  <2>13. CASE Teardown(c)
    BY <2>13 DEF Teardown
  <2>14. CASE DropSession(c)
    BY <2>14 DEF DropSession
  <2>15. CASE DropTold(c)
    BY <2>15 DEF DropTold
  <2>16. CASE Reply(c)
    BY <2>16 DEF Reply
  <2>17. CASE ReplyFails(c)
    BY <2>17 DEF ReplyFails
  <2>18. CASE Throws(c)
    BY <2>18 DEF Throws
  <2>19. CASE ParseFails(c)
    BY <2>19 DEF ParseFails
  <2>20. CASE Receives(c)
    BY <2>20 DEF Receives
  <2>. QED
    BY <1>2, <2>1, <2>2, <2>3, <2>4, <2>5, <2>6, <2>7, <2>8, <2>9, <2>10, <2>11,
       <2>12, <2>13, <2>14, <2>15, <2>16, <2>17, <2>18, <2>19, <2>20 DEF StepOf
<1>. QED
  BY StepCases, <1>1, <1>2

(* Every step leaves each socket somebody who will close it.                *)
LEMMA SocketStep ==
    ASSUME TypeInv, StopInv, SocketInv, Next
    PROVE  SocketInv'
<1>. USE DEF TypeInv, StopInv, SocketInv, control, http, table, WorkerAt
<1>1. ASSUME StepOfServer
      PROVE  SocketInv'
  <2>1. CASE Start
    BY <2>1 DEF Start
  <2>2. CASE StopBegins
    BY <2>2 DEF StopBegins
  <2>3. CASE StopListening
    BY <2>3 DEF StopListening
  <2>4. CASE StopJoins
    BY <2>4 DEF StopJoins
  <2>5. CASE StopClears
    BY <2>5 DEF StopClears
  <2>6. CASE StopCloses
    BY <2>6 DEF StopCloses
  <2>7. CASE StopSessions
    BY <2>7 DEF StopSessions
  <2>8. CASE StopTold
    BY <2>8 DEF StopTold
  <2>9. CASE AcceptorEnds
    BY <2>9 DEF AcceptorEnds
  <2>. QED
    BY <1>1, <2>1, <2>2, <2>3, <2>4, <2>5, <2>6, <2>7, <2>8, <2>9 DEF StepOfServer
<1>2. ASSUME NEW c \in Conns, StepOf(c)
      PROVE  SocketInv'
  <2>1. CASE Connect(c)
    BY <2>1 DEF Connect
  <2>2. CASE HangUp(c)
    BY <2>2 DEF HangUp
  <2>3. CASE Accept(c)
    BY <2>3 DEF Accept
  <2>4. CASE Registers(c)
    BY <2>4 DEF Registers
  <2>5. CASE WorkerBegins(c)
    BY <2>5 DEF WorkerBegins
  <2>6. CASE Polls(c)
    BY <2>6 DEF Polls
  <2>7. CASE TimesOut(c)
    BY <2>7 DEF TimesOut
  <2>8. CASE Leaves(c)
    BY <2>8 DEF Leaves
  <2>9. CASE WorkerEnds(c)
    BY <2>9 DEF WorkerEnds
  <2>10. CASE EnsureSession(c)
    BY <2>10 DEF EnsureSession
  <2>11. CASE GetImpl(c)
    BY <2>11 DEF GetImpl
  <2>12. CASE HandlerDone(c)
    BY <2>12 DEF HandlerDone
  <2>13. CASE Teardown(c)
    BY <2>13 DEF Teardown
  <2>14. CASE DropSession(c)
    BY <2>14 DEF DropSession
  <2>15. CASE DropTold(c)
    BY <2>15 DEF DropTold
  <2>16. CASE Reply(c)
    BY <2>16 DEF Reply
  <2>17. CASE ReplyFails(c)
    BY <2>17 DEF ReplyFails
  <2>18. CASE Throws(c)
    BY <2>18 DEF Throws
  <2>19. CASE ParseFails(c)
    BY <2>19 DEF ParseFails
  <2>20. CASE Receives(c)
    BY <2>20 DEF Receives
  <2>. QED
    BY <1>2, <2>1, <2>2, <2>3, <2>4, <2>5, <2>6, <2>7, <2>8, <2>9, <2>10, <2>11,
       <2>12, <2>13, <2>14, <2>15, <2>16, <2>17, <2>18, <2>19, <2>20 DEF StepOf
<1>. QED
  BY StepCases, <1>1, <1>2

(* Every step keeps the table shown and bounded.                            *)
LEMMA TableStep ==
    ASSUME TypeInv, TableInv, Next
    PROVE  TableInv'
<1>. USE DEF TypeInv, TableInv, TableIsShown, SessionsBounded, HandlerHasSession,
         control, http, table, WorkerAt
<1>0. IsFiniteSet(sessions) /\ Cardinality(sessions) \in Nat
  BY ConnsFinite, FS_Subset, FS_CardinalityType DEF TypeInv
<1>1. ASSUME StepOfServer
      PROVE  TableInv'
  <2>1. CASE Start
    BY <2>1 DEF Start
  <2>2. CASE StopBegins
    BY <2>2 DEF StopBegins
  <2>3. CASE StopListening
    BY <2>3 DEF StopListening
  <2>4. CASE StopJoins
    BY <2>4 DEF StopJoins
  <2>5. CASE StopClears
    BY <2>5 DEF StopClears
  <2>6. CASE StopCloses
    BY <2>6 DEF StopCloses
  <2>7. CASE StopSessions
    <3>1. SessionsBounded'
      BY <2>7, FS_EmptySet, MaxSessionsNat DEF StopSessions
    <3>. QED
      BY <2>7, <3>1 DEF StopSessions
  <2>8. CASE StopTold
    BY <2>8 DEF StopTold
  <2>9. CASE AcceptorEnds
    BY <2>9 DEF AcceptorEnds
  <2>. QED
    BY <1>1, <2>1, <2>2, <2>3, <2>4, <2>5, <2>6, <2>7, <2>8, <2>9 DEF StepOfServer
<1>2. ASSUME NEW c \in Conns, StepOf(c)
      PROVE  TableInv'
  <2>1. CASE Connect(c)
    BY <2>1 DEF Connect
  <2>2. CASE HangUp(c)
    BY <2>2 DEF HangUp
  <2>3. CASE Accept(c)
    BY <2>3 DEF Accept
  <2>4. CASE Registers(c)
    BY <2>4 DEF Registers
  <2>5. CASE WorkerBegins(c)
    BY <2>5 DEF WorkerBegins
  <2>6. CASE Polls(c)
    BY <2>6 DEF Polls
  <2>7. CASE TimesOut(c)
    BY <2>7 DEF TimesOut
  <2>8. CASE Leaves(c)
    BY <2>8 DEF Leaves
  <2>9. CASE WorkerEnds(c)
    BY <2>9 DEF WorkerEnds
  <2>10. CASE EnsureSession(c)
    <3>1. CASE UNCHANGED sessions
      BY <2>10, <3>1 DEF EnsureSession
    <3>2. CASE sessions' = sessions \cup {c} /\ c \notin sessions /\ Room
      <4>1. Cardinality(sessions') = Cardinality(sessions) + 1
        BY <1>0, <3>2, FS_AddElement
      <4>2. SessionsBounded'
        BY <1>0, <3>2, <4>1, MaxSessionsNat DEF Room
      <4>. QED
        BY <2>10, <3>2, <4>2 DEF EnsureSession
    <3>. QED
      BY <2>10, <3>1, <3>2 DEF EnsureSession
  <2>11. CASE GetImpl(c)
    BY <2>11 DEF GetImpl
  <2>12. CASE HandlerDone(c)
    BY <2>12 DEF HandlerDone
  <2>13. CASE Teardown(c)
    BY <2>13 DEF Teardown
  <2>14. CASE DropSession(c)
    <3>1. SessionsBounded'
      <4>1. sessions' = sessions \ {c}
        BY <2>14 DEF DropSession
      <4>2. /\ Cardinality(sessions') \in Nat
           /\ Cardinality(sessions') <= Cardinality(sessions)
        BY <1>0, <4>1, FS_Subset, FS_CardinalityType
      <4>. QED
        BY <1>0, <4>2, MaxSessionsNat
    <3>. QED
      BY <2>14, <3>1 DEF DropSession
  <2>15. CASE DropTold(c)
    BY <2>15 DEF DropTold
  <2>16. CASE Reply(c)
    BY <2>16 DEF Reply
  <2>17. CASE ReplyFails(c)
    BY <2>17 DEF ReplyFails
  <2>18. CASE Throws(c)
    BY <2>18 DEF Throws
  <2>19. CASE ParseFails(c)
    BY <2>19 DEF ParseFails
  <2>20. CASE Receives(c)
    BY <2>20 DEF Receives
  <2>. QED
    BY <1>2, <2>1, <2>2, <2>3, <2>4, <2>5, <2>6, <2>7, <2>8, <2>9, <2>10, <2>11,
       <2>12, <2>13, <2>14, <2>15, <2>16, <2>17, <2>18, <2>19, <2>20 DEF StepOf
<1>. QED
  BY StepCases, <1>1, <1>2

-----------------------------------------------------------------------------
LEMMA Begins == Init => IInv
<1>. SUFFICES ASSUME Init PROVE IInv
  OBVIOUS
<1>1. TypeInv
  BY DEF Init, TypeInv, Sockets, Workers, Stops
<1>2. StopInv /\ SocketInv
  BY DEF Init, StopInv, SocketInv
<1>3. TableInv
  BY FS_EmptySet, MaxSessionsNat DEF Init, TableInv, TableIsShown, SessionsBounded,
     HandlerHasSession
<1>. QED
  BY <1>1, <1>2, <1>3 DEF IInv

LEMMA Keeps == IInv /\ [Next]_vars => IInv'
<1>. SUFFICES ASSUME IInv, [Next]_vars PROVE IInv'
  OBVIOUS
<1>1. CASE Next
  BY <1>1, TypeStep, StopStep, SocketStep, TableStep DEF IInv
<1>2. CASE UNCHANGED vars
  BY <1>2 DEF vars, IInv, TypeInv, StopInv, SocketInv, TableInv, TableIsShown,
              SessionsBounded, HandlerHasSession
<1>. QED
  BY <1>1, <1>2

LEMMA Always == Spec => []IInv
  BY Begins, Keeps, PTL DEF Spec

(* The variables keep their types.                                          *)
THEOREM TypeCorrect == Spec => []TypeInv
<1>1. IInv => TypeInv
  BY DEF IInv
<1>. QED
  BY Always, <1>1, PTL

(* The table of sessions never outgrows max_sessions, for any number of     *)
(* connections that ask at once.                                            *)
THEOREM TableBounded == Spec => []SessionsBounded
<1>1. IInv => SessionsBounded
  BY DEF IInv, TableInv
<1>. QED
  BY Always, <1>1, PTL

(* Both together, as the run checks them.                                   *)
THEOREM ServerWellFormed == Spec => []WellFormed
<1>1. IInv => WellFormed
  BY DEF IInv, TableInv, WellFormed
<1>. QED
  BY Always, <1>1, PTL

(* A session is in the table only between the two callbacks about it.       *)
THEOREM TableShown == Spec => []TableIsShown
<1>1. IInv => TableIsShown
  BY DEF IInv, TableInv
<1>. QED
  BY Always, <1>1, PTL

(* Only stop() destroys a session that a handler works on.                  *)
THEOREM HandlersHaveSessions == Spec => []HandlerHasSession
<1>1. IInv => HandlerHasSession
  BY DEF IInv, TableInv
<1>. QED
  BY Always, <1>1, PTL

(* Whoever connected when, stop() leaves no connection open.                *)
THEOREM StopClosesAll == Spec => []StoppedIsClosed
<1>1. IInv => StoppedIsClosed
  <2>. SUFFICES ASSUME IInv, ~running, stopper = "idle", NEW c \in Conns
                PROVE  sock[c] \in {"new", "closed"} \/ worker[c] = "left"
    BY DEF StoppedIsClosed
  <2>1. ~listening /\ acceptor = "none" /\ conns = {} /\ toClose = {}
    BY DEF IInv, StopInv
  <2>2. sock[c] \notin {"backlog", "taken"}
    BY <2>1 DEF IInv, SocketInv
  <2>3. sock[c] \in {"open", "ending", "eof"} => worker[c] = "left"
    BY <2>1 DEF IInv, SocketInv
  <2>. QED
    BY <2>2, <2>3 DEF IInv, TypeInv, Sockets
<1>. QED
  BY Always, <1>1, PTL
-----------------------------------------------------------------------------
(* Only a handler at work can be left with a session that is gone.          *)
StaleAreUsers == stale \subseteq Users

Safe == IInv /\ StaleAreUsers

(* What the abstract table can see.                                         *)
Shown == <<sessions, Users, stale, shown>>

(* A worker that goes from one place to another takes its connection into   *)
(* the users, out of them, or leaves them as they were.                     *)
LEMMA UsersMove ==
    ASSUME TypeInv, NEW c \in Conns, NEW from, NEW to, WorkerAt(c, from, to)
    PROVE  Users' = IF to \in {"using", "tearing"} THEN Users \cup {c} ELSE Users \ {c}
  BY DEF TypeInv, WorkerAt, Users

LEMMA UsersHere ==
    ASSUME NEW c \in Conns, NEW from, NEW to, WorkerAt(c, from, to)
    PROVE  c \in Users <=> from \in {"using", "tearing"}
  BY DEF WorkerAt, Users

LEMMA UsersStay ==
    ASSUME UNCHANGED worker
    PROVE  Users' = Users
  BY DEF Users

(* Every step of a connection is a step of the abstract table or none.      *)
LEMMA StepOfMaps ==
    ASSUME Safe, NEW c \in Conns, StepOf(c)
    PROVE  /\ Table!Next \/ UNCHANGED Shown
           /\ StaleAreUsers'
<1>. USE DEF control, http, table
<1>0. TypeInv /\ stale \subseteq Users /\ (worker[c] = "dropping" => c \notin sessions)
  BY DEF Safe, IInv, TableInv, StaleAreUsers
<1>1. CASE Connect(c) \/ HangUp(c) \/ Accept(c)
  BY <1>0, <1>1, UsersStay DEF Connect, HangUp, Accept, Shown, StaleAreUsers
<1>2. CASE Registers(c)
  <2>1. WorkerAt(c, "none", "begun") /\ UNCHANGED table
    BY <1>2 DEF Registers
  <2>2. Users' = Users
    BY <1>0, <2>1, UsersMove, UsersHere
  <2>. QED
    BY <1>0, <2>1, <2>2 DEF Shown, StaleAreUsers
<1>3. CASE WorkerBegins(c)
  <2>1. UNCHANGED table
    BY <1>3 DEF WorkerBegins
  <2>2. CASE WorkerAt(c, "begun", "top")
    <3>1. Users' = Users
      BY <1>0, <2>2, UsersMove, UsersHere
    <3>. QED
      BY <1>0, <2>1, <3>1 DEF Shown, StaleAreUsers
  <2>3. CASE WorkerAt(c, "begun", "ended")
    <3>1. Users' = Users
      BY <1>0, <2>3, UsersMove, UsersHere
    <3>. QED
      BY <1>0, <2>1, <3>1 DEF Shown, StaleAreUsers
  <2>. QED
    BY <1>3, <2>2, <2>3 DEF WorkerBegins
<1>4. CASE Polls(c)
  <2>1. WorkerAt(c, "top", "select") /\ UNCHANGED table
    BY <1>4 DEF Polls
  <2>2. Users' = Users
    BY <1>0, <2>1, UsersMove, UsersHere
  <2>. QED
    BY <1>0, <2>1, <2>2 DEF Shown, StaleAreUsers
<1>5. CASE TimesOut(c)
  <2>1. WorkerAt(c, "select", "top") /\ UNCHANGED table
    BY <1>5 DEF TimesOut
  <2>2. Users' = Users
    BY <1>0, <2>1, UsersMove, UsersHere
  <2>. QED
    BY <1>0, <2>1, <2>2 DEF Shown, StaleAreUsers
<1>6. CASE Leaves(c)
  <2>1. UNCHANGED table /\ worker' = [worker EXCEPT ![c] = "left"]
        /\ worker[c] \in {"top", "select"}
    BY <1>6 DEF Leaves, LoopOver
  <2>2. Users' = Users
    BY <1>0, <2>1 DEF TypeInv, Users
  <2>. QED
    BY <1>0, <2>1, <2>2 DEF Shown, StaleAreUsers
<1>7. CASE ParseFails(c)
  <2>1. WorkerAt(c, "select", "left") /\ UNCHANGED table
    BY <1>7 DEF ParseFails
  <2>2. Users' = Users
    BY <1>0, <2>1, UsersMove, UsersHere
  <2>. QED
    BY <1>0, <2>1, <2>2 DEF Shown, StaleAreUsers
<1>8. CASE WorkerEnds(c)
  <2>1. WorkerAt(c, "left", "ended") /\ UNCHANGED table
    BY <1>8 DEF WorkerEnds
  <2>2. Users' = Users
    BY <1>0, <2>1, UsersMove, UsersHere
  <2>. QED
    BY <1>0, <2>1, <2>2 DEF Shown, StaleAreUsers
<1>9. CASE EnsureSession(c)
  <2>1. CASE /\ c \in sessions
             /\ WorkerAt(c, "asked", "using")
             /\ UNCHANGED table
    <3>1. Users' = Users \cup {c} /\ c \notin Users
      BY <1>0, <2>1, UsersMove, UsersHere
    <3>2. Table!Find(c)
      BY <2>1, <3>1 DEF Table!Find
    <3>. QED
      BY <1>0, <2>1, <3>1, <3>2 DEF Table!Next, StaleAreUsers
  <2>2. CASE WorkerAt(c, "asked", "reply") /\ UNCHANGED table
    <3>1. Users' = Users
      BY <1>0, <2>2, UsersMove, UsersHere
    <3>. QED
      BY <1>0, <2>2, <3>1 DEF Shown, StaleAreUsers
  <2>3. CASE /\ c \notin sessions /\ Room
             /\ WorkerAt(c, "asked", "using")
             /\ sessions' = sessions \cup {c}
             /\ shown' = shown \cup {c}
             /\ UNCHANGED stale
    <3>1. Users' = Users \cup {c} /\ c \notin Users
      BY <1>0, <2>3, UsersMove, UsersHere
    <3>2. Table!Open(c)
      <4>1. c \notin sessions \cup Users /\ Cardinality(sessions) < MaxSessions
        BY <2>3, <3>1 DEF Room
      <4>. QED
        BY <2>3, <3>1, <4>1 DEF Table!Open, Table!Cardinality, Cardinality
    <3>. QED
      BY <1>0, <2>3, <3>1, <3>2 DEF Table!Next, StaleAreUsers
  <2>. QED
    BY <1>9, <2>1, <2>2, <2>3 DEF EnsureSession
<1>10. CASE GetImpl(c)
  <2>1. CASE c \in sessions /\ WorkerAt(c, "asked", "using") /\ UNCHANGED table
    <3>1. Users' = Users \cup {c} /\ c \notin Users
      BY <1>0, <2>1, UsersMove, UsersHere
    <3>2. Table!Find(c)
      BY <2>1, <3>1 DEF Table!Find
    <3>. QED
      BY <1>0, <2>1, <3>1, <3>2 DEF Table!Next, StaleAreUsers
  <2>2. CASE WorkerAt(c, "asked", "reply") /\ UNCHANGED table
    <3>1. Users' = Users
      BY <1>0, <2>2, UsersMove, UsersHere
    <3>. QED
      BY <1>0, <2>2, <3>1 DEF Shown, StaleAreUsers
  <2>. QED
    BY <1>10, <2>1, <2>2 DEF GetImpl
<1>11. CASE HandlerDone(c)
  <2>1. WorkerAt(c, "using", "reply") /\ stale' = stale \ {c} /\ UNCHANGED <<sessions, shown>>
    BY <1>11 DEF HandlerDone
  <2>2. Users' = Users \ {c} /\ c \in Users
    BY <1>0, <2>1, UsersMove, UsersHere
  <2>3. Table!GiveBack(c)
    BY <2>1, <2>2 DEF Table!GiveBack
  <2>. QED
    BY <1>0, <2>1, <2>2, <2>3 DEF Table!Next, StaleAreUsers
<1>12. CASE Teardown(c)
  <2>1. CASE c \in sessions /\ WorkerAt(c, "asked", "tearing") /\ UNCHANGED table
    <3>1. Users' = Users \cup {c} /\ c \notin Users
      BY <1>0, <2>1, UsersMove, UsersHere
    <3>2. Table!Find(c)
      BY <2>1, <3>1 DEF Table!Find
    <3>. QED
      BY <1>0, <2>1, <3>1, <3>2 DEF Table!Next, StaleAreUsers
  <2>2. CASE WorkerAt(c, "asked", "reply") /\ UNCHANGED table
    <3>1. Users' = Users
      BY <1>0, <2>2, UsersMove, UsersHere
    <3>. QED
      BY <1>0, <2>2, <3>1 DEF Shown, StaleAreUsers
  <2>. QED
    BY <1>12, <2>1, <2>2 DEF Teardown
<1>13. CASE DropSession(c)
  <2>1. /\ WorkerAt(c, "tearing", "dropping")
        /\ sessions' = sessions \ {c} /\ stale' = stale \ {c} /\ UNCHANGED shown
    BY <1>13 DEF DropSession
  <2>2. Users' = Users \ {c} /\ c \in Users
    BY <1>0, <2>1, UsersMove, UsersHere
  <2>3. Table!Close(c)
    BY <2>1, <2>2 DEF Table!Close
  <2>. QED
    BY <1>0, <2>1, <2>2, <2>3 DEF Table!Next, StaleAreUsers
<1>14. CASE DropTold(c)
  <2>1. /\ WorkerAt(c, "dropping", "reply")
        /\ shown' = shown \ {c} /\ UNCHANGED <<sessions, stale>>
    BY <1>14 DEF DropTold
  <2>2. c \notin sessions
    BY <1>0, <2>1 DEF WorkerAt
  <2>3. Users' = Users
    BY <1>0, <2>1, UsersMove, UsersHere
  <2>4. Table!TellGone(c)
    BY <2>1, <2>2, <2>3 DEF Table!TellGone
  <2>. QED
    BY <1>0, <2>1, <2>3, <2>4 DEF Table!Next, StaleAreUsers
<1>15. CASE Reply(c)
  <2>1. WorkerAt(c, "reply", "top") /\ UNCHANGED table
    BY <1>15 DEF Reply
  <2>2. Users' = Users
    BY <1>0, <2>1, UsersMove, UsersHere
  <2>. QED
    BY <1>0, <2>1, <2>2 DEF Shown, StaleAreUsers
<1>16. CASE ReplyFails(c)
  <2>1. WorkerAt(c, "reply", "left") /\ UNCHANGED table
    BY <1>16 DEF ReplyFails
  <2>2. Users' = Users
    BY <1>0, <2>1, UsersMove, UsersHere
  <2>. QED
    BY <1>0, <2>1, <2>2 DEF Shown, StaleAreUsers
<1>17. CASE Throws(c)
  <2>1. /\ worker[c] \in {"using", "tearing", "dropping"}
        /\ worker' = [worker EXCEPT ![c] = "threw"]
        /\ stale' = stale \ {c} /\ UNCHANGED <<sessions, shown>>
    BY <1>17 DEF Throws
  <2>2. Users' = Users \ {c}
    BY <1>0, <2>1 DEF TypeInv, Users
  <2>3. CASE c \in Users
    <3>1. Table!GiveBack(c)
      BY <2>1, <2>2, <2>3 DEF Table!GiveBack
    <3>. QED
      BY <1>0, <2>1, <2>2, <3>1 DEF Table!Next, StaleAreUsers
  <2>4. CASE c \notin Users
    BY <1>0, <2>1, <2>2, <2>4 DEF Shown, StaleAreUsers
  <2>. QED
    BY <2>3, <2>4
<1>18. CASE Receives(c)
  <2>1. WorkerAt(c, "select", "asked") /\ UNCHANGED table
    BY <1>18 DEF Receives
  <2>2. Users' = Users
    BY <1>0, <2>1, UsersMove, UsersHere
  <2>. QED
    BY <1>0, <2>1, <2>2 DEF Shown, StaleAreUsers
<1>. QED
  BY <1>1, <1>2, <1>3, <1>4, <1>5, <1>6, <1>7, <1>8, <1>9, <1>10, <1>11, <1>12,
     <1>13, <1>14, <1>15, <1>16, <1>17, <1>18 DEF StepOf

(* So is every step of start(), stop() and the accept thread: stop() clears *)
(* the table in one step, whatever the handlers are doing.                  *)
LEMMA ServerMaps ==
    ASSUME Safe, StepOfServer
    PROVE  /\ Table!Next \/ UNCHANGED Shown
           /\ StaleAreUsers'
<1>. USE DEF control, http, table
<1>0. stale \subseteq Users /\ sessions \subseteq Conns
  BY DEF Safe, IInv, TypeInv, StaleAreUsers
<1>1. CASE StopSessions
  <2>1. /\ sessions' = {}
        /\ stale' = stale \cup (sessions \cap Users)
        /\ UNCHANGED <<worker, shown>>
    BY <1>0, <1>1 DEF StopSessions, Users
  <2>2. Users' = Users
    BY <2>1, UsersStay
  <2>3. Table!Clear
    BY <2>1, <2>2 DEF Table!Clear
  <2>. QED
    BY <1>0, <2>1, <2>2, <2>3 DEF Table!Next, StaleAreUsers
<1>2. ASSUME ~StopSessions
      PROVE  UNCHANGED <<worker, sessions, stale, shown>>
  BY <1>2 DEF StepOfServer, Start, StopBegins, StopListening, StopJoins, StopClears,
     StopCloses, StopTold, AcceptorEnds
<1>3. CASE UNCHANGED <<worker, sessions, stale, shown>>
  BY <1>0, <1>3, UsersStay DEF Shown, StaleAreUsers
<1>. QED
  BY <1>1, <1>2, <1>3

(* The server implements the abstract table of sessions: with its sockets,  *)
(* threads and the stages of stop() hidden, every step opens, finds, gives  *)
(* back or closes one session, clears the table, or does nothing to it.     *)
THEOREM ServerRefinesTable == Spec => ImplementsTable
<1>1. Init => Table!Init /\ Safe
  <2>1. Init => Table!Init /\ StaleAreUsers
    BY DEF Init, Table!Init, Users, StaleAreUsers
  <2>. QED
    BY <2>1, Begins DEF Safe
<1>2. ASSUME Safe, [Next]_vars
      PROVE  Safe' /\ (Table!Next \/ UNCHANGED Shown)
  <2>1. CASE UNCHANGED vars
    BY <1>2, <2>1, Keeps, UsersStay DEF vars, Safe, StaleAreUsers, Shown
  <2>2. CASE StepOfServer
    BY <1>2, <2>2, Keeps, ServerMaps DEF Safe
  <2>3. ASSUME NEW c \in Conns, StepOf(c)
        PROVE  Safe' /\ (Table!Next \/ UNCHANGED Shown)
    BY <1>2, <2>3, Keeps, StepOfMaps DEF Safe
  <2>. QED
    BY <1>2, <2>1, <2>2, <2>3, StepCases
<1>3. Safe /\ [Next]_vars => Safe'
  BY <1>2
<1>4. Safe /\ [Next]_vars => [Table!Next]_<<sessions, Users, stale, shown>>
  BY <1>2 DEF Shown
<1>. QED
  BY <1>1, <1>3, <1>4, PTL DEF Spec, ImplementsTable, Table!Spec
=============================================================================
