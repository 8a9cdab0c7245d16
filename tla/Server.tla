------------------------------- MODULE Server -------------------------------
(* The receiver as a server: the HTTP connections and their threads         *)
(* (net/http_server.cpp) and the table of sessions they share               *)
(* (core/airplay_server_impl.cpp), with start() and stop() of the           *)
(* application.  What a handler does to its session is in Session; here it  *)
(* is the time a handler spends with the raw SessionImpl*, which it uses    *)
(* after the lock of the table is given back.  A connection id is used      *)
(* once: next_conn_id_ only grows.                                          *)
EXTENDS Naturals, FiniteSets

CONSTANTS
    Conns,        \* the connections clients may open
    MaxSessions   \* ServerConfig::max_sessions

ASSUME ConnsFinite == IsFiniteSet(Conns)
ASSUME MaxSessionsNat == MaxSessions \in Nat

VARIABLES
    running,      \* ServerImpl::running_
    serving,      \* HttpServer::running_
    listening,    \* listen_sock_ is open
    acceptor,     \* the accept thread
    stopper,      \* where stop() is
    conns,        \* HttpServer::connections_
    toClose,      \* to_close of HttpServer::stop
    sock,         \* the socket of each connection
    worker,       \* the thread of each connection
    sessions,     \* ServerImpl::sessions_
    stale,        \* connections whose handler uses a session that is freed
    shown         \* sessions the application was told of and not told gone

http == <<serving, listening, acceptor>>
control == <<running, stopper, toClose>>
table == <<sessions, stale, shown>>
vars == <<running, serving, listening, acceptor, stopper, conns, toClose, sock,
          worker, sessions, stale, shown>>

(* "eof": the client has hung up and the server has not noticed yet;        *)
(* "ending": likewise, with a last request in front of the end.             *)
Sockets == {"new", "backlog", "taken", "open", "ending", "eof", "closed"}

(* "asked": a request is read and parsed, its handler has not come to the   *)
(* table yet; "left": out of connections_, its Connection not destroyed     *)
(* yet; "threw": ended by an exception of a handler, its Connection still   *)
(* in the map.                                                              *)
Workers == {"none", "begun", "top", "select", "asked", "using", "tearing",
            "dropping", "reply", "left", "ended", "threw"}

Stops == {"idle", "listen", "join", "clear", "close", "sessions", "told"}

Init ==
    /\ running = FALSE /\ serving = FALSE /\ listening = FALSE
    /\ acceptor = "none" /\ stopper = "idle"
    /\ conns = {} /\ toClose = {}
    /\ sock = [c \in Conns |-> "new"] /\ worker = [c \in Conns |-> "none"]
    /\ sessions = {} /\ stale = {} /\ shown = {}

WorkerAt(c, from, to) ==
    worker[c] = from /\ worker' = [worker EXCEPT ![c] = to]
-----------------------------------------------------------------------------
(* start(), and stop() of the server with the stop() of its HTTP server     *)
(* inside.  The application does not overlap the two.  A start() that       *)
(* cannot bind puts running_ back and leaves everything as it was.          *)
Start ==
    /\ ~running /\ stopper = "idle"
    /\ running' = TRUE /\ serving' = TRUE /\ listening' = TRUE
    /\ acceptor' = "live"
    /\ UNCHANGED <<stopper, conns, toClose, sock, worker, table>>

(* Variant: the HTTP threads are not told that the server stops.            *)
StopBeginsServing ==
    /\ running /\ stopper = "idle"
    /\ running' = FALSE
    /\ stopper' = "listen"
    /\ UNCHANGED <<http, conns, toClose, sock, worker, table>>

StopBegins ==
    /\ running /\ stopper = "idle"
    /\ running' = FALSE /\ serving' = FALSE
    /\ stopper' = "listen"
    /\ UNCHANGED <<listening, acceptor, conns, toClose, sock, worker, table>>

(* Clients still in the backlog are refused.                                *)
StopListening ==
    /\ stopper = "listen" /\ stopper' = "join"
    /\ listening' = FALSE
    /\ sock' = [c \in Conns |-> IF sock[c] = "backlog" THEN "closed" ELSE sock[c]]
    /\ UNCHANGED <<running, serving, acceptor, conns, toClose, worker, table>>

(* Variant: the connections are taken from the map without waiting for the  *)
(* accept thread.                                                           *)
StopJoinsNobody ==
    /\ stopper = "join" /\ stopper' = "clear"
    /\ UNCHANGED <<running, http, conns, toClose, sock, worker, table>>

StopJoins ==
    /\ stopper = "join" /\ stopper' = "clear"
    /\ acceptor = "ended" /\ acceptor' = "none"
    /\ UNCHANGED <<running, serving, listening, conns, toClose, sock, worker, table>>

StopClears ==
    /\ stopper = "clear" /\ stopper' = "close"
    /\ toClose' = conns /\ conns' = {}
    /\ UNCHANGED <<running, http, sock, worker, table>>

StopCloses ==
    /\ stopper = "close" /\ stopper' = "sessions"
    /\ sock' = [c \in Conns |-> IF c \in toClose THEN "closed" ELSE sock[c]]
    /\ toClose' = {}
    /\ UNCHANGED <<running, http, conns, worker, table>>

(* Every session is disconnected and destroyed under the lock of the table; *)
(* a handler that already has its pointer keeps it.                         *)
StopSessions ==
    /\ stopper = "sessions" /\ stopper' = "told"
    /\ sessions' = {}
    /\ stale' = stale \cup {c \in sessions : worker[c] \in {"using", "tearing"}}
    /\ UNCHANGED <<running, http, conns, toClose, sock, worker, shown>>

(* on_stopped.                                                              *)
StopTold ==
    /\ stopper = "told" /\ stopper' = "idle"
    /\ UNCHANGED <<running, http, conns, toClose, sock, worker, table>>
-----------------------------------------------------------------------------
(* The clients.                                                             *)
Connect(c) ==
    /\ listening /\ sock[c] = "new"
    /\ sock' = [sock EXCEPT ![c] = "backlog"]
    /\ UNCHANGED <<control, http, conns, worker, table>>

HangUp(c) ==
    /\ sock[c] = "open"
    /\ \E s \in {"ending", "eof"} : sock' = [sock EXCEPT ![c] = s]
    /\ UNCHANGED <<control, http, conns, worker, table>>

(* The accept thread: it looks at running_ only when its select is over, so *)
(* it may take one more client after stop() has begun, and it registers the *)
(* connection only some time after accept() took it.                        *)
Accept(c) ==
    /\ acceptor = "live" /\ acceptor' = "busy"
    /\ sock[c] = "backlog"
    /\ sock' = [sock EXCEPT ![c] = "taken"]
    /\ UNCHANGED <<control, serving, listening, conns, worker, table>>

Registers(c) ==
    /\ acceptor = "busy" /\ acceptor' = "live"
    /\ sock[c] = "taken"
    /\ sock' = [sock EXCEPT ![c] = "open"]
    /\ conns' = conns \cup {c}
    /\ WorkerAt(c, "none", "begun")
    /\ UNCHANGED <<control, serving, listening, table>>

AcceptorEnds ==
    /\ acceptor = "live" /\ ~serving
    /\ acceptor' = "ended"
    /\ UNCHANGED <<control, serving, listening, conns, sock, worker, table>>
-----------------------------------------------------------------------------
(* connection_worker.  The thread holds a weak_ptr until it runs.           *)
WorkerBegins(c) ==
    /\ WorkerAt(c, "begun", IF c \in conns \cup toClose THEN "top" ELSE "ended")
    /\ UNCHANGED <<control, http, conns, sock, table>>

Polls(c) ==
    /\ serving
    /\ WorkerAt(c, "top", "select")
    /\ UNCHANGED <<control, http, conns, sock, table>>

TimesOut(c) ==
    /\ sock[c] = "open"
    /\ WorkerAt(c, "select", "top")
    /\ UNCHANGED <<control, http, conns, sock, table>>

(* Variant: only the end of the server ends a worker, not the end of its    *)
(* client.                                                                  *)
LoopOverServed(c) == worker[c] = "top" /\ ~serving

(* Variant: a socket closed under the worker goes unnoticed.                *)
LoopOverFlag(c) ==
    \/ worker[c] = "top" /\ ~serving
    \/ worker[c] = "select" /\ sock[c] = "eof"

(* running_ is clear, the socket is closed, or recv() sees the client gone. *)
LoopOver(c) ==
    \/ worker[c] = "top" /\ ~serving
    \/ worker[c] = "select" /\ sock[c] \in {"eof", "closed"}

Leaves(c) ==
    /\ LoopOver(c)
    /\ worker' = [worker EXCEPT ![c] = "left"]
    /\ conns' = conns \ {c}
    /\ UNCHANGED <<control, http, sock, table>>

(* recv() reads a request.  What becomes of the socket after that the       *)
(* worker does not see before it replies: the client may hang up, stop()    *)
(* may close it and return, and the handler runs all the same.              *)
Receives(c) ==
    /\ sock[c] \in {"open", "ending"}
    /\ sock' = [sock EXCEPT ![c] = IF @ = "ending" THEN "eof" ELSE @]
    /\ WorkerAt(c, "select", "asked")
    /\ UNCHANGED <<control, http, conns, table>>

(* What came is not a request: the connection is given up.                  *)
ParseFails(c) ==
    /\ sock[c] \in {"open", "ending"}
    /\ WorkerAt(c, "select", "left")
    /\ conns' = conns \ {c}
    /\ UNCHANGED <<control, http, sock, table>>

(* The last reference to the Connection goes.                               *)
WorkerEnds(c) ==
    /\ WorkerAt(c, "left", "ended")
    /\ sock' = [sock EXCEPT ![c] = "closed"]
    /\ UNCHANGED <<control, http, conns, table>>

(* Variant: one session too many.                                           *)
RoomForOneMore == Cardinality(sessions) <= MaxSessions

Room == Cardinality(sessions) < MaxSessions

(* Variant: a full table makes room by dropping another session.            *)
EnsureSessionEvicting(c) ==
    /\ WorkerAt(c, "asked", "using")
    /\ sessions' = (IF c \in sessions \/ Room THEN sessions ELSE {}) \cup {c}
    /\ shown' = shown \cup {c}
    /\ UNCHANGED <<control, http, conns, sock, stale>>

(* A request that needs a session (ANNOUNCE, SETUP, /pair-setup): it is     *)
(* made and shown to the application under the lock, unless the table is    *)
(* full; the handler goes on with its address, or fails.  Neither the       *)
(* socket nor running_ is looked at: a request read before stop() may make  *)
(* its session after stop() has cleared the table and returned.             *)
EnsureSession(c) ==
    /\ \/ /\ c \in sessions
          /\ WorkerAt(c, "asked", "using")
          /\ UNCHANGED table
       \/ /\ c \notin sessions /\ ~Room
          /\ WorkerAt(c, "asked", "reply")
          /\ UNCHANGED table
       \/ /\ c \notin sessions /\ Room
          /\ WorkerAt(c, "asked", "using")
          /\ sessions' = sessions \cup {c}
          /\ shown' = shown \cup {c}
          /\ UNCHANGED stale
    /\ UNCHANGED <<control, http, conns, sock>>

(* A request that uses the session if there is one (RECORD, PAUSE, FLUSH,   *)
(* /rate, /stop, /scrub, SET_PARAMETER, photos), or one that needs none.    *)
GetImpl(c) ==
    /\ WorkerAt(c, "asked", IF c \in sessions THEN "using" ELSE "reply")
    /\ UNCHANGED <<control, http, conns, sock, table>>

HandlerDone(c) ==
    /\ WorkerAt(c, "using", "reply")
    /\ stale' = stale \ {c}
    /\ UNCHANGED <<control, http, conns, sock, sessions, shown>>

(* TEARDOWN: the session is stopped through its pointer, taken out of the   *)
(* table, disconnected, and the application told.                           *)
Teardown(c) ==
    /\ WorkerAt(c, "asked", IF c \in sessions THEN "tearing" ELSE "reply")
    /\ UNCHANGED <<control, http, conns, sock, table>>

(* Variant: the application is told and the session stays in the table.     *)
DropTellsOnly(c) ==
    /\ WorkerAt(c, "tearing", "dropping")
    /\ shown' = shown \ {c}
    /\ UNCHANGED <<control, http, conns, sock, sessions, stale>>

DropSession(c) ==
    /\ WorkerAt(c, "tearing", "dropping")
    /\ sessions' = sessions \ {c}
    /\ stale' = stale \ {c}
    /\ UNCHANGED <<control, http, conns, sock, shown>>

DropTold(c) ==
    /\ WorkerAt(c, "dropping", "reply")
    /\ shown' = shown \ {c}
    /\ UNCHANGED <<control, http, conns, sock, sessions, stale>>

(* The reply cannot be sent on a closed socket.  To a client that is gone   *)
(* it may or may not fail at once, and to one that does not read it fails   *)
(* after ten seconds.                                                       *)
Reply(c) ==
    /\ sock[c] # "closed"
    /\ WorkerAt(c, "reply", "top")
    /\ UNCHANGED <<control, http, conns, sock, table>>

ReplyFails(c) ==
    /\ WorkerAt(c, "reply", "left")
    /\ conns' = conns \ {c}
    /\ UNCHANGED <<control, http, sock, table>>

(* A callback or a renderer of the application throws: the worker is over   *)
(* and its connection stays in the map.                                     *)
Throws(c) ==
    /\ worker[c] \in {"using", "tearing", "dropping"}
    /\ worker' = [worker EXCEPT ![c] = "threw"]
    /\ stale' = stale \ {c}
    /\ UNCHANGED <<control, http, conns, sock, sessions, shown>>
-----------------------------------------------------------------------------
Stopping ==
    \/ StopListening \/ StopJoins \/ StopClears
    \/ StopCloses \/ StopSessions \/ StopTold

Request(c) == Receives(c) \/ ParseFails(c)

Dispatch(c) == EnsureSession(c) \/ GetImpl(c) \/ Teardown(c)

GoesOn(c) ==
    \/ WorkerBegins(c) \/ Polls(c) \/ TimesOut(c) \/ Leaves(c) \/ WorkerEnds(c)
    \/ Dispatch(c) \/ HandlerDone(c) \/ DropSession(c) \/ DropTold(c)
    \/ Reply(c) \/ ReplyFails(c)

Next ==
    \/ Start \/ StopBegins \/ Stopping \/ AcceptorEnds
    \/ \E c \in Conns : \/ Connect(c) \/ HangUp(c) \/ Accept(c) \/ Registers(c)
                        \/ GoesOn(c) \/ Request(c) \/ Throws(c)

(* The threads run on, and so does a stop() under way.  What a client sent  *)
(* before it hung up is read; clients owe nothing else, and nobody has to   *)
(* stop the server.                                                         *)
Fairness ==
    /\ WF_vars(Stopping) /\ WF_vars(AcceptorEnds)
    /\ WF_vars(\E c \in Conns : Registers(c))
    /\ \A c \in Conns : WF_vars(GoesOn(c))
    /\ \A c \in Conns : WF_vars(sock[c] = "ending" /\ Request(c))

Spec == Init /\ [][Next]_vars

FairSpec == Spec /\ Fairness
-----------------------------------------------------------------------------
(* Type invariant.                                                          *)
TypeInv ==
    /\ running \in BOOLEAN /\ serving \in BOOLEAN /\ listening \in BOOLEAN
    /\ acceptor \in {"none", "live", "busy", "ended"}
    /\ stopper \in Stops
    /\ conns \subseteq Conns /\ toClose \subseteq Conns
    /\ sock \in [Conns -> Sockets] /\ worker \in [Conns -> Workers]
    /\ sessions \subseteq Conns /\ stale \subseteq Conns /\ shown \subseteq Conns

(* However many connections ask at once, the table never holds more than    *)
(* max_sessions (airplay_config.h:118).                                     *)
SessionsBounded == Cardinality(sessions) <= MaxSessions

(* The variables have their types and the table its bound.                  *)
WellFormed == TypeInv /\ SessionsBounded

(* The application hears of a session before anyone can find it in the      *)
(* table, and that it is gone only when nobody can any more.                *)
TableIsShown == sessions \subseteq shown

(* All that connections do to the table at once, each with the lock given   *)
(* back before its handler goes on, is what SessionTable says of sessions   *)
(* opened, found, given back and closed one at a time, each by its own      *)
(* connection: of two connections that ask together, one gets the last      *)
(* place; the application knows of all that is in the table; and what a     *)
(* handler works on is in the table or was cleared away by stop() alone.    *)
Users == {c \in Conns : worker[c] \in {"using", "tearing"}}

Table == INSTANCE SessionTable WITH users <- Users, orphans <- stale, told <- shown

ImplementsTable == Table!Spec

(* The session a handler works on with its raw pointer is the one in the    *)
(* table: no other connection takes it out or destroys it, only stop() can  *)
(* (and then the handler is left with a session that is gone, see stale).   *)
HandlerHasSession ==
    \A c \in Conns : worker[c] \in {"using", "tearing"} => c \in sessions \cup stale

(* When stop() has returned no client is connected, nor on its way in: the  *)
(* connection the accept thread took last is closed like the others.  At    *)
(* most a worker that has just left the map is about to close its own.      *)
StoppedIsClosed ==
    ~running /\ stopper = "idle" =>
        \A c \in Conns : sock[c] \in {"new", "closed"} \/ worker[c] = "left"

(* stop() returns.                                                          *)
StopReturns == stopper # "idle" ~> stopper = "idle"

(* A client that hangs up is noticed and its connection closed, whatever    *)
(* its handler was doing, unless the handler threw.                         *)
HungUpIsClosed ==
    \A c \in Conns :
        sock[c] \in {"ending", "eof"} ~> sock[c] = "closed" \/ worker[c] = "threw"

(* No worker outlives the stop of the server for ever, even when the server *)
(* is started again before the worker has looked at running_.               *)
WorkersEnd ==
    \A c \in Conns :
        worker[c] # "none" /\ sock[c] = "closed" ~> worker[c] \in {"ended", "threw"}

(* The application is told of the end of every session: on TEARDOWN, when   *)
(* the connection is lost and on stop() (airplay_server.h:51).              *)
EndIsTold ==
    \A c \in shown : worker[c] # "ended"
=============================================================================
