---------------------------- MODULE SessionTable ----------------------------
(***************************************************************************)
(* What ServerImpl promises of its sessions (src/core/airplay_server_impl  *)
(* .h): a bounded table with at most one session per connection.  The      *)
(* handler of a connection opens or finds its session, uses it for a while *)
(* and gives it back or closes it; nobody else touches it but the stop of  *)
(* the server, which empties the table under the hands of the users and    *)
(* leaves each of them an orphan.  The application is told of a session    *)
(* when it is opened and that it is gone only when it is.  A session is    *)
(* named by its connection.                                                *)
(***************************************************************************)
EXTENDS Naturals, FiniteSets

CONSTANTS Conns,         \* the connections
          MaxSessions    \* places in the table

VARIABLES sessions,      \* the table
          users,         \* connections whose handler works on its session
          orphans,       \* those of them whose session was cleared away
          told           \* sessions the application knows of

Init == sessions = {} /\ users = {} /\ orphans = {} /\ told = {}

Open(c) ==
    /\ c \notin sessions \cup users
    /\ Cardinality(sessions) < MaxSessions
    /\ sessions' = sessions \cup {c}
    /\ users' = users \cup {c}
    /\ told' = told \cup {c}
    /\ UNCHANGED orphans

Find(c) ==
    /\ c \in sessions \ users
    /\ users' = users \cup {c}
    /\ UNCHANGED <<sessions, orphans, told>>

GiveBack(c) ==
    /\ c \in users
    /\ users' = users \ {c}
    /\ orphans' = orphans \ {c}
    /\ UNCHANGED <<sessions, told>>

Close(c) ==
    /\ c \in users
    /\ sessions' = sessions \ {c}
    /\ users' = users \ {c}
    /\ orphans' = orphans \ {c}
    /\ UNCHANGED told

TellGone(c) ==
    /\ c \notin sessions
    /\ told' = told \ {c}
    /\ UNCHANGED <<sessions, users, orphans>>

Clear ==
    /\ sessions' = {}
    /\ orphans' = orphans \cup (sessions \cap users)
    /\ UNCHANGED <<users, told>>

Next ==
    \/ \E c \in Conns : Open(c) \/ Find(c) \/ GiveBack(c) \/ Close(c) \/ TellGone(c)
    \/ Clear

Spec == Init /\ [][Next]_<<sessions, users, orphans, told>>
=============================================================================
