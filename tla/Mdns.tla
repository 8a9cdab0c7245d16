-------------------------------- MODULE Mdns --------------------------------
(***************************************************************************)
(* Discovery: the publisher that announces the receiver (MdnsPublisher),   *)
(* a browser that looks for it (MdnsBrowser), and the multicast between    *)
(* them, which loses and reorders.  Each of the two has a caller that      *)
(* starts and stops it, also while it runs, and a thread of its own.       *)
(*                                                                         *)
(* What the packets hold is in Dns: here a packet is the start that it     *)
(* announces and whether it is live or a goodbye, and the browser's table  *)
(* is the start whose packet it read last, the address being the same.     *)
(***************************************************************************)
EXTENDS Integers, FiniteSets

CONSTANTS MaxStarts,     \* bound: how often the publisher is started
          MaxQueries,    \* queries its socket holds, further ones are lost
          MaxPackets,    \* packets the browser's socket holds
          InitialAnnounces

ASSUME MdnsAssumption ==
    /\ MaxStarts \in Nat /\ InitialAnnounces \in Nat
    /\ MaxQueries \in Nat \ {0} /\ MaxPackets \in Nat \ {0}

VARIABLES
    app,       \* the caller of the publisher: where it is in start() or stop()
    again,     \* stop() was called by start()
    running,   \* running_
    worker,    \* the thread: where it is in its turn
    count,     \* announce_count_
    sock,      \* sock4_: the port it has, "none" if it is closed
    config,    \* device_: the number of the start that gave it
    stale,     \* live packets sent since stop() began, a ghost
    bapp, bagain, brunning, bworker, bsock,     \* the same of the browser
    found,     \* devices_: 0 if it is empty
    queries,   \* queries that wait in the publisher's socket
    packets    \* packets that wait in the browser's

pub  == <<app, again, running, worker, count, sock, config, stale>>
brw  == <<bapp, bagain, brunning, bworker, bsock, found>>
net  == <<queries, packets>>
vars == <<pub, brw, net>>

Ports   == {"mdns", "other"}           \* 5353, or any when that is taken
Packet  == [start : 0..MaxStarts, live : BOOLEAN]

TypeInv ==
    /\ app \in {"idle", "goodbye1", "goodbye2", "join", "start"}
    /\ worker \in {"none", "loop", "select", "answer1", "answer2", "due",
                   "announce1", "announce2"}
    /\ again \in BOOLEAN /\ running \in BOOLEAN
    /\ count \in 0..InitialAnnounces /\ config \in 0..MaxStarts /\ stale \in 0..4
    /\ sock \in Ports \cup {"none"} /\ bsock \in Ports \cup {"none"}
    /\ bapp \in {"idle", "join", "start"}
    /\ bworker \in {"none", "loop", "select"}
    /\ bagain \in BOOLEAN /\ brunning \in BOOLEAN
    /\ found \in 0..MaxStarts /\ queries \in 0..MaxQueries /\ packets \subseteq Packet

Init ==
    /\ app = "idle" /\ again = FALSE /\ running = FALSE /\ worker = "none"
    /\ count = 0 /\ sock = "none" /\ config = 0 /\ stale = 0
    /\ bapp = "idle" /\ bagain = FALSE /\ brunning = FALSE /\ bworker = "none"
    /\ bsock = "none" /\ found = 0
    /\ queries = 0 /\ packets = {}

-----------------------------------------------------------------------------
(* The publisher. *)

\* A packet is lost, or waits for the browser if that is bound to the port.
Multicast(live) ==
    packets' \in {packets} \cup
        {p \in {packets \cup {[start |-> config, live |-> live]}} :
            bsock = "mdns" /\ Cardinality(p) <= MaxPackets}

\* One of the two packets of an announcement.
Send == Multicast(TRUE) /\ stale' = (IF running THEN 0 ELSE stale + 1)

\* stop(), called alone or first of all by start().
Stop(by) ==
    /\ app = "idle" /\ app' = IF running THEN "goodbye1" ELSE "join"
    /\ by => config < MaxStarts
    /\ running' = FALSE
    /\ again' = by /\ stale' = 0
    /\ UNCHANGED <<worker, count, sock, config, brw, net>>

Goodbye ==
    /\ app \in {"goodbye1", "goodbye2"}
    /\ app' = IF app = "goodbye1" THEN "goodbye2" ELSE "join"
    /\ Multicast(FALSE)
    /\ UNCHANGED <<again, running, worker, count, sock, config, stale, brw, queries>>

JoinUnwaited ==
    /\ app = "join"
    /\ app' = IF again THEN "start" ELSE "idle"
    /\ sock' = "none" /\ queries' = 0 /\ stale' = 0
    /\ UNCHANGED <<again, running, worker, count, config, brw, packets>>

\* What waits in the socket goes with it.
Join ==
    /\ app = "join" /\ worker = "none"
    /\ app' = IF again THEN "start" ELSE "idle"
    /\ sock' = "none" /\ queries' = 0 /\ stale' = 0
    /\ UNCHANGED <<again, running, worker, count, config, brw, packets>>

\* The rest of start(): the socket cannot be had, or has one of the ports.
StartFails ==
    /\ app = "start" /\ app' = "idle" /\ again' = FALSE
    /\ config' = config + 1
    /\ UNCHANGED <<running, worker, count, sock, stale, brw, net>>

StartUp(port) ==
    /\ app = "start" /\ app' = "idle" /\ again' = FALSE
    /\ config' = config + 1 /\ sock' = port
    /\ running' = TRUE /\ worker' = "loop" /\ count' = 0
    /\ stale' = 0
    /\ UNCHANGED <<brw, net>>

\* The thread: while (running_).
LoopForever ==
    /\ worker = "loop"
    /\ worker' = "select"
    /\ UNCHANGED <<app, again, running, count, sock, config, stale, brw, net>>

Loop ==
    /\ worker = "loop"
    /\ worker' = IF running THEN "select" ELSE "none"
    /\ UNCHANGED <<app, again, running, count, sock, config, stale, brw, net>>

\* select() fails, finds nothing or nothing that asks for us, or a query.
SelectFails ==
    /\ worker = "select" /\ worker' = "loop"
    /\ UNCHANGED <<app, again, running, count, sock, config, stale, brw, net>>

NothingAsked ==
    /\ worker = "select" /\ worker' = "due"
    /\ UNCHANGED <<app, again, running, count, sock, config, stale, brw, net>>

TakeQueryUnanswered ==
    /\ worker = "select" /\ queries > 0
    /\ queries' = queries - 1
    /\ worker' = "due"
    /\ UNCHANGED <<app, again, running, count, sock, config, stale, brw, packets>>

TakeQuery ==
    /\ worker = "select" /\ queries > 0
    /\ queries' = queries - 1
    /\ worker' = "answer1"
    /\ UNCHANGED <<app, again, running, count, sock, config, stale, brw, packets>>

\* Someone else asks.
OthersAsk ==
    /\ worker = "select" /\ sock = "mdns"
    /\ worker' = "answer1"
    /\ UNCHANGED <<app, again, running, count, sock, config, stale, brw, net>>

Answer ==
    /\ worker \in {"answer1", "answer2"}
    /\ worker' = IF worker = "answer1" THEN "answer2" ELSE "due"
    /\ Send
    /\ UNCHANGED <<app, again, running, count, sock, config, brw, queries>>

\* 1.5 s have passed since the last announcement, or not.
AnnounceDue ==
    /\ worker = "due"
    /\ worker' \in {"loop"} \cup (IF count < InitialAnnounces THEN {"announce1"} ELSE {})
    /\ UNCHANGED <<app, again, running, count, sock, config, stale, brw, net>>

Announce ==
    /\ \/ /\ worker = "announce1" /\ worker' = "announce2"
          /\ UNCHANGED count
       \/ /\ worker = "announce2" /\ worker' = "loop"
          /\ count' = count + 1
    /\ Send
    /\ UNCHANGED <<app, again, running, sock, config, brw, queries>>

-----------------------------------------------------------------------------
(* The browser. *)

BrowserStop(by) ==
    /\ bapp = "idle" /\ bapp' = "join"
    /\ brunning' = FALSE /\ bagain' = by
    /\ UNCHANGED <<bworker, bsock, found, pub, net>>

BrowserJoin ==
    /\ bapp = "join" /\ bworker = "none"
    /\ bapp' = IF bagain THEN "start" ELSE "idle"
    /\ bsock' = "none" /\ packets' = {}
    /\ UNCHANGED <<bagain, brunning, bworker, found, pub, queries>>

BrowserStartFails ==
    /\ bapp = "start" /\ bapp' = "idle" /\ bagain' = FALSE
    /\ UNCHANGED <<brunning, bworker, bsock, found, pub, net>>

BrowserStartUp(port) ==
    /\ bapp = "start" /\ bapp' = "idle" /\ bagain' = FALSE
    /\ bsock' = port /\ brunning' = TRUE /\ bworker' = "loop"
    /\ UNCHANGED <<found, pub, net>>

\* A turn begins.  No query is due, or it is lost, or it waits for the publisher.
BrowserLoop ==
    /\ bworker = "loop"
    /\ bworker' = IF brunning THEN "select" ELSE "none"
    /\ queries' \in {queries} \cup
          (IF brunning /\ sock = "mdns" /\ queries < MaxQueries THEN {queries + 1} ELSE {})
    /\ UNCHANGED <<bapp, bagain, brunning, bsock, found, pub, packets>>

\* select() fails, or finds nothing that is a response.
NothingHeard ==
    /\ bworker = "select" /\ bworker' = "loop"
    /\ UNCHANGED <<bapp, bagain, brunning, bsock, found, pub, net>>

\* parse_response(): the time to live is not looked at.
Hear ==
    /\ bworker = "select"
    /\ \E p \in packets : packets' = packets \ {p} /\ found' = p.start
    /\ bworker' = "loop"
    /\ UNCHANGED <<bapp, bagain, brunning, bsock, pub, queries>>

-----------------------------------------------------------------------------
PublisherThread == Loop \/ SelectFails \/ NothingAsked \/ TakeQuery
                   \/ OthersAsk \/ Answer \/ AnnounceDue \/ Announce
PublisherCall   == Goodbye \/ Join \/ StartFails \/ \E port \in Ports : StartUp(port)
BrowserThread   == BrowserLoop \/ NothingHeard \/ Hear
BrowserCall     == BrowserJoin \/ BrowserStartFails
                   \/ \E port \in Ports : BrowserStartUp(port)

Next == \/ PublisherThread \/ PublisherCall \/ \E by \in BOOLEAN : Stop(by)
        \/ BrowserThread \/ BrowserCall \/ \E by \in BOOLEAN : BrowserStop(by)

\* Threads and calls go on, time passes; select() does not always fail nor
\* find something else first; of many datagrams some arrive.
Fairness ==
    /\ WF_vars(PublisherThread) /\ WF_vars(PublisherCall)
    /\ WF_vars(BrowserThread) /\ WF_vars(BrowserCall)
    /\ SF_vars(TakeQuery) /\ SF_vars(Hear)
    /\ SF_vars(BrowserLoop /\ queries' # queries)
    /\ SF_vars(Answer /\ packets' # packets)

Spec == Init /\ [][Next]_vars /\ Fairness

-----------------------------------------------------------------------------
(* Properties. *)

\* When stop() has returned, the thread is gone and nothing is sent or called
\* back; while it runs, only the turn that was under way still announces, so at
\* most two announcements of two packets follow the goodbye; and no thread
\* uses a socket that is closed (stop() of mdns_publisher.cpp and of
\* mdns_browser.cpp).
StopIsQuiet ==
    /\ app = "idle" /\ ~running => worker = "none"
    /\ bapp = "idle" /\ ~brunning => bworker = "none"
    /\ worker # "none" => sock # "none"
    /\ bworker # "none" => bsock # "none"
    /\ stale <= 4

\* A call of start() or stop() returns (both files).
StopReturns == /\ app # "idle" ~> app = "idle"
               /\ bapp # "idle" ~> bapp = "idle"

\* While the publisher and the browser run, both at the port of mDNS, the
\* browser learns what the publisher was started with last, however many
\* packets are lost and whoever was there first (mdns_worker() and
\* handle_query() of mdns_publisher.cpp, worker() of mdns_browser.cpp).
Up(c) == running /\ sock = "mdns" /\ config = c /\ brunning /\ bsock = "mdns"
DeviceFound == \A c \in 1..MaxStarts : Up(c) ~> (found = c \/ ~Up(c))
=============================================================================
