----------------------------- MODULE MdnsProofs -----------------------------
(***************************************************************************)
(* What stop() of the publisher and of the browser leaves behind, for any  *)
(* number of starts, queries and packets.  The strengthening says where    *)
(* the thread can be while its caller is in start() or stop(), and how     *)
(* many packets the turn under way can still send (Left).                  *)
(***************************************************************************)
EXTENDS Mdns, TLAPS

\* The packets that the publisher's turn can still send.
Left == IF worker \in {"select", "answer1"} THEN 4
        ELSE IF worker = "answer2" THEN 3
        ELSE IF worker \in {"due", "announce1"} THEN 2
        ELSE IF worker = "announce2" THEN 1 ELSE 0

PublisherInv ==
    /\ app # "idle" => ~running
    /\ app = "start" => worker = "none" /\ again
    /\ app # "idle" /\ again => config < MaxStarts
    /\ app = "idle" /\ ~running => worker = "none"
    /\ worker # "none" => sock # "none"
    /\ worker \in {"announce1", "announce2"} => count < InitialAnnounces

StaleInv ==
    /\ running => stale = 0
    /\ ~running => stale + Left <= 4

BrowserInv ==
    /\ bapp # "idle" => ~brunning
    /\ bapp = "start" => bworker = "none"
    /\ bapp = "idle" /\ ~brunning => bworker = "none"
    /\ bworker # "none" => bsock # "none"

Inv == TypeInv /\ PublisherInv /\ StaleInv /\ BrowserInv

\* Nothing but what the publisher's side reads and writes matters to its
\* invariants, and the same for the browser.
LEMMA BrowserKeepsPublisher ==
    ASSUME PublisherInv, StaleInv, UNCHANGED pub
    PROVE  PublisherInv' /\ StaleInv'
BY DEF PublisherInv, StaleInv, Left, pub

LEMMA PublisherKeepsBrowser ==
    ASSUME BrowserInv, UNCHANGED brw
    PROVE  BrowserInv'
BY DEF BrowserInv, brw

\* A packet sent keeps what waits for the browser a set of packets.
LEMMA MulticastTyped ==
    ASSUME TypeInv, NEW live \in BOOLEAN, Multicast(live)
    PROVE  packets' \subseteq Packet
BY DEF TypeInv, Multicast, Packet

LEMMA StopKeeps ==
    ASSUME Inv, NEW by \in BOOLEAN, Stop(by)
    PROVE  Inv'
<1>1. TypeInv'
  <2>1. app' \in {"goodbye1", "join"} /\ stale' \in 0..4
    BY DEF Stop
  <2>2. again' \in BOOLEAN /\ running' \in BOOLEAN
    BY DEF Stop
  <2>3. UNCHANGED <<worker, count, sock, config, brw, net>>
    BY DEF Stop
  <2> QED
    BY <2>1, <2>2, <2>3 DEF Inv, TypeInv, brw, net
<1>2. PublisherInv'
  BY DEF Inv, TypeInv, PublisherInv, Stop
<1>3. StaleInv'
  BY DEF Inv, TypeInv, StaleInv, Left, Stop
<1>4. BrowserInv'
  BY PublisherKeepsBrowser DEF Inv, Stop
<1> QED
  BY <1>1, <1>2, <1>3, <1>4 DEF Inv

LEMMA PublisherCallKeeps ==
    ASSUME MdnsAssumption, Inv, PublisherCall
    PROVE  Inv'
<1>1. CASE Goodbye
  <2>1. packets' \subseteq Packet
    BY <1>1, MulticastTyped DEF Inv, Goodbye
  <2>2. TypeInv'
    BY <1>1, <2>1 DEF Inv, TypeInv, Goodbye, brw
  <2>3. PublisherInv' /\ StaleInv'
    BY <1>1 DEF Inv, TypeInv, PublisherInv, StaleInv, Left, Goodbye
  <2> QED
    BY <1>1, <2>2, <2>3, PublisherKeepsBrowser DEF Inv, Goodbye
<1>2. CASE Join
  <2>1. TypeInv'
    BY <1>2, MdnsAssumption DEF MdnsAssumption, Inv, TypeInv, Join, brw
  <2>2. PublisherInv' /\ StaleInv'
    BY <1>2 DEF Inv, TypeInv, PublisherInv, StaleInv, Left, Join
  <2> QED
    BY <1>2, <2>1, <2>2, PublisherKeepsBrowser DEF Inv, Join
<1>3. CASE StartFails
  <2>0. config' \in 0..MaxStarts
    BY <1>3, MdnsAssumption DEF MdnsAssumption, Inv, TypeInv, PublisherInv, StartFails
  <2>1. TypeInv'
    BY <1>3, <2>0 DEF Inv, TypeInv, StartFails, brw, net
  <2>2. PublisherInv' /\ StaleInv'
    BY <1>3 DEF Inv, TypeInv, PublisherInv, StaleInv, Left, StartFails
  <2> QED
    BY <1>3, <2>1, <2>2, PublisherKeepsBrowser DEF Inv, StartFails
<1>4. ASSUME NEW port \in Ports, StartUp(port)
      PROVE  Inv'
  <2>0. config' \in 0..MaxStarts
    BY <1>4, MdnsAssumption DEF MdnsAssumption, Inv, TypeInv, PublisherInv, StartUp
  <2>a. /\ app' = "idle" /\ again' = FALSE /\ running' = TRUE /\ worker' = "loop"
        /\ count' = 0 /\ stale' = 0 /\ sock' \in Ports
    BY <1>4 DEF StartUp
  <2>b. UNCHANGED <<brw, net>>
    BY <1>4 DEF StartUp
  <2>c. count' \in 0..InitialAnnounces /\ stale' \in 0..4
    BY <2>a, MdnsAssumption DEF MdnsAssumption
  <2>d. again' \in BOOLEAN /\ running' \in BOOLEAN
    BY <2>a
  <2>1. TypeInv'
    BY <2>a, <2>b, <2>c, <2>d, <2>0 DEF Inv, TypeInv, brw, net
  <2>2. PublisherInv' /\ StaleInv'
    BY <1>4 DEF Inv, TypeInv, PublisherInv, StaleInv, Left, StartUp, Ports
  <2> QED
    BY <1>4, <2>1, <2>2, PublisherKeepsBrowser DEF Inv, StartUp
<1> QED
  BY <1>1, <1>2, <1>3, <1>4 DEF PublisherCall

\* A step of the publisher's thread that sends nothing.
LEMMA SilentStepKeeps ==
    ASSUME MdnsAssumption, Inv,
           Loop \/ SelectFails \/ NothingAsked \/ TakeQuery \/ OthersAsk \/ AnnounceDue
    PROVE  Inv'
<1>1. TypeInv'
  BY MdnsAssumption DEF MdnsAssumption, Inv, TypeInv, Loop, SelectFails, NothingAsked,
                        TakeQuery, OthersAsk, AnnounceDue, brw, net
<1>2. PublisherInv'
  BY DEF Inv, TypeInv, PublisherInv, Loop, SelectFails, NothingAsked, TakeQuery, OthersAsk, AnnounceDue
<1>3. StaleInv'
  BY DEF Inv, TypeInv, StaleInv, Left, Loop, SelectFails, NothingAsked, TakeQuery, OthersAsk, AnnounceDue
<1>4. UNCHANGED brw
  BY DEF Loop, SelectFails, NothingAsked, TakeQuery, OthersAsk, AnnounceDue
<1> QED
  BY <1>1, <1>2, <1>3, <1>4, PublisherKeepsBrowser DEF Inv

LEMMA SendingStepKeeps ==
    ASSUME MdnsAssumption, Inv, Answer \/ Announce
    PROVE  Inv'
<1>1. packets' \subseteq Packet
  BY MulticastTyped DEF Inv, Answer, Announce, Send
<1>2. stale' = IF running THEN 0 ELSE stale + 1
  BY DEF Answer, Announce, Send
<1>3. StaleInv' /\ stale' \in 0..4
  BY <1>2 DEF Inv, TypeInv, StaleInv, Left, Answer, Announce
<1>4. TypeInv'
  BY <1>1, <1>3, MdnsAssumption DEF MdnsAssumption, Inv, TypeInv, PublisherInv, Answer, Announce, brw
<1>5. PublisherInv'
  BY DEF Inv, TypeInv, PublisherInv, Answer, Announce
<1>6. UNCHANGED brw
  BY DEF Answer, Announce
<1> QED
  BY <1>3, <1>4, <1>5, <1>6, PublisherKeepsBrowser DEF Inv

LEMMA BrowserStepKeeps ==
    ASSUME MdnsAssumption, Inv,
           BrowserThread \/ BrowserCall \/ \E by \in BOOLEAN : BrowserStop(by)
    PROVE  Inv'
<1>1. TypeInv'
  <2>1. CASE BrowserLoop
    BY <2>1, MdnsAssumption DEF MdnsAssumption, Inv, TypeInv, BrowserLoop, pub
  <2>2. CASE NothingHeard
    BY <2>2 DEF Inv, TypeInv, NothingHeard, pub, net
  <2>3. CASE Hear
    BY <2>3 DEF Inv, TypeInv, Packet, Hear, pub
  <2>4. CASE BrowserCall
    BY ZenonT(30), <2>4 DEF Inv, TypeInv, BrowserCall, BrowserJoin, BrowserStartFails, BrowserStartUp, pub, net
  <2>5. CASE \E by \in BOOLEAN : BrowserStop(by)
    BY <2>5 DEF Inv, TypeInv, BrowserStop, pub, net
  <2> QED
    BY <2>1, <2>2, <2>3, <2>4, <2>5 DEF BrowserThread
<1>2. BrowserInv'
  BY DEF Inv, TypeInv, BrowserInv, Ports, BrowserThread, BrowserLoop, NothingHeard, Hear,
         BrowserCall, BrowserJoin, BrowserStartFails, BrowserStartUp, BrowserStop
<1>3. UNCHANGED pub
  BY DEF BrowserThread, BrowserLoop, NothingHeard, Hear,
         BrowserCall, BrowserJoin, BrowserStartFails, BrowserStartUp, BrowserStop
<1> QED
  BY <1>1, <1>2, <1>3, BrowserKeepsPublisher DEF Inv

LEMMA InitInv == ASSUME MdnsAssumption, Init PROVE Inv
<1>1. count \in 0..InitialAnnounces /\ config \in 0..MaxStarts /\ stale \in 0..4
      /\ found \in 0..MaxStarts /\ queries \in 0..MaxQueries
  BY DEF MdnsAssumption, Init
<1>2. again \in BOOLEAN /\ running \in BOOLEAN /\ bagain \in BOOLEAN /\ brunning \in BOOLEAN
  BY DEF Init
<1>3. packets \subseteq Packet
  BY DEF Init
<1>4. TypeInv
  BY <1>1, <1>2, <1>3 DEF Init, TypeInv
<1>5. PublisherInv /\ StaleInv /\ BrowserInv
  BY DEF Init, PublisherInv, StaleInv, Left, BrowserInv
<1> QED
  BY <1>4, <1>5 DEF Inv

LEMMA NextInv == ASSUME MdnsAssumption, Inv, [Next]_vars PROVE Inv'
<1>1. CASE UNCHANGED vars
  BY <1>1 DEF vars, pub, brw, net, Inv, TypeInv, PublisherInv, StaleInv, Left, BrowserInv
<1>2. CASE PublisherThread
  BY <1>2, MdnsAssumption, SilentStepKeeps, SendingStepKeeps DEF PublisherThread
<1>3. CASE PublisherCall
  BY <1>3, MdnsAssumption, PublisherCallKeeps
<1>4. CASE \E by \in BOOLEAN : Stop(by)
  BY <1>4, StopKeeps
<1>5. CASE BrowserThread \/ BrowserCall \/ \E by \in BOOLEAN : BrowserStop(by)
  BY <1>5, MdnsAssumption, BrowserStepKeeps
<1> QED
  BY <1>1, <1>2, <1>3, <1>4, <1>5, Zenon DEF Next

\* The strengthening holds always.
THEOREM InvHolds == Spec => []Inv
BY MdnsAssumption, InitInv, NextInv, PTL DEF Spec

\* The type invariant of discovery (the fields of MdnsPublisher, MdnsBrowser).
THEOREM TypeCorrect == Spec => []TypeInv
<1>1. Inv => TypeInv
  BY DEF Inv
<1> QED
  BY <1>1, InvHolds, PTL

\* After stop() there is no thread, during it at most the turn under way still
\* announces, and no thread uses a closed socket (stop() of both files).
THEOREM StoppedIsQuiet == Spec => []StopIsQuiet
<1>1. Inv => StopIsQuiet
  BY DEF Inv, TypeInv, PublisherInv, StaleInv, BrowserInv, StopIsQuiet
<1> QED
  BY <1>1, InvHolds, PTL
=============================================================================
