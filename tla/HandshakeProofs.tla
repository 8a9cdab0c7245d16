--------------------------- MODULE HandshakeProofs ---------------------------
EXTENDS Handshake, TLAPS

(***************************************************************************)
(* What the two sides know of each other, step by step.                    *)
(***************************************************************************)

\* The seed in the file, if there is one, is the identity every device was
\* told, and every client with a round has heard the identity of this start.
IdentityInv ==
    /\ persists /\ identity # 0 => identity = file
    /\ persists => \A d \in Devices : known[d] # 0 => known[d] = file
    /\ \A c \in Conns : client[c].round # "none" =>
          identity # 0 /\ client[c].heard = identity

\* No two rounds have the same key.
KeysInv ==
    /\ \A c \in Conns : client[c].key <= fresh
    /\ \A c, d \in Conns : c # d /\ client[c].key # 0 => client[c].key # client[d].key
    /\ \A c \in Conns : client[c].round = "asked" => client[c].key # 0

\* Both sides are at the same round.
AtRound(c) ==
    /\ verify[c].stage = 1
    /\ verify[c].ours = client[c].theirs /\ verify[c].theirs = client[c].key
    /\ verify[c].ed = device[c]

RoundInv ==
    \A c \in Conns :
        /\ client[c].round = "asked" => verify[c].setup_done \/ AtRound(c)
        /\ verify[c].stage = 2 => client[c].round = "signed"
        /\ ~client[c].refused

SecretInv == \A c \in Conns : verify[c].secret = client[c].secret

\* The session has what its client sent.
Agreed(c) ==
    /\ session[c].ekey # 0 => c \in table
    /\ keymsg[c] = client[c].msg
    /\ client[c].keyed <=> session[c].ekey # 0
    /\ client[c].keyed => /\ session[c].ekey = client[c].raw
                          /\ session[c].under = client[c].msg
                          /\ client[c].msg # 0
    /\ session[c].key # {} => session[c].key = client[c].media
    /\ session[c].playing /\ client[c].keyed => session[c].key # {}

MediaInv == \A c \in Conns : Agreed(c)

PinInv ==
    pin => /\ paired \subseteq proved
           /\ \A c \in Conns :
                 "ANNOUNCE" \in session[c].configured => device[c] \in proved

IInv == TypeInv /\ IdentityInv /\ KeysInv /\ RoundInv /\ SecretInv /\ MediaInv /\ PinInv

-----------------------------------------------------------------------------
LEMMA InitKeeps == Init => IInv
<1> SUFFICES ASSUME Init PROVE IInv
  OBVIOUS
<1>1. TypeInv
  BY BoundsNat DEF Init, TypeInv, VerifyStates, Sessions, Clients, NewVerify, NewSession, NewClient
<1>2. IdentityInv
  BY DEF Init, IdentityInv, NewVerify, NewSession, NewClient
<1>3. KeysInv
  BY DEF Init, KeysInv, NewVerify, NewSession, NewClient
<1>4. RoundInv
  BY DEF Init, RoundInv, AtRound, NewVerify, NewSession, NewClient
<1>5. SecretInv
  BY DEF Init, SecretInv, NewVerify, NewSession, NewClient
<1>6. MediaInv
  BY DEF Init, MediaInv, Agreed, NewVerify, NewSession, NewClient
<1>7. PinInv
  BY DEF Init, PinInv, NewVerify, NewSession, NewClient
<1>8. QED
  BY <1>1, <1>2, <1>3, <1>4, <1>5, <1>6, <1>7 DEF IInv

LEMMA LoadIdentityKeeps ==
    ASSUME IInv, LoadIdentity PROVE IInv'
<1> USE DEF LoadIdentity, Up, server, setting
<1>1. TypeInv'
  BY DEF IInv, TypeInv, VerifyStates, Sessions, Clients
<1>2. IdentityInv'
  BY DEF IInv, TypeInv, IdentityInv
<1>3. KeysInv'
  BY DEF IInv, TypeInv, KeysInv, Clients
<1>4. RoundInv'
  BY DEF IInv, TypeInv, RoundInv, AtRound, KeysInv, SecretInv
<1>5. SecretInv'
  BY DEF IInv, TypeInv, SecretInv
<1>6. MediaInv'
  BY DEF IInv, TypeInv, MediaInv, Agreed, SecretInv, Sessions, Clients
<1>7. PinInv'
  BY DEF IInv, TypeInv, PinInv
<1>8. QED
  BY <1>1, <1>2, <1>3, <1>4, <1>5, <1>6, <1>7 DEF IInv

LEMMA CreateIdentityKeeps ==
    ASSUME IInv, CreateIdentity PROVE IInv'
<1> USE DEF CreateIdentity, Draws, Up, server, setting
<1>1. TypeInv'
  BY BoundsNat DEF IInv, TypeInv, VerifyStates, Sessions, Clients
<1>2. IdentityInv'
  BY BoundsNat DEF IInv, TypeInv, IdentityInv
<1>3. KeysInv'
  BY BoundsNat DEF IInv, TypeInv, KeysInv, Clients
<1>4. RoundInv'
  BY BoundsNat DEF IInv, TypeInv, RoundInv, AtRound, KeysInv, SecretInv
<1>5. SecretInv'
  BY BoundsNat DEF IInv, TypeInv, SecretInv
<1>6. MediaInv'
  BY BoundsNat DEF IInv, TypeInv, MediaInv, Agreed, SecretInv, Sessions, Clients
<1>7. PinInv'
  BY BoundsNat DEF IInv, TypeInv, PinInv
<1>8. QED
  BY <1>1, <1>2, <1>3, <1>4, <1>5, <1>6, <1>7 DEF IInv

LEMMA CrashWritingKeeps ==
    ASSUME IInv, CrashWriting PROVE IInv'
<1> USE DEF CrashWriting, Draws, Up, server, setting
<1>1. TypeInv'
  BY BoundsNat DEF IInv, TypeInv, VerifyStates, Sessions, Clients
<1>2. IdentityInv'
  BY BoundsNat DEF IInv, TypeInv, IdentityInv
<1>3. KeysInv'
  BY BoundsNat DEF IInv, TypeInv, KeysInv, Clients
<1>4. RoundInv'
  BY BoundsNat DEF IInv, TypeInv, RoundInv, AtRound, KeysInv, SecretInv
<1>5. SecretInv'
  BY BoundsNat DEF IInv, TypeInv, SecretInv
<1>6. MediaInv'
  BY BoundsNat DEF IInv, TypeInv, MediaInv, Agreed, SecretInv, Sessions, Clients
<1>7. PinInv'
  BY BoundsNat DEF IInv, TypeInv, PinInv
<1>8. QED
  BY <1>1, <1>2, <1>3, <1>4, <1>5, <1>6, <1>7 DEF IInv

LEMMA RestartKeeps ==
    ASSUME IInv, Restart PROVE IInv'
<1> USE DEF Restart, NewVerify, NewSession, NewClient, Up, server, setting
<1>1. TypeInv'
  BY DEF IInv, TypeInv, VerifyStates, Sessions, Clients
<1>2. IdentityInv'
  BY DEF IInv, TypeInv, IdentityInv
<1>3. KeysInv'
  BY DEF IInv, TypeInv, KeysInv, Clients
<1>4. RoundInv'
  BY DEF IInv, TypeInv, RoundInv, AtRound, KeysInv, SecretInv
<1>5. SecretInv'
  BY DEF IInv, TypeInv, SecretInv
<1>6. MediaInv'
  BY DEF IInv, TypeInv, MediaInv, Agreed, SecretInv, Sessions, Clients
<1>7. PinInv'
  BY DEF IInv, TypeInv, PinInv
<1>8. QED
  BY <1>1, <1>2, <1>3, <1>4, <1>5, <1>6, <1>7 DEF IInv

LEMMA PairSetupKeeps ==
    ASSUME IInv, NEW c \in Conns, PairSetup(c) PROVE IInv'
<1> USE DEF PairSetup, EnsureSession, Ensured, Up, server, setting
<1>1. TypeInv'
  <2>1. [verify[c] EXCEPT !.setup_done = TRUE] \in VerifyStates
    <3>1. verify[c] \in VerifyStates
      BY DEF IInv, TypeInv
    <3>2. QED
      BY ONLY <3>1 DEF VerifyStates
  <2>2. verify' \in [Conns -> VerifyStates]
    BY <2>1 DEF IInv, TypeInv
  <2>3. /\ known' \in [Devices -> Nat] /\ paired' \in SUBSET Devices
        /\ table' \in SUBSET Conns
    BY DEF IInv, TypeInv
  <2>4. QED
    BY <2>2, <2>3 DEF IInv, TypeInv
<1>2. IdentityInv'
  BY DEF IInv, TypeInv, IdentityInv
<1>3. KeysInv'
  BY DEF IInv, TypeInv, KeysInv, Clients
<1>4. RoundInv'
  BY DEF IInv, TypeInv, RoundInv, AtRound, KeysInv, SecretInv
<1>5. SecretInv'
  BY DEF IInv, TypeInv, SecretInv
<1>6. MediaInv'
  BY DEF IInv, TypeInv, MediaInv, Agreed, SecretInv, Sessions, Clients
<1>7. PinInv'
  BY DEF IInv, TypeInv, PinInv
<1>8. QED
  BY <1>1, <1>2, <1>3, <1>4, <1>5, <1>6, <1>7 DEF IInv

LEMMA PairSetupAnswerKeeps ==
    ASSUME IInv, NEW c \in Conns, PairSetupShort(c) \/ PairSetupPin(c) PROVE IInv'
<1> USE DEF PairSetupShort, PairSetupPin, EnsureSession, Ensured, Up, server, setting
<1>1. TypeInv'
  BY DEF IInv, TypeInv, VerifyStates, Sessions, Clients
<1>2. IdentityInv'
  BY DEF IInv, TypeInv, IdentityInv
<1>3. KeysInv'
  BY DEF IInv, TypeInv, KeysInv, Clients
<1>4. RoundInv'
  BY DEF IInv, TypeInv, RoundInv, AtRound, KeysInv, SecretInv
<1>5. SecretInv'
  BY DEF IInv, TypeInv, SecretInv
<1>6. MediaInv'
  BY DEF IInv, TypeInv, MediaInv, Agreed, SecretInv, Sessions, Clients
<1>7. PinInv'
  BY DEF IInv, TypeInv, PinInv
<1>8. QED
  BY <1>1, <1>2, <1>3, <1>4, <1>5, <1>6, <1>7 DEF IInv

LEMMA PairVerifyPinKeeps ==
    ASSUME IInv, NEW c \in Conns, NEW right \in BOOLEAN, NEW accepted \in BOOLEAN, PairVerifyPin(c, right, accepted) PROVE IInv'
<1> USE DEF PairVerifyPin, Up, server, setting
<1>1. TypeInv'
  BY DEF IInv, TypeInv, VerifyStates, Sessions, Clients
<1>2. IdentityInv'
  BY DEF IInv, TypeInv, IdentityInv
<1>3. KeysInv'
  BY DEF IInv, TypeInv, KeysInv, Clients
<1>4. RoundInv'
  BY DEF IInv, TypeInv, RoundInv, AtRound, KeysInv, SecretInv
<1>5. SecretInv'
  BY DEF IInv, TypeInv, SecretInv
<1>6. MediaInv'
  BY DEF IInv, TypeInv, MediaInv, Agreed, SecretInv, Sessions, Clients
<1>7. PinInv'
  BY DEF IInv, TypeInv, PinInv
<1>8. QED
  BY <1>1, <1>2, <1>3, <1>4, <1>5, <1>6, <1>7 DEF IInv

LEMMA FairPlaySetupKeeps ==
    ASSUME IInv, NEW c \in Conns, FairPlaySetup(c) PROVE IInv'
<1> USE DEF FairPlaySetup, Draws, Up, server, setting
<1>1. TypeInv'
  <2>1. client' \in [Conns -> Clients]
    <3>1. client[c] \in Clients /\ fresh + 1 \in Nat /\ client[c].msg \in Nat
      BY DEF IInv, TypeInv, Clients
    <3>2. [client[c] EXCEPT !.msg = fresh + 1] \in Clients
      BY <3>1 DEF Clients
    <3>3. QED
      BY <3>1, <3>2 DEF IInv, TypeInv
  <2>2. QED
    BY <2>1 DEF IInv, TypeInv
<1>2. IdentityInv'
  BY DEF IInv, TypeInv, IdentityInv
<1>3. KeysInv'
  BY DEF IInv, TypeInv, KeysInv, Clients
<1>4. RoundInv'
  BY DEF IInv, TypeInv, RoundInv, AtRound, KeysInv, SecretInv
<1>5. SecretInv'
  BY DEF IInv, TypeInv, SecretInv
<1>6. MediaInv'
  BY DEF IInv, TypeInv, MediaInv, Agreed, SecretInv, Sessions, Clients
<1>7. PinInv'
  BY DEF IInv, TypeInv, PinInv
<1>8. QED
  BY <1>1, <1>2, <1>3, <1>4, <1>5, <1>6, <1>7 DEF IInv

LEMMA AnnounceKeeps ==
    ASSUME IInv, NEW c \in Conns, Announce(c) PROVE IInv'
<1> USE DEF Announce, EnsureSession, Ensured, Up, server, setting
<1>1. TypeInv'
  <2>1. session' \in [Conns -> Sessions]
    <3>1. session[c] \in Sessions
      BY DEF IInv, TypeInv
    <3>2. session[c].configured \cup {"ANNOUNCE"} \in SUBSET {"ANNOUNCE", "SETUP"}
      BY <3>1 DEF Sessions
    <3>3. [session[c] EXCEPT !.configured = @ \cup {"ANNOUNCE"}] \in Sessions
      BY <3>1, <3>2 DEF Sessions
    <3>4. QED
      BY <3>3 DEF IInv, TypeInv
  <2>2. QED
    BY <2>1 DEF IInv, TypeInv
<1>2. IdentityInv'
  BY DEF IInv, TypeInv, IdentityInv
<1>3. KeysInv'
  BY DEF IInv, TypeInv, KeysInv, Clients
<1>4. RoundInv'
  BY DEF IInv, TypeInv, RoundInv, AtRound, KeysInv, SecretInv
<1>5. SecretInv'
  BY DEF IInv, TypeInv, SecretInv
<1>6. MediaInv'
  BY DEF IInv, TypeInv, MediaInv, Agreed, SecretInv, Sessions, Clients
<1>7. PinInv'
  BY DEF IInv, TypeInv, PinInv
<1>8. QED
  BY <1>1, <1>2, <1>3, <1>4, <1>5, <1>6, <1>7 DEF IInv

LEMMA SetupKeyedKeeps ==
    ASSUME IInv, NEW c \in Conns, SetupKeyed(c) PROVE IInv'
<1> USE DEF SetupKeyed, Draws, EnsureSession, Ensured, Up, server, setting
<1>1. TypeInv'
  <2>1. client' \in [Conns -> Clients]
    <3>1. client[c] \in Clients /\ fresh + 1 \in Nat /\ client[c].msg \in Nat
      BY DEF IInv, TypeInv, Clients
    <3>2. [client[c] EXCEPT !.raw = fresh + 1, !.keyed = TRUE] \in Clients
      BY <3>1 DEF Clients
    <3>3. QED
      BY <3>1, <3>2 DEF IInv, TypeInv
  <2>2. session' \in [Conns -> Sessions]
    <3>1. session[c] \in Sessions /\ fresh + 1 \in Nat /\ client[c].msg \in Nat
      BY DEF IInv, TypeInv, Clients
    <3>2. [session[c] EXCEPT !.ekey = fresh + 1, !.under = client[c].msg] \in Sessions
      BY <3>1 DEF Sessions
    <3>3. QED
      BY <3>1, <3>2 DEF IInv, TypeInv
  <2>3. QED
    BY <2>1, <2>2 DEF IInv, TypeInv
<1>2. IdentityInv'
  BY DEF IInv, TypeInv, IdentityInv
<1>3. KeysInv'
  BY DEF IInv, TypeInv, KeysInv, Clients
<1>4. RoundInv'
  BY DEF IInv, TypeInv, RoundInv, AtRound, KeysInv, SecretInv
<1>5. SecretInv'
  BY DEF IInv, TypeInv, SecretInv
<1>6. MediaInv'
  BY DEF IInv, TypeInv, MediaInv, Agreed, SecretInv, Sessions, Clients
<1>7. PinInv'
  BY DEF IInv, TypeInv, PinInv
<1>8. QED
  BY <1>1, <1>2, <1>3, <1>4, <1>5, <1>6, <1>7 DEF IInv

LEMMA SetupStreamsKeeps ==
    ASSUME IInv, NEW c \in Conns, NEW audio \in BOOLEAN, SetupStreams(c, audio) PROVE IInv'
<1> USE DEF SetupStreams, EnsureSession, Ensured, Up, server, setting
<1>1. TypeInv'
  <2>1. client' \in [Conns -> Clients]
    <3>1. client[c] \in Clients /\ fresh + 1 \in Nat /\ client[c].msg \in Nat
      BY DEF IInv, TypeInv, Clients
    <3>2. [client[c] EXCEPT !.keyed = FALSE] \in Clients
      BY <3>1 DEF Clients
    <3>3. QED
      BY <3>1, <3>2 DEF IInv, TypeInv
  <2>2. session' \in [Conns -> Sessions]
    <3> DEFINE conf == IF audio THEN session[c].configured \cup {"SETUP"}
                       ELSE session[c].configured
    <3>1. session[c] \in Sessions
      BY DEF IInv, TypeInv
    <3>2. conf \in SUBSET {"ANNOUNCE", "SETUP"}
      BY <3>1 DEF Sessions
    <3>3. session' = IF ~Room(c) THEN session
                     ELSE [session EXCEPT ![c] =
                             [session[c] EXCEPT !.ekey = 0, !.under = 0, !.configured = conf]]
      BY ZenonT(30) DEF IInv, TypeInv
    <3> HIDE DEF conf
    <3>4. [session[c] EXCEPT !.ekey = 0, !.under = 0, !.configured = conf] \in Sessions
      BY <3>1, <3>2 DEF Sessions
    <3>5. QED
      BY <3>3, <3>4 DEF IInv, TypeInv
  <2>3. QED
    BY <2>1, <2>2 DEF IInv, TypeInv
<1>2. IdentityInv'
  BY DEF IInv, TypeInv, IdentityInv
<1>3. KeysInv'
  BY DEF IInv, TypeInv, KeysInv, Clients
<1>4. RoundInv'
  BY DEF IInv, TypeInv, RoundInv, AtRound, KeysInv, SecretInv
<1>5. SecretInv'
  BY DEF IInv, TypeInv, SecretInv
<1>6. MediaInv'
  <2>1. ASSUME NEW d \in Conns, d # c PROVE Agreed(d)'
    <3>1. session'[d] = session[d] /\ client'[d] = client[d] /\ keymsg'[d] = keymsg[d]
      BY <2>1 DEF IInv, TypeInv
    <3>2. Agreed(d) /\ table \subseteq table'
      BY DEF IInv, MediaInv
    <3>3. QED
      BY <3>1, <3>2 DEF Agreed
  <2>2. Agreed(c)'
    <3>1. Agreed(c) /\ client'[c] = [client[c] EXCEPT !.keyed = FALSE] /\ client[c] \in Clients
          /\ keymsg' = keymsg
      BY DEF IInv, TypeInv, MediaInv
    <3>2. session[c] \in Sessions
      BY DEF IInv, TypeInv
    <3>3. session'[c].ekey = 0 /\ session'[c].key = session[c].key
          /\ session'[c].playing = session[c].playing
      <4>1. CASE Room(c)
        BY <4>1, <3>2 DEF IInv, TypeInv, Sessions
      <4>2. CASE ~Room(c)
        BY <4>2, <3>1 DEF Room, Agreed
      <4>3. QED
        BY <4>1, <4>2
    <3>4. client'[c].keyed = FALSE /\ client'[c].msg = client[c].msg
          /\ client'[c].media = client[c].media
      BY <3>1 DEF Clients
    <3>5. QED
      BY <3>1, <3>3, <3>4 DEF Agreed
  <2>3. QED
    BY <2>1, <2>2 DEF MediaInv
<1>7. PinInv'
  BY DEF IInv, TypeInv, PinInv
<1>8. QED
  BY <1>1, <1>2, <1>3, <1>4, <1>5, <1>6, <1>7 DEF IInv

LEMMA RecordKeeps ==
    ASSUME IInv, NEW c \in Conns, Record(c) PROVE IInv'
<1> USE DEF Record, Raw, MediaKey, Up, server, setting
<1>1. TypeInv'
  <2>1. verify[c] \in VerifyStates /\ client[c] \in Clients /\ session[c] \in Sessions
    BY DEF IInv, TypeInv
  <2>2. {Raw(c)} \cup verify[c].secret \in SUBSET Int
    BY <2>1 DEF VerifyStates, Sessions
  <2>3. {client[c].raw} \cup client[c].secret \in SUBSET Int
    BY <2>1 DEF Clients
  <2>4. session' \in [Conns -> Sessions]
    <3>1. session'[c] \in Sessions
      BY <2>1, <2>2 DEF IInv, TypeInv, Sessions
    <3>2. QED
      BY <3>1 DEF IInv, TypeInv
  <2>5. client' \in [Conns -> Clients]
    <3>1. client'[c] \in Clients
      BY <2>1, <2>3 DEF IInv, TypeInv, Clients
    <3>2. QED
      BY <3>1 DEF IInv, TypeInv
  <2>6. QED
    BY <2>4, <2>5 DEF IInv, TypeInv
<1>2. IdentityInv'
  BY DEF IInv, TypeInv, IdentityInv
<1>3. KeysInv'
  BY DEF IInv, TypeInv, KeysInv, Clients
<1>4. RoundInv'
  BY DEF IInv, TypeInv, RoundInv, AtRound, KeysInv, SecretInv
<1>5. SecretInv'
  BY DEF IInv, TypeInv, SecretInv
<1>6. MediaInv'
  <2>1. ASSUME NEW d \in Conns, d # c PROVE Agreed(d)'
    <3>1. session'[d] = session[d] /\ client'[d] = client[d]
      BY <2>1 DEF IInv, TypeInv
    <3>2. Agreed(d)
      BY DEF IInv, MediaInv
    <3>3. QED
      BY <3>1, <3>2 DEF Agreed
  <2>2. Agreed(c)'
    <3>1. Agreed(c) /\ client[c] \in Clients /\ session[c] \in Sessions
          /\ verify[c].secret = client[c].secret
      BY DEF IInv, TypeInv, MediaInv, SecretInv
    <3>2. CASE client[c].keyed
      <4>1. session[c].ekey # 0 /\ keymsg[c] # 0 /\ Raw(c) = client[c].raw
        BY <3>1, <3>2 DEF Agreed
      <4>2. session'[c] = [session[c] EXCEPT !.playing = TRUE,
                              !.key = {client[c].raw} \cup client[c].secret]
        BY <3>1, <4>1 DEF IInv, TypeInv
      <4>3. client'[c] = [client[c] EXCEPT !.media = {client[c].raw} \cup client[c].secret]
        BY <3>2 DEF IInv, TypeInv
      <4> DEFINE k == {client[c].raw} \cup client[c].secret
      <4>5. k # {}
        OBVIOUS
      <4> HIDE DEF k
      <4>7. session'[c].key = k /\ session'[c].ekey = session[c].ekey
            /\ session'[c].under = session[c].under
        BY ZenonT(30), <4>2, <3>1 DEF Sessions, k
      <4>8. client'[c].media = k /\ client'[c].keyed = client[c].keyed
            /\ client'[c].raw = client[c].raw /\ client'[c].msg = client[c].msg
        BY <4>3, <3>1 DEF Clients, k
      <4>9. QED
        BY <3>1, <4>5, <4>7, <4>8 DEF Agreed
    <3>3. CASE ~client[c].keyed
      <4>1. session'[c] = [session[c] EXCEPT !.playing = TRUE] /\ client' = client
        BY <3>1, <3>3 DEF Agreed, IInv, TypeInv
      <4>2. QED
        BY <3>1, <3>3, <4>1 DEF Agreed, Sessions
    <3>4. QED
      BY <3>2, <3>3
  <2>3. QED
    BY <2>1, <2>2 DEF MediaInv
<1>7. PinInv'
  BY DEF IInv, TypeInv, PinInv
<1>8. QED
  BY <1>1, <1>2, <1>3, <1>4, <1>5, <1>6, <1>7 DEF IInv

LEMMA PauseKeeps ==
    ASSUME IInv, NEW c \in Conns, Pause(c) PROVE IInv'
<1> USE DEF Pause, Up, server, setting
<1>1. TypeInv'
  <2>1. [session[c] EXCEPT !.playing = FALSE] \in Sessions
    <3>1. session[c] \in Sessions
      BY DEF IInv, TypeInv
    <3>2. QED
      BY ONLY <3>1 DEF Sessions
  <2>2. session' \in [Conns -> Sessions]
    BY <2>1 DEF IInv, TypeInv
  <2>3. QED
    BY <2>2 DEF IInv, TypeInv
<1>2. IdentityInv'
  BY DEF IInv, TypeInv, IdentityInv
<1>3. KeysInv'
  BY DEF IInv, TypeInv, KeysInv, Clients
<1>4. RoundInv'
  BY DEF IInv, TypeInv, RoundInv, AtRound, KeysInv, SecretInv
<1>5. SecretInv'
  BY DEF IInv, TypeInv, SecretInv
<1>6. MediaInv'
  BY DEF IInv, TypeInv, MediaInv, Agreed, SecretInv, Sessions, Clients
<1>7. PinInv'
  BY DEF IInv, TypeInv, PinInv
<1>8. QED
  BY <1>1, <1>2, <1>3, <1>4, <1>5, <1>6, <1>7 DEF IInv

LEMMA TeardownKeeps ==
    ASSUME IInv, NEW c \in Conns, Teardown(c) PROVE IInv'
<1> USE DEF Teardown, NewVerify, NewSession, NewClient, Up, server, setting
<1>1. TypeInv'
  BY DEF IInv, TypeInv, VerifyStates, Sessions, Clients
<1>2. IdentityInv'
  BY DEF IInv, TypeInv, IdentityInv
<1>3. KeysInv'
  BY DEF IInv, TypeInv, KeysInv, Clients
<1>4. RoundInv'
  BY DEF IInv, TypeInv, RoundInv, AtRound, KeysInv, SecretInv
<1>5. SecretInv'
  BY DEF IInv, TypeInv, SecretInv
<1>6. MediaInv'
  BY DEF IInv, TypeInv, MediaInv, Agreed, SecretInv, Sessions, Clients
<1>7. PinInv'
  BY DEF IInv, TypeInv, PinInv
<1>8. QED
  BY <1>1, <1>2, <1>3, <1>4, <1>5, <1>6, <1>7 DEF IInv

-----------------------------------------------------------------------------
\* Both sides of an exchange have one secret.
LEMMA SharedCommutes == \A a, b : Shared(a, b) = Shared(b, a)
BY DEF Shared

\* M1 that is answered with nothing changes nothing but the count of keys.
LEMMA WavedM1Keeps ==
    ASSUME IInv, NEW c \in Conns, PairVerifyM1(c),
           Waved(verify[c], M1Body(fresh + 1, device[c]))
    PROVE  IInv'
<1>1. verify' = verify /\ client' = client /\ fresh' = fresh + 1
      /\ UNCHANGED <<server, paired, keymsg, table, session, proved, known>>
  BY DEF PairVerifyM1, Draws, Verify, IInv, TypeInv
<1>2. TypeInv' /\ KeysInv'
  BY <1>1 DEF IInv, TypeInv, KeysInv, Clients, server, setting
<1>3. QED
  BY <1>1, <1>2 DEF IInv, IdentityInv, RoundInv, AtRound, SecretInv, MediaInv, Agreed, PinInv,
     server, setting

\* What a round is on both sides when M1 was answered.
LEMMA AnsweredM1 ==
    ASSUME IInv, NEW c \in Conns, PairVerifyM1(c),
           ~Waved(verify[c], M1Body(fresh + 1, device[c]))
    PROVE  LET k == fresh + 1
           IN  /\ verify' = [verify EXCEPT ![c] =
                     [verify[c] EXCEPT !.ours = -k, !.theirs = k, !.ed = device[c],
                         !.secret = {-k, k}, !.stage = 1]]
               /\ client' = [client EXCEPT ![c] =
                     [client[c] EXCEPT !.key = k, !.theirs = -k, !.secret = {-k, k},
                         !.round = "asked", !.heard = identity]]
<1> DEFINE k    == fresh + 1
           body == M1Body(k, device[c])
           st   == Verify(verify[c], body, -k)
           out  == M1Answer(identity, st)
           sec  == Shared(k, out.key)
           sig  == Unmasked(sec, 1, out.sig)
<1>1. body.step = 1 /\ body.key = k /\ body.ed = device[c]
  BY DEF M1Body
<1>2. st = VerifyM1(verify[c], body, -k)
  BY <1>1 DEF Verify
<1>3. st = [verify[c] EXCEPT !.ours = -k, !.theirs = k, !.ed = device[c],
                !.secret = Shared(-k, k), !.stage = 1]
  BY <1>1, <1>2 DEF VerifyM1
<1>4. verify[c] \in VerifyStates
  BY DEF IInv, TypeInv
<1>5. st.ours = -k /\ st.theirs = k /\ st.secret = Shared(-k, k)
  BY <1>3, <1>4 DEF VerifyStates
<1>6. out.key = -k /\ out.sig = Masked(Shared(-k, k), 1, Signed(identity, -k, k))
  BY <1>5 DEF M1Answer
<1>7. sec = Shared(-k, k)
  BY <1>6, SharedCommutes
<1>8. sig = Signed(identity, -k, k)
  BY <1>6, <1>7 DEF Unmasked, Masked
<1>9. sig.by = identity
  BY <1>8 DEF Signed
<1>10. client' = [client EXCEPT ![c].key = k, ![c].theirs = out.key,
                    ![c].secret = sec, ![c].round = "asked",
                    ![c].heard = IF sig = Signed(sig.by, out.key, k) THEN sig.by ELSE 0]
  BY DEF PairVerifyM1
<1>11. verify' = [verify EXCEPT ![c] = st]
  BY DEF PairVerifyM1
<1>12. Shared(-k, k) = {-k, k}
  BY DEF Shared
<1> HIDE DEF k, body, st, out, sec, sig
<1>13. client' = [client EXCEPT ![c].key = k, ![c].theirs = -k, ![c].secret = {-k, k},
                    ![c].round = "asked", ![c].heard = identity]
  BY <1>6, <1>7, <1>8, <1>9, <1>10, <1>12
<1>14. client' = [client EXCEPT ![c] =
                     [client[c] EXCEPT !.key = k, !.theirs = -k, !.secret = {-k, k},
                         !.round = "asked", !.heard = identity]]
  BY <1>13 DEF IInv, TypeInv
<1>15. verify' = [verify EXCEPT ![c] =
                     [verify[c] EXCEPT !.ours = -k, !.theirs = k, !.ed = device[c],
                         !.secret = {-k, k}, !.stage = 1]]
  BY <1>3, <1>11, <1>12
<1>16. QED
  BY <1>14, <1>15 DEF k

LEMMA PairVerifyM1Keeps ==
    ASSUME IInv, NEW c \in Conns, PairVerifyM1(c) PROVE IInv'
<1> DEFINE k == fresh + 1
<1> USE DEF server, setting
<1>1. CASE Waved(verify[c], M1Body(fresh + 1, device[c]))
  BY <1>1, WavedM1Keeps
<1>2. CASE ~Waved(verify[c], M1Body(fresh + 1, device[c]))
  <2>1. /\ verify' = [verify EXCEPT ![c] =
                [verify[c] EXCEPT !.ours = -k, !.theirs = k, !.ed = device[c],
                    !.secret = {-k, k}, !.stage = 1]]
        /\ client' = [client EXCEPT ![c] =
                [client[c] EXCEPT !.key = k, !.theirs = -k, !.secret = {-k, k},
                    !.round = "asked", !.heard = identity]]
    BY <1>2, AnsweredM1
  <2>2. /\ identity # 0 /\ client[c].raw = 0 /\ fresh' = k
        /\ UNCHANGED <<server, paired, keymsg, table, session, proved, known>>
    BY DEF PairVerifyM1, Draws, Up
  <2>3. /\ k \in Nat \ {0} /\ -k \in Int /\ {-k, k} \in SUBSET Int
        /\ verify[c] \in VerifyStates /\ client[c] \in Clients
        /\ device[c] \in Nat /\ identity \in Nat
    <3>1. fresh \in Nat /\ k \in Nat \ {0} /\ -k \in Int
      BY DEF IInv, TypeInv
    <3>2. {-k, k} \in SUBSET Int
      BY <3>1
    <3>3. verify[c] \in VerifyStates /\ client[c] \in Clients /\ device[c] \in Devices
          /\ identity \in Nat
      BY DEF IInv, TypeInv
    <3>4. QED
      BY <3>1, <3>2, <3>3, DevicesNumbered
  <2>4. ASSUME NEW d \in Conns, d # c
        PROVE  verify'[d] = verify[d] /\ client'[d] = client[d]
    BY <2>1, <2>4 DEF IInv, TypeInv
  <2>5. /\ verify'[c].ours = -k /\ verify'[c].theirs = k /\ verify'[c].ed = device[c]
        /\ verify'[c].secret = {-k, k} /\ verify'[c].stage = 1
        /\ verify'[c].setup_done = verify[c].setup_done
    BY <2>1, <2>3 DEF IInv, TypeInv, VerifyStates
  <2>6. /\ client'[c].key = k /\ client'[c].theirs = -k /\ client'[c].secret = {-k, k}
        /\ client'[c].round = "asked" /\ client'[c].heard = identity
        /\ client'[c].msg = client[c].msg /\ client'[c].raw = client[c].raw
        /\ client'[c].keyed = client[c].keyed /\ client'[c].media = client[c].media
        /\ client'[c].refused = client[c].refused
    BY <2>1, <2>3 DEF IInv, TypeInv, Clients
  <2> HIDE DEF k
  <2>7. TypeInv'
    <3>1. [verify[c] EXCEPT !.ours = -k, !.theirs = k, !.ed = device[c],
              !.secret = {-k, k}, !.stage = 1] \in VerifyStates
      BY <2>3 DEF VerifyStates
    <3>2. [client[c] EXCEPT !.key = k, !.theirs = -k, !.secret = {-k, k},
              !.round = "asked", !.heard = identity] \in Clients
      BY <2>3 DEF Clients
    <3>3. QED
      BY <2>1, <2>2, <2>3, <3>1, <3>2 DEF IInv, TypeInv
  <2>8. IdentityInv'
    BY <2>2, <2>4, <2>6 DEF IInv, IdentityInv
  <2>9. KeysInv'
    <3>1. \A d \in Conns : client[d].key <= fresh /\ client[d].key \in Nat
      BY DEF IInv, TypeInv, KeysInv, Clients
    <3>2. \A d \in Conns : client[d].key # k /\ client[d].key <= k
      BY <3>1 DEF k, IInv, TypeInv
    <3>3. QED
      BY <2>2, <2>3, <2>4, <2>6, <3>2 DEF IInv, KeysInv
  <2>10. RoundInv'
    BY <2>2, <2>4, <2>5, <2>6 DEF IInv, RoundInv, AtRound
  <2>11. SecretInv'
    BY <2>4, <2>5, <2>6 DEF IInv, SecretInv
  <2>12. MediaInv'
    <3>1. ASSUME NEW d \in Conns PROVE Agreed(d)'
      <4>1. CASE d = c
        BY <4>1, <2>2, <2>6 DEF IInv, MediaInv, Agreed
      <4>2. CASE d # c
        BY <4>2, <2>2, <2>4 DEF IInv, MediaInv, Agreed
      <4>3. QED
        BY <4>1, <4>2
    <3>2. QED
      BY <3>1 DEF MediaInv
  <2>13. PinInv'
    BY <2>2 DEF IInv, PinInv
  <2>14. QED
    BY <2>7, <2>8, <2>9, <2>10, <2>11, <2>12, <2>13 DEF IInv
<1>3. QED
  BY <1>1, <1>2

-----------------------------------------------------------------------------
\* In a round that is open, the signature that holds is the client's own.
LEMMA OwnSignature ==
    ASSUME IInv, NEW c \in Conns, NEW d \in Conns,
           client[c].round = "asked", ~verify[c].setup_done
    PROVE  SignatureHolds(verify[c], M2Body(Signature(d))) <=> c = d
<1>1. AtRound(c) /\ verify[c].secret = client[c].secret /\ device[c] # 0
      /\ client[c].key # 0 /\ device[c] \in Nat
  BY DevicesNumbered DEF IInv, TypeInv, RoundInv, SecretInv, KeysInv
<1>2. M2Body(Signature(d)).sig = Signature(d)
  BY DEF M2Body
<1>3. CASE c = d
  <2>1. Unmasked(verify[c].secret, 2, Signature(d))
           = Signed(device[d], client[d].key, client[d].theirs)
    BY <1>1, <1>3 DEF Signature, Unmasked, Masked
  <2>2. QED
    BY <1>1, <1>2, <1>3, <2>1 DEF SignatureHolds, AtRound
<1>4. CASE c # d
  <2>1. client[d].key # client[c].key
    BY <1>1, <1>4 DEF IInv, KeysInv
  <2>2. Unmasked(verify[c].secret, 2, Signature(d))
           \in {Garbage, Signed(device[d], client[d].key, client[d].theirs)}
    BY DEF Signature, Unmasked, Masked
  <2>3. /\ Garbage # Signed(device[c], client[c].key, client[c].theirs)
        /\ Signed(device[d], client[d].key, client[d].theirs)
             # Signed(device[c], client[c].key, client[c].theirs)
    BY <1>1, <2>1 DEF Garbage, Signed
  <2>4. QED
    BY <1>1, <1>2, <1>4, <2>2, <2>3 DEF SignatureHolds, AtRound
<1>5. QED
  BY <1>3, <1>4

\* What M2 does: nothing for a connection already set up or with a signature
\* that does not hold, else the round ends; the client's own is never refused.
LEMMA SteppedM2 ==
    ASSUME IInv, NEW c \in Conns, NEW d \in Conns, PairVerifyM2(c, d)
    PROVE  /\ verify' \in {verify, [verify EXCEPT ![c] =
                                      [verify[c] EXCEPT !.stage = 2, !.setup_done = TRUE]]}
           /\ c # d => verify' = verify /\ client' = client
           /\ c = d => client' = [client EXCEPT ![c] =
                                    [client[c] EXCEPT !.round = "signed", !.refused = FALSE]]
<1> DEFINE body == M2Body(Signature(d))
<1>1. body.step = 0 /\ client[c].round = "asked" /\ verify[c] \in VerifyStates
      /\ client[c] \in Clients
  BY DEF M2Body, PairVerifyM2, IInv, TypeInv
<1>2. verify' = [verify EXCEPT ![c] = Verify(verify[c], body, 0)]
  BY DEF PairVerifyM2
<1>3. c # d => client' = client
  BY DEF PairVerifyM2
<1>4. c = d => client' = [client EXCEPT ![c].round = "signed",
                                        ![c].refused = ~PinOk(verify[c], body)]
  BY DEF PairVerifyM2
<1>5. ~verify[c].setup_done => verify[c].stage = 1
  BY <1>1 DEF IInv, RoundInv, AtRound
<1>6. ~verify[c].setup_done => (SignatureHolds(verify[c], body) <=> c = d)
  BY <1>1, OwnSignature
<1> HIDE DEF body
<1>7. CASE verify[c].setup_done
  <2>1. Waved(verify[c], body)
    BY <1>7 DEF Waved
  <2>2. Verify(verify[c], body, 0) = verify[c] /\ PinOk(verify[c], body)
    BY <2>1 DEF Verify, PinOk
  <2>3. verify' = verify
    BY <1>2, <2>2 DEF IInv, TypeInv
  <2>4. QED
    BY <1>3, <1>4, <2>2, <2>3 DEF IInv, TypeInv
<1>8. CASE ~verify[c].setup_done
  <2>1. ~Waved(verify[c], body)
    BY <1>1, <1>5, <1>8 DEF Waved
  <2>2. Verify(verify[c], body, 0) = VerifyM2(verify[c], body)
    BY <1>1, <2>1 DEF Verify
  <2>3. CASE c = d
    <3>1. SignatureHolds(verify[c], body)
      BY <1>6, <1>8, <2>3
    <3>2. PinOk(verify[c], body)
      BY <1>1, <3>1 DEF PinOk
    <3>3. verify' = [verify EXCEPT ![c] =
                       [verify[c] EXCEPT !.stage = 2, !.setup_done = TRUE]]
      BY <1>2, <2>2, <3>1 DEF VerifyM2
    <3>4. QED
      BY <1>4, <2>3, <3>2, <3>3 DEF IInv, TypeInv
  <2>4. CASE c # d
    <3>1. ~SignatureHolds(verify[c], body)
      BY <1>6, <1>8, <2>4
    <3>2. verify' = verify
      BY <1>2, <2>2, <3>1 DEF VerifyM2, IInv, TypeInv
    <3>3. QED
      BY <1>3, <2>4, <3>2
  <2>5. QED
    BY <2>3, <2>4
<1>9. QED
  BY <1>7, <1>8

LEMMA PairVerifyM2Keeps ==
    ASSUME IInv, NEW c \in Conns, NEW d \in Conns, PairVerifyM2(c, d) PROVE IInv'
<1> USE DEF server, setting
<1>1. /\ identity # 0 /\ ~pin /\ client[c].round = "asked"
      /\ UNCHANGED <<server, fresh, keymsg, table, session, proved, known>>
      /\ paired' \subseteq Devices
  BY DEF PairVerifyM2, Up, IInv, TypeInv
<1>2. verify[c] \in VerifyStates /\ client[c] \in Clients
  BY DEF IInv, TypeInv
<1>3. CASE c # d
  <2>1. verify' = verify /\ client' = client
    BY <1>3, SteppedM2
  <2>2. QED
    BY <1>1, <2>1 DEF IInv, TypeInv, IdentityInv, KeysInv, RoundInv, AtRound, SecretInv,
       MediaInv, Agreed, PinInv
<1>4. CASE c = d
  <2>1. /\ verify' \in {verify, [verify EXCEPT ![c] =
                                    [verify[c] EXCEPT !.stage = 2, !.setup_done = TRUE]]}
        /\ client' = [client EXCEPT ![c] =
                        [client[c] EXCEPT !.round = "signed", !.refused = FALSE]]
    BY <1>4, SteppedM2
  <2>2. [verify[c] EXCEPT !.stage = 2, !.setup_done = TRUE] \in VerifyStates
    BY <1>2 DEF VerifyStates
  <2>3. [client[c] EXCEPT !.round = "signed", !.refused = FALSE] \in Clients
    BY <1>2 DEF Clients
  <2>4. TypeInv'
    BY <1>1, <2>1, <2>2, <2>3 DEF IInv, TypeInv
  <2>5. ASSUME NEW e \in Conns, e # c
        PROVE  verify'[e] = verify[e] /\ client'[e] = client[e]
    BY <2>1, <2>5 DEF IInv, TypeInv
  <2>6. /\ client'[c].round = "signed" /\ ~client'[c].refused
        /\ client'[c].key = client[c].key /\ client'[c].secret = client[c].secret
        /\ client'[c].heard = client[c].heard /\ client'[c].msg = client[c].msg
        /\ client'[c].raw = client[c].raw /\ client'[c].keyed = client[c].keyed
        /\ client'[c].media = client[c].media
    BY <1>2, <2>1 DEF IInv, TypeInv, Clients
  <2>7. verify'[c].secret = verify[c].secret
    BY <1>2, <2>1 DEF IInv, TypeInv, VerifyStates
  <2>8. IdentityInv'
    BY <1>1, <2>5, <2>6 DEF IInv, IdentityInv
  <2>9. KeysInv'
    BY <1>1, <2>5, <2>6 DEF IInv, KeysInv
  <2>10. RoundInv'
    BY <1>1, <2>5, <2>6 DEF IInv, RoundInv, AtRound
  <2>11. SecretInv'
    BY <2>5, <2>6, <2>7 DEF IInv, SecretInv
  <2>12. MediaInv'
    <3>1. ASSUME NEW e \in Conns PROVE Agreed(e)'
      BY <1>1, <2>5, <2>6 DEF IInv, MediaInv, Agreed
    <3>2. QED
      BY <3>1 DEF MediaInv
  <2>13. PinInv'
    BY <1>1 DEF IInv, PinInv
  <2>14. QED
    BY <2>4, <2>8, <2>9, <2>10, <2>11, <2>12, <2>13 DEF IInv
<1>5. QED
  BY <1>3, <1>4

-----------------------------------------------------------------------------
LEMMA StutterKeeps == IInv /\ UNCHANGED vars => IInv'
BY DEF vars, server, setting, IInv, TypeInv, IdentityInv, KeysInv, RoundInv, AtRound,
       SecretInv, MediaInv, Agreed, PinInv

LEMMA NextKeeps == IInv /\ [Next]_vars => IInv'
<1> SUFFICES ASSUME IInv, [Next]_vars PROVE IInv'
  OBVIOUS
<1>1. CASE LoadIdentity \/ CreateIdentity \/ CrashWriting \/ Restart
  BY <1>1, LoadIdentityKeeps, CreateIdentityKeeps, CrashWritingKeeps, RestartKeeps
<1>2. ASSUME NEW c \in Conns,
             PairSetup(c) \/ PairSetupShort(c) \/ PairSetupPin(c)
             \/ \E right, accepted \in BOOLEAN : PairVerifyPin(c, right, accepted)
      PROVE  IInv'
  BY <1>2, PairSetupKeeps, PairSetupAnswerKeeps, PairVerifyPinKeeps
<1>3. ASSUME NEW c \in Conns,
             PairVerifyM1(c) \/ \E d \in Conns : PairVerifyM2(c, d)
      PROVE  IInv'
  BY <1>3, PairVerifyM1Keeps, PairVerifyM2Keeps
<1>4. ASSUME NEW c \in Conns,
             FairPlaySetup(c) \/ Announce(c) \/ SetupKeyed(c)
             \/ \E audio \in BOOLEAN : SetupStreams(c, audio)
             \/ Record(c) \/ Pause(c) \/ Teardown(c)
      PROVE  IInv'
  BY <1>4, FairPlaySetupKeeps, AnnounceKeeps, SetupKeyedKeeps, SetupStreamsKeeps,
     RecordKeeps, PauseKeeps, TeardownKeeps
<1>5. CASE UNCHANGED vars
  BY <1>5, StutterKeeps
<1>6. QED
  BY <1>1, <1>2, <1>3, <1>4, <1>5 DEF Next

THEOREM Invariance == Spec => []IInv
<1>1. Init => IInv
  BY InitKeeps
<1>2. IInv /\ [Next]_vars => IInv'
  BY NextKeeps
<1>3. QED
  BY <1>1, <1>2, PTL DEF Spec

\* The state of every connection has its type, whatever the devices.
THEOREM TypeCorrect == Spec => []TypeInv
<1>1. IInv => TypeInv
  BY DEF IInv
<1>2. QED
  BY <1>1, Invariance, PTL

\* Receiver and client accept each other, on any number of connections of any
\* devices, over any number of restarts (handle_pair_verify).
THEOREM Accepted == Spec => []HonestAccepted
<1>1. IInv => HonestAccepted
  BY DEF IInv, TypeInv, RoundInv, IdentityInv, HonestAccepted
<1>2. QED
  BY <1>1, Invariance, PTL

\* No signature made for another round verifies a connection.
THEOREM OnlyOwnSignature == Spec => []VerifiedSigned
<1>1. IInv => VerifiedSigned
  BY DEF IInv, RoundInv, VerifiedSigned
<1>2. QED
  BY <1>1, Invariance, PTL

\* Client and session have one media key (derive_media_keys).
THEOREM KeysAgree == Spec => []MediaKeyAgrees
<1>1. IInv => MediaKeyAgrees
  BY DEF IInv, MediaInv, Agreed, MediaKeyAgrees
<1>2. QED
  BY <1>1, Invariance, PTL

\* Only devices that proved the PIN are on the list, and only for them does
\* ANNOUNCE configure a session, for any number of connections and devices;
\* SETUP of AirPlay 2 asks for no proof (on_announce, on_setup_ap2).
THEOREM AnnounceNeedsProof == Spec => []PinGuards
<1>1. IInv => PinGuards
  BY DEF IInv, PinInv, PinGuards
<1>2. QED
  BY <1>1, Invariance, PTL
=============================================================================
