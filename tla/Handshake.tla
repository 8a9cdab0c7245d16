------------------------------ MODULE Handshake ------------------------------
(***************************************************************************)
(* The way from a new connection to media both sides can read: pairing     *)
(* (core/airplay_pairing.cpp), the FairPlay messages, SETUP and RECORD, as *)
(* the handlers of core/airplay_server_impl.cpp and the keys of            *)
(* core/airplay_session_impl.cpp carry it, for several connections at once *)
(* and over restarts of the receiver.                                      *)
(*                                                                         *)
(* A step is one request: its handler, and the client that reads the       *)
(* answer.  A client sends one request at a time on a connection, what the *)
(* handlers share between connections (paired_ips_, the table) is behind   *)
(* locks and only ever grows under them, and all the rest is of the one    *)
(* connection: so requests of different connections interleave whole.      *)
(***************************************************************************)
EXTENDS Integers, FiniteSets, Pairing

CONSTANTS
    Conns,        \* connections
    Devices,      \* devices, by the number of their key; each has one address
    Limits,       \* values of ServerConfig::max_sessions
    MaxKeys,      \* bound: keys drawn in a behaviour
    MaxRestarts   \* bound: restarts of the receiver

ASSUME DevicesNumbered == Devices \subseteq Nat \ {0}
ASSUME BoundsNat == Limits \subseteq Nat /\ MaxKeys \in Nat /\ MaxRestarts \in Nat

VARIABLES
    pin,        \* a PIN is configured
    persists,   \* identity_key_path names a file; by default there is none
    max_sessions,
    device,     \* the device behind each connection
    fresh,      \* the last key drawn, by anybody
    identity,   \* the receiver's long-term key, 0 before it is loaded
    file,       \* the file of its seed: 0 none, -1 a part of it, or the seed
    restarts,
    paired,     \* paired_ips_
    verify,     \* verify_states_
    keymsg,     \* fp_keymsg_
    table,      \* sessions_
    session,    \* what a session keeps, by connection
    client,     \* the client's side of each connection
    proved,     \* devices that sent the right PIN or were accepted by hand
    known       \* the identity each device was told, 0 none

setting == <<pin, persists, max_sessions, device>>
server == <<setting, identity, file, restarts>>
vars == <<server, fresh, paired, verify, keymsg, table, session, client, proved, known>>

\* SessionImpl, as far as keys go, and the requests its audio was configured by.
NewSession == [ekey |-> 0, under |-> 0, configured |-> {}, playing |-> FALSE,
               key |-> {}]

\* A client: its M1 key and our answer to it, the secret, its FairPlay
\* message, its media key before and after RECORD.
\* round: "none", "asked" with an answered M1, "signed" with its M2 sent.
NewClient == [key |-> 0, theirs |-> 0, secret |-> {}, round |-> "none", heard |-> 0,
              msg |-> 0, raw |-> 0, keyed |-> FALSE, media |-> {}, refused |-> FALSE]

\* SHA512(raw || ecdh_secret).
MediaKey(raw, secret) == {raw} \cup secret

Init ==
    /\ pin \in BOOLEAN /\ persists \in BOOLEAN /\ max_sessions \in Limits
    /\ device \in [Conns -> Devices]
    /\ fresh = 0 /\ identity = 0 /\ file = 0 /\ restarts = 0
    /\ paired = {} /\ proved = {}
    /\ verify = [c \in Conns |-> NewVerify]
    /\ keymsg = [c \in Conns |-> 0]
    /\ table = {} /\ session = [c \in Conns |-> NewSession]
    /\ client = [c \in Conns |-> NewClient]
    /\ known = [d \in Devices |-> 0]

Up == identity # 0
Draws(n) == fresh + n <= MaxKeys /\ fresh' = fresh + n

-----------------------------------------------------------------------------
(* The identity.  The process may end at any time, also while it writes.   *)

\* A seed file of the right length is used.
LoadIdentity ==
    /\ ~Up /\ file > 0
    /\ identity' = file
    /\ UNCHANGED <<setting, file, restarts, fresh, paired, verify, keymsg, table, session,
                   client, proved, known>>

\* Otherwise a new seed is drawn, and written before the receiver serves if
\* there is a file to write it to.
CreateIdentity ==
    /\ ~Up /\ file <= 0
    /\ Draws(1)
    /\ identity' = fresh + 1
    /\ file' = IF persists THEN fresh + 1 ELSE file
    /\ UNCHANGED <<setting, restarts, paired, verify, keymsg, table, session, client,
                   proved, known>>

\* The process ends in the middle of writing the seed.
CrashWriting ==
    /\ ~Up /\ persists /\ file <= 0 /\ restarts < MaxRestarts
    /\ Draws(1)
    /\ restarts' = restarts + 1
    /\ file' = -1
    /\ UNCHANGED <<setting, identity, paired, verify, keymsg, table, session, client,
                   proved, known>>

\* The process ends and starts again; connections are numbered from 1 again.
Restart ==
    /\ Up /\ restarts < MaxRestarts
    /\ restarts' = restarts + 1
    /\ identity' = 0
    /\ paired' = {} /\ proved' = {} /\ table' = {}
    /\ verify' = [c \in Conns |-> NewVerify]
    /\ keymsg' = [c \in Conns |-> 0]
    /\ session' = [c \in Conns |-> NewSession]
    /\ client' = [c \in Conns |-> NewClient]
    /\ UNCHANGED <<setting, fresh, file, known>>

-----------------------------------------------------------------------------
(* ensure_session and drop_session. *)

Room(c) == c \in table \/ Cardinality(table) < max_sessions

Ensured(c) == IF Room(c) THEN table \cup {c} ELSE table

EnsureSession(c) == table' = Ensured(c)

-----------------------------------------------------------------------------
(* Pairing. *)

\* The client sends its key: it is paired at once and told our key.
PairSetup(c) ==
    /\ Up /\ ~pin
    /\ EnsureSession(c)
    /\ paired' = paired \cup {device[c]}
    /\ verify' = [verify EXCEPT ![c].setup_done = TRUE]
    /\ known' = [known EXCEPT ![device[c]] = identity]
    /\ UNCHANGED <<server, fresh, keymsg, session, client, proved>>

\* A short body goes to the session's FairPlaySap; its first message is all
\* that gets there, a longer one has room for a key and is taken for one: it
\* never completes, and on_announce finds it so.
PairSetupShort(c) ==
    /\ Up /\ ~pin
    /\ EnsureSession(c)
    /\ UNCHANGED <<server, fresh, paired, verify, keymsg, session, client, proved, known>>

\* Variant: asking for the PIN pairs already.
PairSetupPinPairs(c) ==
    /\ Up /\ pin
    /\ EnsureSession(c)
    /\ paired' = paired \cup {device[c]}
    /\ UNCHANGED <<server, fresh, verify, keymsg, session, client, proved, known>>

\* With a PIN the answer only asks for it.
PairSetupPin(c) ==
    /\ Up /\ pin
    /\ EnsureSession(c)
    /\ UNCHANGED <<server, fresh, paired, verify, keymsg, session, client, proved, known>>

\* The digits of the body are compared, then the application is asked.
PairVerifyPin(c, right, accepted) ==
    /\ Up /\ pin
    /\ paired' = IF right \/ accepted THEN paired \cup {device[c]} ELSE paired
    /\ proved' = IF right \/ accepted THEN proved \cup {device[c]} ELSE proved
    /\ UNCHANGED <<server, fresh, verify, keymsg, table, session, client, known>>

\* A client pairs before it sets its media up.  It reads the answer, if there
\* is one: our key, and who signed.
PairVerifyM1(c) ==
    /\ Up /\ ~pin /\ client[c].raw = 0
    /\ Draws(1)
    /\ LET body == M1Body(fresh + 1, device[c])
           st   == Verify(verify[c], body, -(fresh + 1))
           out  == M1Answer(identity, st)
           sec  == Shared(fresh + 1, out.key)
           sig  == Unmasked(sec, 1, out.sig)
       IN  /\ verify' = [verify EXCEPT ![c] = st]
           /\ client' = IF Waved(verify[c], body) THEN client
                        ELSE [client EXCEPT ![c].key = fresh + 1, ![c].theirs = out.key,
                                 ![c].secret = sec, ![c].round = "asked",
                                 ![c].heard = IF sig = Signed(sig.by, out.key, fresh + 1)
                                              THEN sig.by ELSE 0]
    /\ UNCHANGED <<server, paired, keymsg, table, session, proved, known>>

\* The signature the client of d makes for its round; only its own, when d is
\* c, is in place.
Signature(d) ==
    Masked(client[d].secret, 2, Signed(device[d], client[d].key, client[d].theirs))

PairVerifyM2(c, d) ==
    /\ Up /\ ~pin
    /\ client[c].round = "asked" /\ client[d].round # "none"
    /\ LET body == M2Body(Signature(d))
       IN  /\ verify' = [verify EXCEPT ![c] = Verify(@, body, 0)]
           /\ paired' = IF Pairs(verify[c], body) THEN paired \cup {device[c]} ELSE paired
           /\ client' = IF c # d THEN client
                        ELSE [client EXCEPT ![c].round = "signed",
                                            ![c].refused = ~PinOk(verify[c], body)]
    /\ UNCHANGED <<server, fresh, keymsg, table, session, proved, known>>

-----------------------------------------------------------------------------
(* Media. *)

\* The third FairPlay message is kept for RECORD.
FairPlaySetup(c) ==
    /\ Up /\ client[c].raw = 0
    /\ Draws(1)
    /\ keymsg' = [keymsg EXCEPT ![c] = fresh + 1]
    /\ client' = [client EXCEPT ![c].msg = fresh + 1]
    /\ UNCHANGED <<server, paired, verify, table, session, proved, known>>

\* on_announce with a PIN: configured only for a paired client; without one
\* every client is, see Session.
Announce(c) ==
    /\ Up /\ pin
    /\ EnsureSession(c)
    /\ session' = IF Room(c) /\ device[c] \in paired
                  THEN [session EXCEPT ![c].configured = @ \cup {"ANNOUNCE"}] ELSE session
    /\ UNCHANGED <<server, fresh, paired, verify, keymsg, client, proved, known>>

\* SETUP with the media key under the FairPlay message.  The client does not
\* change keys while it plays.
SetupKeyed(c) ==
    /\ Up /\ client[c].round # "asked" /\ ~session[c].playing /\ client[c].msg # 0
    /\ Draws(1)
    /\ EnsureSession(c)
    /\ session' = IF ~Room(c) THEN session
                  ELSE [session EXCEPT ![c].ekey = fresh + 1, ![c].under = client[c].msg]
    /\ client' = IF ~Room(c) THEN client
                 ELSE [client EXCEPT ![c].raw = fresh + 1, ![c].keyed = TRUE]
    /\ UNCHANGED <<server, paired, verify, keymsg, proved, known>>

\* SETUP of streams without a key takes the kept one away; one with audio
\* configures it, and asks for no PIN.
SetupStreams(c, audio) ==
    /\ Up
    /\ EnsureSession(c)
    /\ session' = IF ~Room(c) THEN session
                  ELSE [session EXCEPT ![c].ekey = 0, ![c].under = 0,
                           ![c].configured = IF audio THEN @ \cup {"SETUP"} ELSE @]
    /\ client' = [client EXCEPT ![c].keyed = FALSE]
    /\ UNCHANGED <<server, fresh, paired, verify, keymsg, proved, known>>

\* derive_media_keys: the key out of ekey, if it was made under this message.
Raw(c) == IF session[c].under = keymsg[c] THEN session[c].ekey ELSE 0

Record(c) ==
    /\ Up /\ c \in table /\ ~session[c].playing
    /\ session' = [session EXCEPT ![c].playing = TRUE,
                      ![c].key = IF session[c].ekey # 0 /\ keymsg[c] # 0
                                 THEN MediaKey(Raw(c), verify[c].secret) ELSE @]
    /\ client' = IF ~client[c].keyed THEN client
                 ELSE [client EXCEPT ![c].media = MediaKey(client[c].raw, client[c].secret)]
    /\ UNCHANGED <<server, fresh, paired, verify, keymsg, table, proved, known>>

Pause(c) ==
    /\ Up /\ c \in table /\ session[c].playing
    /\ session' = [session EXCEPT ![c].playing = FALSE]
    /\ UNCHANGED <<server, fresh, paired, verify, keymsg, table, client, proved, known>>

\* Variant: the state of the pairing outlives the session.
TeardownKeepsVerify(c) ==
    /\ Up /\ c \in table
    /\ table' = table \ {c}
    /\ session' = [session EXCEPT ![c] = NewSession]
    /\ keymsg' = [keymsg EXCEPT ![c] = 0]
    /\ client' = [client EXCEPT ![c] = NewClient]
    /\ UNCHANGED <<server, fresh, paired, verify, proved, known>>

\* TEARDOWN: nothing without a session; with one, its connection starts over.
Teardown(c) ==
    /\ Up /\ c \in table
    /\ table' = table \ {c}
    /\ session' = [session EXCEPT ![c] = NewSession]
    /\ verify' = [verify EXCEPT ![c] = NewVerify]
    /\ keymsg' = [keymsg EXCEPT ![c] = 0]
    /\ client' = [client EXCEPT ![c] = NewClient]
    /\ UNCHANGED <<server, fresh, paired, proved, known>>

-----------------------------------------------------------------------------
Next ==
    \/ LoadIdentity \/ CreateIdentity \/ CrashWriting \/ Restart
    \/ \E c \in Conns :
          \/ PairSetup(c) \/ PairSetupShort(c) \/ PairSetupPin(c)
          \/ \E right, accepted \in BOOLEAN : PairVerifyPin(c, right, accepted)
          \/ PairVerifyM1(c) \/ \E d \in Conns : PairVerifyM2(c, d)
          \/ FairPlaySetup(c) \/ Announce(c)
          \/ SetupKeyed(c) \/ \E audio \in BOOLEAN : SetupStreams(c, audio)
          \/ Record(c) \/ Pause(c) \/ Teardown(c)

Spec == Init /\ [][Next]_vars

-----------------------------------------------------------------------------
(* The types of the state. *)
VerifyStates ==
    [ours : Int, theirs : Nat, ed : Nat, secret : SUBSET Int, stage : {0, 1, 2},
     setup_done : BOOLEAN]
Sessions ==
    [ekey : Nat, under : Nat, configured : SUBSET {"ANNOUNCE", "SETUP"},
     playing : BOOLEAN, key : SUBSET Int]
Clients ==
    [key : Nat, theirs : Int, secret : SUBSET Int, round : {"none", "asked", "signed"},
     heard : Nat, msg : Nat, raw : Nat, keyed : BOOLEAN, media : SUBSET Int,
     refused : BOOLEAN]

TypeInv ==
    /\ pin \in BOOLEAN /\ persists \in BOOLEAN /\ max_sessions \in Nat
    /\ device \in [Conns -> Devices]
    /\ fresh \in Nat /\ identity \in Nat /\ file \in Int /\ restarts \in Nat
    /\ paired \subseteq Devices /\ proved \subseteq Devices /\ table \subseteq Conns
    /\ known \in [Devices -> Nat] /\ keymsg \in [Conns -> Nat]
    /\ verify \in [Conns -> VerifyStates]
    /\ session \in [Conns -> Sessions]
    /\ client \in [Conns -> Clients]

\* A client that signs its own round is never refused, whatever the other
\* connections of its device do meanwhile, and it hears the identity of this
\* start.  When identity_key_path names a file, that is the identity its device
\* was ever told, also before a restart; without one every start has its own
\* (handle_pair_verify, load_or_create_identity).
HonestAccepted ==
    \A c \in Conns :
        /\ ~client[c].refused
        /\ client[c].round # "none" => client[c].heard = identity
        /\ persists /\ client[c].round # "none" /\ known[device[c]] # 0 =>
              client[c].heard = known[device[c]]

\* A connection counts as verified only by a signature of its own round, not
\* by one that was made for another connection (handle_pair_verify).
VerifiedSigned ==
    \A c \in Conns : verify[c].stage = 2 => client[c].round = "signed"

\* What a session decrypts with is what its client encrypts with, and it does
\* decrypt when the last SETUP before RECORD had the key in it
\* (derive_media_keys, drop_session).
MediaKeyAgrees ==
    \A c \in Conns :
        /\ session[c].key # {} => session[c].key = client[c].media
        /\ session[c].playing /\ client[c].keyed => session[c].key # {}

\* With a PIN the list of the paired has only devices that proved the PIN, or
\* that the application accepted, and so has a session that ANNOUNCE configured
\* (handle_pair_setup, on_announce).  It is ANNOUNCE alone that asks: a SETUP of
\* AirPlay 2 configures a session for anybody (on_setup_ap2), and the property
\* says nothing of those.
PinGuards ==
    pin => /\ paired \subseteq proved
           /\ \A c \in Conns :
                 "ANNOUNCE" \in session[c].configured => device[c] \in proved
=============================================================================
