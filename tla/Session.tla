------------------------------ MODULE Session ------------------------------
(***************************************************************************)
(* The life of one session (src/core/airplay_session_impl.cpp) as the      *)
(* handlers of the RTSP server drive it: ANNOUNCE, SETUP of both protocol  *)
(* generations, RECORD, PAUSE, /rate, /stop and TEARDOWN, in any order a   *)
(* client may send them, the application's disconnect(), and the four      *)
(* threads they start and join.                                            *)
(*                                                                         *)
(* start_streaming and stop_streaming are one action per call they make,   *)
(* so that threads end, and callers overlap, between any two of them; the  *)
(* other calls start or join no more than one thread and are one action    *)
(* each.  What the threads do with the media is in Playback.               *)
(***************************************************************************)
EXTENDS Naturals

CONSTANTS
    Rtsp, App,   \* the session's RTSP connection, and an application thread
    Ekeys,       \* the encrypted keys a SETUP may bring
    ConnIds,     \* the stream connection ids a SETUP may bring
    None,        \* no key, no id
    SdpKey,      \* the key an SDP brings for the video
    Serialised   \* disconnect() and the connection's handlers never overlap

ASSUME SessionAssumption ==
    /\ Rtsp # App
    /\ None \notin Ekeys \cup ConnIds
    /\ Serialised \in BOOLEAN

Callers == {Rtsp, App}

VARIABLES
    state,         \* state_
    playing,       \* playing_
    videoPlaying,  \* video_playing_
    playbackStop,  \* playback_stop_
    timingStop,    \* timing_stop_
    timingPort,    \* client_timing_port_ is known
    ports,         \* rtp_local_ports_ are set
    videoPort,     \* video_local_port_ is set
    videoCfg,      \* video_cfg_ was set by an SDP
    rtp, video,    \* rtp_ and video_rtp_: socket, flags and thread
    playback,      \* playback_thread_
    timing,        \* timing_thread_
    call,          \* per caller: the next step of the call under way
    then,          \* per caller: what follows stop_streaming
    renderer,      \* the last transport call the audio renderer was given
    \* media keys
    keymsg,        \* the server has this connection's keymsg
    ekey,          \* ap2_ekey_
    connId,        \* stream_connection_id_
    ready,         \* media_keys_ready_
    audioKey,      \* audio_key_: the ekey it was derived from
    videoKey,      \* video_key_: the audio key and the id it was derived from
    rxKey          \* the key given to the video receiver

flags   == <<playing, videoPlaying, playbackStop, timingStop>>
setup   == <<timingPort, ports, videoPort, videoCfg>>
workers == <<rtp, video, playback, timing>>
keys    == <<keymsg, ekey, connId, ready, audioKey, videoKey, rxKey>>
calls   == <<call, then>>
vars    == <<state, flags, setup, workers, calls, renderer, keys>>

(* A Thread object has no thread, a live one, or one that has ended and    *)
(* has not been joined; start() does nothing unless there is none.         *)
ThreadStates == {"none", "live", "ended"}
Started(t) == IF t = "none" THEN "live" ELSE t

(* A receiver: the kind of socket it is bound to, whether start() came     *)
(* before the socket, running_, its thread and what that thread waits for: *)
(* select(), or a frame of a pushed stream in a blocking recv().           *)
Kinds == {"closed", "udp", "tcp"}
Closed == [sock |-> "closed", deferred |-> FALSE, running |-> FALSE,
           thread |-> "none", wait |-> "udp"]

(* start() of a receiver.                                                  *)
StartedRx(v) ==
    IF v.sock = "closed" THEN [v EXCEPT !.deferred = TRUE]
    ELSE IF v.running THEN [v EXCEPT !.deferred = FALSE]
    ELSE [v EXCEPT !.deferred = FALSE, !.running = TRUE, !.thread = Started(@),
                   !.wait = v.sock]

(* Variants of some definitions, each with the one slip its comment names, *)
(* show that the properties can tell the code from a wrong one.  Here: a   *)
(* start that came before the socket is not made up for.                   *)
OpenedOnly(v, kind) == [v EXCEPT !.sock = kind]

(* open() that finds a free port.                                          *)
Opened(v, kind) ==
    LET o == [v EXCEPT !.sock = kind]
    IN  IF v.deferred THEN StartedRx(o) ELSE o

Init ==
    /\ state = "CONNECTED"
    /\ playing = FALSE /\ videoPlaying = FALSE
    /\ playbackStop = FALSE /\ timingStop = FALSE
    /\ timingPort = FALSE /\ ports = FALSE /\ videoPort = FALSE /\ videoCfg = FALSE
    /\ rtp = Closed /\ video = Closed /\ playback = "none" /\ timing = "none"
    /\ call = [c \in Callers |-> "idle"] /\ then = [c \in Callers |-> "return"]
    /\ renderer = "none"
    /\ keymsg = FALSE /\ ekey = None /\ connId = None
    /\ ready = FALSE /\ audioKey = None /\ videoKey = None /\ rxKey = None
-----------------------------------------------------------------------------
(* A call begins when its caller is idle, and with Serialised when the     *)
(* other one is too.                                                       *)
AtRest == \A c \in Callers : call[c] = "idle"

MayEnter(c) == call[c] = "idle" /\ (Serialised => AtRest)

Handler == MayEnter(Rtsp)

Enter(c, step, next) ==
    /\ MayEnter(c)
    /\ call' = [call EXCEPT ![c] = step]
    /\ then' = [then EXCEPT ![c] = next]

(* fp-setup: the server keeps the keymsg (on_fairplay_setup).              *)
FairplaySetup ==
    /\ Handler
    /\ keymsg' = TRUE
    /\ UNCHANGED <<state, flags, setup, workers, calls, renderer, ekey,
                   connId, ready, audioKey, videoKey, rxKey>>

(* on_announce: configure_audio, and configure_video when the SDP has      *)
(* video, with the SDP's own key when it has one.                          *)
Announce(hasVideo, keyed) ==
    /\ Handler
    /\ state' = "READY"
    /\ videoCfg' = (videoCfg \/ hasVideo)
    /\ rxKey' = IF hasVideo /\ keyed THEN SdpKey ELSE rxKey
    /\ UNCHANGED <<flags, timingPort, ports, videoPort, workers, calls,
                   renderer, keymsg, ekey, connId, ready, audioKey, videoKey>>

(* on_setup: the audio ports are opened once, a video port every time;     *)
(* foundAudio and foundVideo say whether open() finds free ports.          *)
Setup(foundAudio, foundVideo) ==
    LET audioOk == ports \/ foundAudio
        videoOk == audioOk /\ (videoPort \/ videoCfg) /\ foundVideo
    IN  /\ Handler
        /\ ports' = audioOk
        /\ rtp' = IF foundAudio /\ ~ports THEN Opened(rtp, "udp") ELSE rtp
        /\ videoPort' = (videoPort \/ videoOk)
        /\ video' = IF videoOk THEN Opened(video, "udp") ELSE video
        /\ rxKey' = IF videoOk /\ ready THEN videoKey ELSE rxKey
        /\ UNCHANGED <<state, flags, timingPort, videoCfg, playback, timing,
                       calls, renderer, keymsg, ekey, connId, ready, audioKey,
                       videoKey>>

(* update_video_media_key: the video key once both its parts are known.    *)
UpdatedVideoKey(id) == IF ready /\ id # None THEN <<audioKey, id>> ELSE videoKey

(* Variant: the key derived at RECORD is kept.                             *)
SetupAp2Key(id, opened) == IF ready /\ opened THEN videoKey ELSE rxKey

(* What the video receiver is given by a SETUP with a video stream: by     *)
(* update_video_media_key when it has had a port, by allocate_video_port   *)
(* when it gets one.                                                       *)
ReceiverKey(id, opened) ==
    IF ready /\ (opened \/ (id # None /\ videoPort)) THEN UpdatedVideoKey(id) ELSE rxKey

(* on_setup_ap2: a binary plist with or without an ekey e, a timing port,  *)
(* an audio stream and a video stream with its connection id.              *)
SetupAp2(e, port, audioStream, videoStream, id, foundAudio, foundVideo) ==
    LET wanted == audioStream \/ videoStream \/ e # None
        failed == wanted /\ ~ports /\ ~foundAudio
        opened == videoStream /\ ~failed /\ foundVideo
        live   == opened /\ state = "PLAYING" /\ ~videoPlaying
    IN  /\ Handler
        /\ ekey' = e
        /\ timingPort' = (timingPort \/ port)
        /\ connId' = IF videoStream THEN id ELSE connId
        /\ renderer' = IF audioStream /\ playing THEN "play" ELSE renderer
        /\ ports' = (ports \/ (wanted /\ foundAudio))
        /\ rtp' = IF wanted /\ foundAudio /\ ~ports THEN Opened(rtp, "udp") ELSE rtp
        /\ videoKey' = IF videoStream /\ ~failed THEN UpdatedVideoKey(id) ELSE videoKey
        /\ rxKey' = IF videoStream /\ ~failed THEN ReceiverKey(id, opened) ELSE rxKey
        /\ videoPort' = (videoPort \/ opened)
        /\ videoPlaying' = (videoPlaying \/ live)
        /\ video' = IF live THEN StartedRx(Opened(video, "tcp"))
                    ELSE IF opened THEN Opened(video, "tcp") ELSE video
        /\ UNCHANGED <<state, playing, playbackStop, timingStop, videoCfg,
                       playback, timing, calls, keymsg, ready, audioKey>>

(* pause_streaming, and /rate 0, which tells the renderer whatever the     *)
(* state.                                                                  *)
PauseEffect == playing' = FALSE /\ state' = IF playing THEN "PAUSED" ELSE state

Pause ==
    /\ Handler
    /\ PauseEffect
    /\ renderer' = IF playing THEN "pause" ELSE renderer
    /\ UNCHANGED <<videoPlaying, playbackStop, timingStop, setup, workers,
                   calls, keys>>

RateZero ==
    /\ Handler
    /\ PauseEffect
    /\ renderer' = "pause"
    /\ UNCHANGED <<videoPlaying, playbackStop, timingStop, setup, workers,
                   calls, keys>>

(* Variant: resume_streaming does not set playing_.                        *)
RateOneSilent ==
    /\ Handler
    /\ renderer' = "play"
    /\ state' = IF state = "PAUSED" THEN "PLAYING" ELSE state
    /\ UNCHANGED <<flags, setup, workers, calls, keys>>

(* /rate with another value: resume_streaming when paused.                 *)
RateOne ==
    /\ Handler
    /\ renderer' = "play"
    /\ LET resume == state = "PAUSED" /\ ~playing
       IN  /\ state' = IF resume THEN "PLAYING" ELSE state
           /\ playing' = (playing \/ resume)
    /\ UNCHANGED <<videoPlaying, playbackStop, timingStop, setup, workers,
                   calls, keys>>
-----------------------------------------------------------------------------
(* start_streaming, on RECORD: derive_media_keys, the receiver, the        *)
(* playback and the timing thread, the video, the state.                   *)
Goto(c, from, to) == call[c] = from /\ call' = [call EXCEPT ![c] = to]

Derived == ekey # None /\ keymsg

Record ==
    /\ state # "PLAYING"
    /\ Enter(Rtsp, "start rtp", "return")
    /\ playbackStop' = FALSE
    /\ ready' = IF ekey # None THEN keymsg ELSE ready
    /\ audioKey' = IF Derived THEN ekey ELSE audioKey
    /\ videoKey' = IF Derived /\ connId # None THEN <<ekey, connId>> ELSE videoKey
    /\ rxKey' = IF Derived /\ videoPort
                THEN IF connId # None THEN <<ekey, connId>> ELSE videoKey
                ELSE rxKey
    /\ UNCHANGED <<state, playing, videoPlaying, timingStop, setup, workers,
                   renderer, keymsg, ekey, connId>>

StartRtp ==
    /\ Goto(Rtsp, "start rtp", "start threads")
    /\ rtp' = StartedRx(rtp)
    /\ UNCHANGED <<state, flags, setup, video, playback, timing, then,
                   renderer, keys>>

StartThreads ==
    /\ Goto(Rtsp, "start threads", "start video")
    /\ playback' = Started(playback)
    /\ timing' = IF timingPort /\ ~timingStop THEN Started(timing) ELSE timing
    /\ UNCHANGED <<state, flags, setup, rtp, video, then, renderer, keys>>

StartVideo ==
    /\ Goto(Rtsp, "start video", "started")
    /\ playing' = TRUE
    /\ videoPlaying' = (videoPlaying \/ videoPort)
    /\ video' = IF videoPort /\ ~videoPlaying THEN StartedRx(video) ELSE video
    /\ UNCHANGED <<state, playbackStop, timingStop, setup, rtp, playback,
                   timing, then, renderer, keys>>

StartDone ==
    /\ Goto(Rtsp, "started", "idle")
    /\ state' = "PLAYING"
    /\ renderer' = "play"
    /\ UNCHANGED <<flags, setup, workers, then, keys>>
-----------------------------------------------------------------------------
(* stop_streaming, on /stop, TEARDOWN and disconnect(): the flags, then    *)
(* each thread asked to end and joined, then the renderers and the state.  *)
(* TEARDOWN stops three times over: the handler itself, disconnect() in    *)
(* drop_session, and the destructor.                                       *)
Stop ==
    /\ Enter(Rtsp, "stop", "return")
    /\ UNCHANGED <<state, flags, setup, workers, renderer, keys>>

Teardown ==
    /\ Enter(Rtsp, "stop", "drop")
    /\ UNCHANGED <<state, flags, setup, workers, renderer, keys>>

Disconnect ==
    /\ call[Rtsp] # "gone"
    /\ Enter(App, "stop", "close")
    /\ UNCHANGED <<state, flags, setup, workers, renderer, keys>>

(* Variant: the timing thread is joined without being told to end.         *)
StopFlagsUntold(c) ==
    /\ Goto(c, "stop", IF timingStop THEN "stop rtp" ELSE "join timing")
    /\ playbackStop' = TRUE /\ playing' = FALSE /\ videoPlaying' = FALSE
    /\ UNCHANGED <<state, timingStop, setup, workers, then, renderer, keys>>

StopFlags(c) ==
    /\ Goto(c, "stop", IF timingStop THEN "stop rtp" ELSE "join timing")
    /\ playbackStop' = TRUE /\ playing' = FALSE /\ videoPlaying' = FALSE
    /\ timingStop' = TRUE
    /\ UNCHANGED <<state, setup, workers, then, renderer, keys>>

JoinTiming(c) ==
    /\ timing # "live"
    /\ Goto(c, "join timing", "stop rtp")
    /\ timing' = "none"
    /\ UNCHANGED <<state, flags, setup, rtp, video, playback, then, renderer,
                   keys>>

(* Variant: a start that waits for its socket is left waiting.             *)
StoppedRxWaiting(v) == [v EXCEPT !.running = FALSE, !.sock = "closed"]

StoppedRx(v) == [v EXCEPT !.deferred = FALSE, !.running = FALSE, !.sock = "closed"]

StopRtp(c) ==
    /\ Goto(c, "stop rtp", IF rtp.running THEN "join rtp" ELSE "stop video")
    /\ rtp' = IF rtp.running THEN [rtp EXCEPT !.deferred = FALSE, !.running = FALSE]
              ELSE StoppedRx(rtp)
    /\ UNCHANGED <<state, flags, setup, video, playback, timing, then,
                   renderer, keys>>

JoinRtp(c) ==
    /\ rtp.thread # "live"
    /\ Goto(c, "join rtp", "stop video")
    /\ rtp' = [StoppedRx(rtp) EXCEPT !.thread = "none"]
    /\ UNCHANGED <<state, flags, setup, video, playback, timing, then,
                   renderer, keys>>

(* The video sockets are closed before the thread is joined.               *)
StopVideo(c) ==
    /\ Goto(c, "stop video", IF video.running THEN "join video" ELSE "join playback")
    /\ video' = StoppedRx(video)
    /\ UNCHANGED <<state, flags, setup, rtp, playback, timing, then, renderer,
                   keys>>

JoinVideo(c) ==
    /\ video.thread # "live"
    /\ Goto(c, "join video", "join playback")
    /\ video' = [video EXCEPT !.thread = "none"]
    /\ UNCHANGED <<state, flags, setup, rtp, playback, timing, then, renderer,
                   keys>>

JoinPlayback(c) ==
    /\ playback # "live"
    /\ Goto(c, "join playback", "stopped")
    /\ playback' = "none"
    /\ UNCHANGED <<state, flags, setup, rtp, video, timing, then, renderer,
                   keys>>

(* The end of stop_streaming and what its caller does next: disconnect()   *)
(* closes the session, TEARDOWN goes on to disconnect and destroy it.      *)
StopDone(c) ==
    /\ Goto(c, "stopped", CASE then[c] \in {"return", "close"} -> "idle"
                            [] then[c] \in {"drop", "leave"}   -> "stop"
                            [] then[c] = "destroy"             -> "gone")
    /\ then' = [then EXCEPT ![c] = CASE @ = "drop"  -> "leave"
                                     [] @ = "leave" -> "destroy"
                                     [] OTHER       -> @]
    /\ state' = IF state = "CLOSED" \/ then[c] \in {"leave", "close"}
                THEN "CLOSED" ELSE "IDLE"
    /\ renderer' = "stop"
    /\ UNCHANGED <<flags, setup, workers, keys>>
-----------------------------------------------------------------------------
(* The threads.  The receivers end when they see running_ cleared or their *)
(* socket closed, playback when it sees playback_stop_, timing when it     *)
(* sees timing_stop_ or has no socket to send from.                        *)
Ended(v, stop) == v.thread = "live" /\ stop /\ v.wait # "recv"

RtpEnds ==
    /\ Ended(rtp, ~rtp.running)
    /\ rtp' = [rtp EXCEPT !.thread = "ended"]
    /\ UNCHANGED <<state, flags, setup, video, playback, timing, calls,
                   renderer, keys>>

VideoEnds ==
    /\ Ended(video, ~video.running)
    /\ video' = [video EXCEPT !.thread = "ended"]
    /\ UNCHANGED <<state, flags, setup, rtp, playback, timing, calls,
                   renderer, keys>>

(* The client connects to the TCP port and the thread waits in recv() for  *)
(* a frame, closing the socket does not wake it: Socket::close() does not  *)
(* shut the connection down, and a recv() under way on Linux goes on.      *)
AwaitFrame ==
    /\ video.thread = "live" /\ video.running /\ video.wait = "tcp"
    /\ video' = [video EXCEPT !.wait = "recv"]
    /\ UNCHANGED <<state, flags, setup, rtp, playback, timing, calls,
                   renderer, keys>>

(* The client pushes a frame, or closes the connection.                    *)
FrameCame ==
    /\ video.thread = "live" /\ video.wait = "recv"
    /\ video' = [video EXCEPT !.wait = "tcp"]
    /\ UNCHANGED <<state, flags, setup, rtp, playback, timing, calls,
                   renderer, keys>>

PlaybackEnds ==
    /\ playback = "live" /\ playbackStop
    /\ playback' = "ended"
    /\ UNCHANGED <<state, flags, setup, rtp, video, timing, calls, renderer,
                   keys>>

TimingSeesStop ==
    /\ timing = "live" /\ timingStop
    /\ timing' = "ended"
    /\ UNCHANGED <<state, flags, setup, rtp, video, playback, calls, renderer,
                   keys>>

TimingFails ==
    /\ timing = "live" /\ ~timingStop
    /\ timing' = "ended"
    /\ UNCHANGED <<state, flags, setup, rtp, video, playback, calls, renderer,
                   keys>>
-----------------------------------------------------------------------------
Handlers ==
    \/ FairplaySetup \/ Pause \/ RateZero \/ RateOne \/ Record \/ Stop \/ Teardown
    \/ \E hasVideo, keyed \in BOOLEAN : Announce(hasVideo, keyed)
    \/ \E foundAudio, foundVideo \in BOOLEAN : Setup(foundAudio, foundVideo)
    \/ \E e \in Ekeys \cup {None}, id \in ConnIds \cup {None},
         port, audioStream, videoStream, foundAudio, foundVideo \in BOOLEAN :
           SetupAp2(e, port, audioStream, videoStream, id, foundAudio, foundVideo)

Streaming == StartRtp \/ StartThreads \/ StartVideo \/ StartDone

Stopping(c) ==
    \/ StopFlags(c) \/ JoinTiming(c) \/ StopRtp(c) \/ JoinRtp(c)
    \/ StopVideo(c) \/ JoinVideo(c) \/ JoinPlayback(c) \/ StopDone(c)

Threads ==
    \/ RtpEnds \/ VideoEnds \/ AwaitFrame \/ FrameCame
    \/ PlaybackEnds \/ TimingSeesStop \/ TimingFails

Next ==
    \/ Handlers \/ Disconnect \/ Streaming \/ Threads
    \/ \E c \in Callers : Stopping(c)

Spec == Init /\ [][Next]_vars

(* A call under way goes on, and a thread sees the flag it polls.          *)
Progress ==
    /\ WF_vars(Streaming)
    /\ \A c \in Callers : WF_vars(Stopping(c))
    /\ WF_vars(RtpEnds) /\ WF_vars(VideoEnds)
    /\ WF_vars(PlaybackEnds) /\ WF_vars(TimingSeesStop)

FairSpec == Spec /\ Progress

(* The client goes on pushing, or hangs up.                                *)
PushingSpec == FairSpec /\ WF_vars(FrameCame)
-----------------------------------------------------------------------------
Steps == {"idle", "gone", "start rtp", "start threads", "start video", "started",
          "stop", "join timing", "stop rtp", "join rtp", "stop video", "join video",
          "join playback", "stopped"}

Receivers == [sock : Kinds, deferred : BOOLEAN, running : BOOLEAN,
              thread : ThreadStates, wait : {"udp", "tcp", "recv"}]

VideoKeys == (Ekeys \X ConnIds) \cup {None}

(* Type invariant of every variable of the session; the states of the      *)
(* session are the five of State that some call can set.                   *)
TypeInv ==
    /\ state \in {"CONNECTED", "READY", "PLAYING", "PAUSED", "IDLE", "CLOSED"}
    /\ playing \in BOOLEAN /\ videoPlaying \in BOOLEAN
    /\ playbackStop \in BOOLEAN /\ timingStop \in BOOLEAN
    /\ timingPort \in BOOLEAN /\ ports \in BOOLEAN
    /\ videoPort \in BOOLEAN /\ videoCfg \in BOOLEAN
    /\ rtp \in Receivers /\ video \in Receivers
    /\ playback \in ThreadStates /\ timing \in ThreadStates
    /\ call \in [Callers -> Steps]
    /\ then \in [Callers -> {"return", "drop", "leave", "close", "destroy"}]
    /\ renderer \in {"none", "play", "pause", "stop"}
    /\ keymsg \in BOOLEAN /\ ready \in BOOLEAN
    /\ ekey \in Ekeys \cup {None} /\ connId \in ConnIds \cup {None}
    /\ audioKey \in Ekeys \cup {None}
    /\ videoKey \in VideoKeys /\ rxKey \in VideoKeys \cup {SdpKey}

AllThreads == {rtp.thread, video.thread, playback, timing}

(* A session that has been stopped or destroyed has no thread and no start *)
(* pending, whatever the client sends to it afterwards short of RECORD: a  *)
(* thread that outlived stop_streaming would run on a destroyed session.   *)
StoppedHasNoThreads ==
    \/ ~AtRest /\ call[Rtsp] # "gone"
    \/ state \notin {"IDLE", "CLOSED"}
    \/ AllThreads = {"none"} /\ ~rtp.deferred /\ ~video.deferred

(* A session that plays, or is paused, and has its audio ports listens on  *)
(* them, whichever of RECORD and SETUP came first (rtp_receiver.h:97), as  *)
(* long as it has not been stopped before (timing_stop_ is never reset).   *)
PlayingListens ==
    AtRest /\ state \in {"PLAYING", "PAUSED"} /\ ports /\ ~timingStop
        => rtp.thread = "live"

(* Once the keys are derived and the stream has its id, the receiver of a  *)
(* pushed video decrypts with the key of the current id, whatever the      *)
(* order of RECORD and the SETUPs and however often each comes, unless an  *)
(* SDP has brought its own key since (update_video_media_key).             *)
VideoKeyCurrent ==
    ready /\ connId # None /\ video.sock = "tcp" /\ rxKey # SdpKey
        => rxKey = <<audioKey, connId>>

(* Between two calls, the state, playing_ and what the audio renderer was  *)
(* last told agree.                                                        *)
StateAgrees ==
    AtRest => /\ playing => renderer = "play"
              /\ state = "PLAYING" => playing
              /\ state = "PAUSED" => ~playing /\ renderer = "pause"

(* Every call returns: no join waits for a thread nobody told to end.      *)
CallsReturn == \A c \in Callers : call[c] # "idle" ~> call[c] \in {"idle", "gone"}

(* Like PlayingListens, but also after a stop: what rtp_receiver.h:97 and  *)
(* :139 of the session promise, a RECORD before the ports are bound being  *)
(* made up for when they are.                                              *)
PlayingListensAgain ==
    AtRest /\ state = "PLAYING" /\ ports => rtp.thread = "live"

(* disconnect() comes back with the session closed                         *)
(* (airplay_session.h:84), whatever the handlers do meanwhile.             *)
DisconnectReturns == call[App] # "idle" ~> call[App] = "idle"
=============================================================================
