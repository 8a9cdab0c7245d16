--------------------------- MODULE SessionProofs ---------------------------
EXTENDS Session, TLAPS

(* The video key is current because of three facts that TypeInv does not   *)
(* give: keys that are ready were derived from an ekey, a pushed video has *)
(* both its port and the audio ports (so that the SETUP that brings a new  *)
(* id cannot fail before it updates the key), and the key kept for later   *)
(* is the one of the current id.                                           *)
KeyInv ==
    /\ ready => audioKey # None
    /\ video.sock = "tcp" => ports /\ videoPort
    /\ ready /\ connId # None /\ video.sock = "tcp" =>
         /\ videoKey = <<audioKey, connId>>
         /\ rxKey \in {SdpKey, <<audioKey, connId>>}

IInv == TypeInv /\ KeyInv
-----------------------------------------------------------------------------
(* What start(), open() and stop() of a receiver make of it.               *)
LEMMA ReceiverOps ==
    ASSUME NEW v \in Receivers, NEW kind \in {"udp", "tcp"}
    PROVE  /\ StartedRx(v) \in Receivers /\ StartedRx(v).sock = v.sock
           /\ Opened(v, kind) \in Receivers /\ Opened(v, kind).sock = kind
           /\ StoppedRx(v) \in Receivers /\ StoppedRx(v).sock = "closed"
           /\ StartedRx(Opened(v, kind)) \in Receivers
           /\ StartedRx(Opened(v, kind)).sock = kind
<1>1. ASSUME NEW r \in Receivers
      PROVE  StartedRx(r) \in Receivers /\ StartedRx(r).sock = r.sock
  BY <1>1 DEF StartedRx, Started, Receivers, Kinds, ThreadStates
<1>2. [v EXCEPT !.sock = kind] \in Receivers /\ [v EXCEPT !.sock = kind].sock = kind
  BY DEF Receivers, Kinds
<1>3. Opened(v, kind) \in Receivers /\ Opened(v, kind).sock = kind
  BY <1>1, <1>2 DEF Opened
<1>4. StoppedRx(v) \in Receivers /\ StoppedRx(v).sock = "closed"
  BY DEF StoppedRx, Receivers, Kinds
<1>5. QED
  BY <1>1, <1>3, <1>4

(* A call that goes on, and one that begins, are calls.                    *)
Thens == {"return", "drop", "leave", "close", "destroy"}

LEMMA GotoType ==
    ASSUME TypeInv, NEW c \in Callers, NEW from, NEW to \in Steps, Goto(c, from, to)
    PROVE  call' \in [Callers -> Steps]
  BY DEF TypeInv, Goto

LEMMA EnterType ==
    ASSUME TypeInv, NEW c \in Callers, NEW step \in Steps, NEW next \in Thens,
           Enter(c, step, next)
    PROVE  call' \in [Callers -> Steps] /\ then' \in [Callers -> Thens]
  BY DEF TypeInv, Enter, Thens

LEMMA InitKeeps == Init => IInv
<1> SUFFICES ASSUME Init PROVE IInv
  OBVIOUS
<1>1. Closed \in Receivers /\ Closed.sock = "closed"
  BY DEF Closed, Receivers, Kinds, ThreadStates
<1>2. call \in [Callers -> Steps] /\ then \in [Callers -> Thens]
  BY DEF Init, Steps, Thens
<1>3. TypeInv
  BY <1>1, <1>2 DEF Init, TypeInv, ThreadStates, VideoKeys, Thens
<1>4. KeyInv
  BY <1>1 DEF Init, KeyInv
<1>5. QED
  BY <1>3, <1>4 DEF IInv

(* The handlers that are one step.                                         *)
LEMMA HandlersKeep ==
    ASSUME IInv, Handlers
    PROVE  IInv'
<1> USE SessionAssumption DEF IInv
<1>1. CASE FairplaySetup
  BY <1>1 DEF FairplaySetup, Handler, TypeInv, KeyInv,
     vars, flags, setup, workers, keys, calls
<1>2. CASE RateOne
  BY <1>2 DEF RateOne, Handler, TypeInv, KeyInv,
     vars, flags, setup, workers, keys, calls
<1>3. CASE Pause
  <2>1. /\ state' = "PAUSED" \/ state' = state
        /\ renderer' = "pause" \/ renderer' = renderer
        /\ playing' \in BOOLEAN
    BY <1>3 DEF Pause, PauseEffect
  <2>2. UNCHANGED <<videoPlaying, playbackStop, timingStop, setup, workers, calls, keys>>
    BY <1>3 DEF Pause
  <2>3. TypeInv'
    BY <2>1, <2>2 DEF TypeInv, setup, workers, keys, calls
  <2>4. KeyInv'
    BY <2>2 DEF KeyInv, setup, workers, keys
  <2>5. QED
    BY <2>3, <2>4
<1>4. CASE RateZero
  <2>1. /\ state' = "PAUSED" \/ state' = state
        /\ renderer' = "pause" \/ renderer' = renderer
        /\ playing' \in BOOLEAN
    BY <1>4 DEF RateZero, PauseEffect
  <2>2. UNCHANGED <<videoPlaying, playbackStop, timingStop, setup, workers, calls, keys>>
    BY <1>4 DEF RateZero
  <2>3. TypeInv'
    BY <2>1, <2>2 DEF TypeInv, setup, workers, keys, calls
  <2>4. KeyInv'
    BY <2>2 DEF KeyInv, setup, workers, keys
  <2>5. QED
    BY <2>3, <2>4
<1>5. CASE Stop
  <2>1. call' \in [Callers -> Steps] /\ then' \in [Callers -> Thens]
    BY <1>5, EnterType DEF Stop, Callers, Steps, Thens
  <2>2. QED
    BY <1>5, <2>1 DEF Stop, Thens, TypeInv, KeyInv,
     vars, flags, setup, workers, keys, calls
<1>6. CASE Teardown
  <2>1. call' \in [Callers -> Steps] /\ then' \in [Callers -> Thens]
    BY <1>6, EnterType DEF Teardown, Callers, Steps, Thens
  <2>2. QED
    BY <1>6, <2>1 DEF Teardown, Thens, TypeInv, KeyInv,
     vars, flags, setup, workers, keys, calls
<1>7. CASE Record
  <2>1. call' \in [Callers -> Steps] /\ then' \in [Callers -> Thens]
    BY <1>7, EnterType DEF Record, Callers, Steps, Thens
  <2>2. ready' \in BOOLEAN /\ audioKey' \in Ekeys \cup {None}
    BY <1>7 DEF Record, Derived, TypeInv
  <2>3. videoKey' \in VideoKeys /\ rxKey' \in VideoKeys \cup {SdpKey}
    BY <1>7 DEF Record, Derived, TypeInv, VideoKeys
  <2>4. playbackStop' \in BOOLEAN
    BY <1>7 DEF Record
  <2>5. UNCHANGED <<state, playing, videoPlaying, timingStop, setup, workers,
                    renderer, keymsg, ekey, connId>>
    BY <1>7 DEF Record
  <2>6. TypeInv'
    BY <2>1, <2>2, <2>3, <2>4, <2>5 DEF TypeInv, Thens, setup, workers
  <2>7. KeyInv'
    BY <1>7 DEF Record, Derived, KeyInv, TypeInv, setup, workers
  <2>8. QED
    BY <2>6, <2>7
<1>8. ASSUME NEW hasVideo \in BOOLEAN, NEW keyed \in BOOLEAN, Announce(hasVideo, keyed)
      PROVE  IInv'
  <2>1. state' = "READY" /\ videoCfg' \in BOOLEAN /\ rxKey' \in {SdpKey, rxKey}
    BY <1>8 DEF Announce, TypeInv
  <2>2. UNCHANGED <<flags, timingPort, ports, videoPort, workers, calls, renderer,
                    keymsg, ekey, connId, ready, audioKey, videoKey>>
    BY <1>8 DEF Announce
  <2>3. QED
    BY <2>1, <2>2 DEF TypeInv, KeyInv,
     vars, flags, setup, workers, keys, calls
<1>9. ASSUME NEW foundAudio \in BOOLEAN, NEW foundVideo \in BOOLEAN,
             Setup(foundAudio, foundVideo)
      PROVE  IInv'
  BY <1>9, ReceiverOps DEF Setup, Handler, VideoKeys, TypeInv, KeyInv,
     vars, flags, setup, workers, keys, calls
<1>10. ASSUME NEW e \in Ekeys \cup {None}, NEW id \in ConnIds \cup {None},
             NEW port \in BOOLEAN, NEW audioStream \in BOOLEAN,
             NEW videoStream \in BOOLEAN, NEW foundAudio \in BOOLEAN,
             NEW foundVideo \in BOOLEAN,
             SetupAp2(e, port, audioStream, videoStream, id, foundAudio, foundVideo)
      PROVE  IInv'
  BY <1>10, ReceiverOps DEF SetupAp2, Handler, ReceiverKey, UpdatedVideoKey, VideoKeys, TypeInv, KeyInv,
     vars, flags, setup, workers, keys, calls
<1>11. QED
  BY <1>1, <1>2, <1>3, <1>4, <1>5, <1>6, <1>7, <1>8, <1>9, <1>10 DEF Handlers

(* A step that only moves the threads and the sockets, and brings no new   *)
(* socket for the video, keeps the invariant.                              *)
LEMMA WorkersFrame ==
    ASSUME IInv, UNCHANGED <<state, flags, setup, then, renderer, keys>>,
           call' \in [Callers -> Steps], rtp' \in Receivers, video' \in Receivers,
           playback' \in ThreadStates, timing' \in ThreadStates,
           video'.sock = video.sock \/ video'.sock = "closed"
    PROVE  IInv'
<1>1. TypeInv'
  BY DEF IInv, TypeInv, flags, setup, keys
<1>2. KeyInv'
  BY DEF IInv, KeyInv, setup, keys
<1>3. QED
  BY <1>1, <1>2 DEF IInv

(* The steps of start_streaming.                                           *)
LEMMA StreamingKeeps ==
    ASSUME IInv, Streaming
    PROVE  IInv'
<1> USE DEF IInv
<1>1. call' \in [Callers -> Steps]
  BY GotoType DEF Streaming, StartRtp, StartThreads, StartVideo, StartDone, Callers, Steps
<1>2. CASE StartRtp
  <2>1. rtp' \in Receivers
    BY <1>2, ReceiverOps DEF StartRtp, TypeInv
  <2>2. QED
    BY <1>1, <1>2, <2>1, WorkersFrame DEF StartRtp, TypeInv
<1>3. CASE StartThreads
  <2>1. playback' \in ThreadStates /\ timing' \in ThreadStates
    BY <1>3 DEF StartThreads, TypeInv, Started, ThreadStates
  <2>2. QED
    BY <1>1, <1>3, <2>1, WorkersFrame DEF StartThreads, TypeInv
<1>4. CASE StartVideo
  <2>1. video' \in Receivers /\ video'.sock = video.sock
    BY <1>4, ReceiverOps DEF StartVideo, TypeInv
  <2>2. playing' \in BOOLEAN /\ videoPlaying' \in BOOLEAN
    BY <1>4 DEF StartVideo, TypeInv
  <2>3. UNCHANGED <<state, playbackStop, timingStop, setup, rtp, playback,
                    timing, then, renderer, keys>>
    BY <1>4 DEF StartVideo
  <2>4. TypeInv'
    BY <1>1, <2>1, <2>2, <2>3 DEF TypeInv, setup, keys
  <2>5. KeyInv'
    BY <2>1, <2>3 DEF KeyInv, setup, keys
  <2>6. QED
    BY <2>4, <2>5
<1>5. CASE StartDone
  BY <1>1, <1>5 DEF StartDone, TypeInv, KeyInv, flags, setup, workers, keys
<1>6. QED
  BY <1>2, <1>3, <1>4, <1>5 DEF Streaming

(* The steps of stop_streaming.                                            *)
LEMMA StoppingKeeps ==
    ASSUME IInv, NEW c \in Callers, Stopping(c)
    PROVE  IInv'
<1> USE DEF IInv
<1>1. CASE StopFlags(c)
  <2>1. call' \in [Callers -> Steps]
    BY <1>1, GotoType DEF StopFlags, Steps
  <2>2. /\ playbackStop' \in BOOLEAN /\ playing' \in BOOLEAN
        /\ videoPlaying' \in BOOLEAN /\ timingStop' \in BOOLEAN
    BY <1>1 DEF StopFlags
  <2>3. UNCHANGED <<state, setup, workers, then, renderer, keys>>
    BY <1>1 DEF StopFlags
  <2>4. TypeInv'
    BY <2>1, <2>2, <2>3 DEF TypeInv, setup, workers, keys
  <2>5. KeyInv'
    BY <2>3 DEF KeyInv, setup, workers, keys
  <2>6. QED
    BY <2>4, <2>5
<1>2. CASE JoinTiming(c)
  <2>1. call' \in [Callers -> Steps]
    BY <1>2, GotoType DEF JoinTiming, Steps
  <2>2. timing' \in ThreadStates
    BY <1>2 DEF JoinTiming, ThreadStates
  <2>3. QED
    BY <1>2, <2>1, <2>2, WorkersFrame DEF JoinTiming, TypeInv
<1>3. CASE StopRtp(c)
  <2>1. call' \in [Callers -> Steps]
    BY <1>3, GotoType DEF StopRtp, Steps
  <2>2. rtp' \in Receivers
    BY <1>3, ReceiverOps DEF StopRtp, TypeInv, Receivers
  <2>3. QED
    BY <1>3, <2>1, <2>2, WorkersFrame DEF StopRtp, TypeInv
<1>4. CASE JoinRtp(c)
  <2>1. call' \in [Callers -> Steps]
    BY <1>4, GotoType DEF JoinRtp, Steps
  <2>2. rtp' \in Receivers
    <3>1. StoppedRx(rtp) \in Receivers
      BY ReceiverOps DEF TypeInv
    <3>2. QED
      BY <1>4, <3>1 DEF JoinRtp, Receivers, ThreadStates
  <2>3. QED
    BY <1>4, <2>1, <2>2, WorkersFrame DEF JoinRtp, TypeInv
<1>5. CASE StopVideo(c)
  <2>1. call' \in [Callers -> Steps]
    BY <1>5, GotoType DEF StopVideo, Steps
  <2>2. video' \in Receivers /\ video'.sock = "closed"
    BY <1>5, ReceiverOps DEF StopVideo, TypeInv
  <2>3. QED
    BY <1>5, <2>1, <2>2, WorkersFrame DEF StopVideo, TypeInv
<1>6. CASE JoinVideo(c)
  <2>1. call' \in [Callers -> Steps]
    BY <1>6, GotoType DEF JoinVideo, Steps
  <2>2. video' \in Receivers /\ video'.sock = video.sock
    BY <1>6 DEF JoinVideo, TypeInv, Receivers, ThreadStates
  <2>3. QED
    BY <1>6, <2>1, <2>2, WorkersFrame DEF JoinVideo, TypeInv
<1>7. CASE JoinPlayback(c)
  <2>1. call' \in [Callers -> Steps]
    BY <1>7, GotoType DEF JoinPlayback, Steps
  <2>2. playback' \in ThreadStates
    BY <1>7 DEF JoinPlayback, ThreadStates
  <2>3. QED
    BY <1>7, <2>1, <2>2, WorkersFrame DEF JoinPlayback, TypeInv
<1>8. CASE StopDone(c)
  <2>1. then[c] \in Thens
    BY DEF TypeInv, Thens
  <2>2. call' \in [Callers -> Steps]
    BY <1>8, <2>1, GotoType DEF StopDone, Steps, Thens
  <2>3. then' \in [Callers -> Thens]
    BY <1>8, <2>1 DEF StopDone, TypeInv, Thens
  <2>4. state' \in {"CLOSED", "IDLE"} /\ renderer' = "stop"
    BY <1>8 DEF StopDone
  <2>5. UNCHANGED <<flags, setup, workers, keys>>
    BY <1>8 DEF StopDone
  <2>6. TypeInv'
    BY <2>2, <2>3, <2>4, <2>5 DEF TypeInv, Thens, flags, setup, workers, keys
  <2>7. KeyInv'
    BY <2>5 DEF KeyInv, setup, workers, keys
  <2>8. QED
    BY <2>6, <2>7
<1>9. QED
  BY <1>1, <1>2, <1>3, <1>4, <1>5, <1>6, <1>7, <1>8 DEF Stopping

(* The threads.                                                            *)
LEMMA ThreadsKeep ==
    ASSUME IInv, Threads
    PROVE  IInv'
<1> USE DEF IInv
<1>1. CASE RtpEnds
  <2>1. rtp' \in Receivers
    BY <1>1 DEF RtpEnds, TypeInv, Receivers, ThreadStates
  <2>2. QED
    BY <1>1, <2>1, WorkersFrame DEF RtpEnds, TypeInv, calls
<1>2. CASE VideoEnds \/ AwaitFrame \/ FrameCame
  <2>1. video' \in Receivers /\ video'.sock = video.sock
    BY <1>2 DEF VideoEnds, AwaitFrame, FrameCame, TypeInv, Receivers, ThreadStates
  <2>2. UNCHANGED <<state, flags, setup, rtp, playback, timing, calls, renderer, keys>>
    BY <1>2 DEF VideoEnds, AwaitFrame, FrameCame
  <2>3. QED
    BY <2>1, <2>2, WorkersFrame DEF TypeInv, calls
<1>3. CASE PlaybackEnds \/ TimingSeesStop \/ TimingFails
  <2>1. playback' \in ThreadStates /\ timing' \in ThreadStates
    BY <1>3 DEF PlaybackEnds, TimingSeesStop, TimingFails, TypeInv, ThreadStates
  <2>2. UNCHANGED <<state, flags, setup, rtp, video, calls, renderer, keys>>
    BY <1>3 DEF PlaybackEnds, TimingSeesStop, TimingFails
  <2>3. QED
    BY <2>1, <2>2, WorkersFrame DEF TypeInv, calls
<1>4. QED
  BY <1>1, <1>2, <1>3 DEF Threads

LEMMA StepKeeps == IInv /\ [Next]_vars => IInv'
<1> SUFFICES ASSUME IInv, [Next]_vars PROVE IInv'
  OBVIOUS
<1>1. CASE Disconnect
  <2>1. call' \in [Callers -> Steps] /\ then' \in [Callers -> Thens]
    BY <1>1, EnterType DEF Disconnect, Callers, Steps, Thens, IInv
  <2>2. QED
    BY <1>1, <2>1 DEF Disconnect, IInv, TypeInv, KeyInv, Thens, flags, setup, workers, keys
<1>2. CASE UNCHANGED vars
  BY <1>2 DEF IInv, TypeInv, KeyInv, vars, flags, setup, workers, calls, keys
<1>3. QED
  BY <1>1, <1>2, HandlersKeep, StreamingKeeps, StoppingKeeps, ThreadsKeep DEF Next

LEMMA Inductive == Spec => []IInv
  BY InitKeeps, StepKeeps, PTL DEF Spec

(* Every variable of the session has its type at all times.                *)
THEOREM TypeCorrect == Spec => []TypeInv
<1>1. IInv => TypeInv
  BY DEF IInv
<1>2. QED
  BY <1>1, Inductive, PTL

(* Whatever the order of the calls, the receiver of a pushed video holds   *)
(* the key of the current stream id (update_video_media_key).              *)
THEOREM VideoKeyIsCurrent == Spec => []VideoKeyCurrent
<1>1. IInv => VideoKeyCurrent
  BY DEF IInv, KeyInv, VideoKeyCurrent
<1>2. QED
  BY <1>1, Inductive, PTL
-----------------------------------------------------------------------------
(* Between the calls: when those of the application and of the connection  *)
(* do not overlap, one step at a time is under way, and what holds at rest *)
(* follows from what holds at each step of a call.                         *)

(* The step of the call under way, when calls do not overlap.              *)
At == IF call[App] # "idle" THEN call[App] ELSE call[Rtsp]

OneCaller == call[App] = "idle" \/ call[Rtsp] = "idle"

\* stop_streaming once the flags are set, start_streaming once the receiver
\* of the audio was started.
Ending == {"join timing", "stop rtp", "join rtp", "stop video", "join video",
           "join playback", "stopped"}
Beginning == {"start threads", "start video", "started"}

\* A receiver has a thread while it runs, and until the thread is joined; a
\* start only waits for a socket that is not there.
Fit(v) == /\ v.running => v.thread = "live"
          /\ ~v.running => v.thread = "none"
          /\ v.deferred => v.sock = "closed"

ReceiversInv ==
    /\ At # "join rtp" => Fit(rtp)
    /\ At # "join video" => Fit(video)

Left(v) == v.thread = "none" /\ ~v.running /\ ~v.deferred

\* What stop_streaming has already ended at each of its steps, and what is
\* left when it is done.
StopInv ==
    /\ At \in Ending => timingStop /\ ~playing
    /\ timingStop /\ At # "join timing" => timing = "none"
    /\ At = "join rtp" => ~rtp.running /\ ~rtp.deferred
    /\ At \in {"stop video", "join video", "join playback", "stopped"} => Left(rtp)
    /\ At = "join video" => ~video.running /\ ~video.deferred
    /\ At \in {"join playback", "stopped"} => Left(video)
    /\ At = "stopped" => playback = "none"
    /\ At = "gone" \/ (At = "idle" /\ state \in {"IDLE", "CLOSED"}) =>
         Left(rtp) /\ Left(video) /\ playback = "none" /\ timing = "none"

\* Before the first stop, ports that are set have their socket, and the
\* receiver of a session that plays is started or waits for its socket.
ListenInv ==
    ~timingStop =>
      /\ ports => rtp.sock # "closed"
      /\ playing \/ state \in {"PLAYING", "PAUSED"} \/ At \in Beginning =>
           rtp.deferred \/ rtp.running

PlayInv ==
    /\ At = "started" => playing
    /\ At = "idle" => /\ playing => renderer = "play"
                      /\ state = "PLAYING" => playing
                      /\ state = "PAUSED" => ~playing /\ renderer = "pause"

CallsInv ==
    OneCaller /\ ReceiversInv /\ StopInv /\ ListenInv /\ PlayInv

LEMMA FitOps ==
    ASSUME NEW v \in Receivers, Fit(v), NEW kind \in {"udp", "tcp"}
    PROVE  /\ Fit(StartedRx(v)) /\ Fit(Opened(v, kind)) /\ Fit(StartedRx(Opened(v, kind)))
           /\ StartedRx(v).deferred \/ StartedRx(v).running
           /\ v.deferred \/ v.running =>
                Opened(v, kind).deferred \/ Opened(v, kind).running
           /\ Left(v) => Left(Opened(v, kind))
<1>1. ASSUME NEW r \in Receivers, Fit(r)
      PROVE  /\ Fit(StartedRx(r))
             /\ StartedRx(r).deferred \/ StartedRx(r).running
  BY <1>1 DEF Fit, StartedRx, Started, Receivers, Kinds, ThreadStates
<1> DEFINE o == [v EXCEPT !.sock = kind]
<1>2. /\ o \in Receivers /\ o.thread = v.thread /\ o.running = v.running
      /\ o.deferred = v.deferred /\ o.sock = kind /\ kind # "closed"
  BY DEF Receivers, Kinds
<1>3. CASE v.deferred
  <2>1. Opened(v, kind) = StartedRx(o)
    BY <1>3 DEF Opened
  <2>2. StartedRx(o).thread = Started(v.thread) \/ StartedRx(o).thread = v.thread
    BY <1>2 DEF StartedRx, Receivers
  <2>3. Fit(StartedRx(o)) /\ StartedRx(o).running /\ StartedRx(o) \in Receivers
    BY <1>2 DEF StartedRx, Started, Fit, Receivers, Kinds, ThreadStates
  <2>4. QED
    BY <1>1, <1>3, <2>1, <2>3 DEF Left
<1>4. CASE ~v.deferred
  <2>1. Opened(v, kind) = o
    BY <1>4 DEF Opened
  <2>2. Fit(o)
    BY <1>2, <1>4 DEF Fit
  <2>3. QED
    BY <1>1, <1>2, <2>1, <2>2 DEF Left
<1>5. QED
  BY <1>3, <1>4

LEMMA GotoAt ==
    ASSUME TypeInv, OneCaller, NEW c \in Callers, NEW from, NEW to, Goto(c, from, to),
           from # "idle"
    PROVE  At = from /\ At' = to /\ OneCaller'
<1>1. call \in [Callers -> Steps] /\ call[c] = from /\ call' = [call EXCEPT ![c] = to]
  BY DEF TypeInv, Goto
<1>2. CASE c = Rtsp
  BY <1>1, <1>2, SessionAssumption DEF Callers, At, OneCaller
<1>3. CASE c = App
  BY <1>1, <1>3, SessionAssumption DEF Callers, At, OneCaller
<1>4. QED
  BY <1>2, <1>3 DEF Callers

LEMMA RestAt ==
    ASSUME Serialised, NEW c \in Callers, MayEnter(c)
    PROVE  At = "idle" /\ call[App] = "idle" /\ call[Rtsp] = "idle"
  BY DEF MayEnter, AtRest, Callers, At

LEMMA EnterAt ==
    ASSUME TypeInv, Serialised, NEW c \in Callers, NEW step, NEW next,
           Enter(c, step, next), step # "idle"
    PROVE  At = "idle" /\ At' = step /\ OneCaller'
<1>1. call \in [Callers -> Steps] /\ call' = [call EXCEPT ![c] = step] /\ MayEnter(c)
  BY DEF TypeInv, Enter
<1>2. At = "idle" /\ call[App] = "idle" /\ call[Rtsp] = "idle"
  BY <1>1, RestAt
<1>3. CASE c = Rtsp
  BY <1>1, <1>2, <1>3, SessionAssumption DEF Callers, At, OneCaller
<1>4. CASE c = App
  BY <1>1, <1>2, <1>4, SessionAssumption DEF Callers, At, OneCaller
<1>5. QED
  BY <1>2, <1>3, <1>4 DEF Callers

LEMMA CallsInit == Init => CallsInv
<1> SUFFICES ASSUME Init PROVE CallsInv
  OBVIOUS
<1>1. At = "idle" /\ OneCaller
  BY DEF Init, At, OneCaller, Callers
<1>2. QED
  BY <1>1 DEF Init, Closed, CallsInv, ReceiversInv, Fit, StopInv, ListenInv, PlayInv,
     Left, Ending, Beginning

(* The handlers that are one step, and the beginning of longer ones.       *)
LEMMA HandlersKeepCalls ==
    ASSUME TypeInv, CallsInv, Serialised, Handlers \/ Disconnect
    PROVE  CallsInv'
<1> USE DEF CallsInv
<1>h. Handler => /\ At = "idle" /\ Fit(rtp) /\ Fit(video)
                 /\ (call' = call => At' = "idle" /\ OneCaller')
  BY RestAt DEF Handler, Callers, At, OneCaller, ReceiversInv
<1>1. CASE FairplaySetup
  BY <1>1, <1>h DEF FairplaySetup, flags, setup, workers, calls, ReceiversInv, Fit,
     StopInv, ListenInv, PlayInv, Left, Ending, Beginning
<1>2. CASE RateOne
  BY <1>2, <1>h DEF RateOne, TypeInv, setup, workers, calls, ReceiversInv, Fit,
     StopInv, ListenInv, PlayInv, Left, Ending, Beginning
<1>3. CASE Pause \/ RateZero
  <2>1. At = "idle" /\ At' = "idle" /\ OneCaller' /\ Fit(rtp) /\ Fit(video)
    BY <1>3, <1>h DEF Pause, RateZero, calls
  <2>2. /\ ~playing' /\ UNCHANGED <<timingStop, setup, workers>>
        /\ playing => state' = "PAUSED" /\ renderer' = "pause"
        /\ ~playing => state' = state /\ renderer' \in {renderer, "pause"}
    BY <1>3 DEF Pause, RateZero, PauseEffect
  <2>3. QED
    BY <2>1, <2>2 DEF setup, workers, ReceiversInv, Fit, StopInv, ListenInv, PlayInv,
       Left, Ending, Beginning
<1>4. CASE Stop \/ Teardown \/ Disconnect
  <2>1. At = "idle" /\ At' = "stop" /\ OneCaller'
    BY <1>4, EnterAt DEF Stop, Teardown, Disconnect, Callers
  <2>2. UNCHANGED <<state, flags, setup, workers, renderer, keys>>
    BY <1>4 DEF Stop, Teardown, Disconnect
  <2>3. QED
    BY <2>1, <2>2 DEF flags, setup, workers, ReceiversInv, Fit, StopInv, ListenInv,
       PlayInv, Left, Ending, Beginning
<1>5. CASE Record
  <2>1. At = "idle" /\ At' = "start rtp" /\ OneCaller'
    BY <1>5, EnterAt DEF Record, Callers
  <2>2. UNCHANGED <<state, playing, videoPlaying, timingStop, setup, workers>>
    BY <1>5 DEF Record
  <2>3. QED
    BY <2>1, <2>2 DEF setup, workers, ReceiversInv, Fit, StopInv, ListenInv, PlayInv,
       Left, Ending, Beginning
<1>6. ASSUME NEW hasVideo \in BOOLEAN, NEW keyed \in BOOLEAN, Announce(hasVideo, keyed)
      PROVE  CallsInv'
  BY <1>6, <1>h DEF Announce, flags, workers, calls, ReceiversInv, Fit, StopInv,
     ListenInv, PlayInv, Left, Ending, Beginning
<1>7. ASSUME NEW foundAudio \in BOOLEAN, NEW foundVideo \in BOOLEAN,
             Setup(foundAudio, foundVideo)
      PROVE  CallsInv'
  <2>1. At = "idle" /\ At' = "idle" /\ OneCaller' /\ Fit(rtp) /\ Fit(video)
    BY <1>7, <1>h DEF Setup, calls
  <2>2. /\ rtp' \in {rtp, Opened(rtp, "udp")} /\ video' \in {video, Opened(video, "udp")}
        /\ ports' => ports \/ rtp' = Opened(rtp, "udp")
        /\ UNCHANGED <<state, flags, playback, timing, renderer>>
    BY <1>7 DEF Setup, TypeInv
  <2>3. rtp \in Receivers /\ video \in Receivers
    BY DEF TypeInv
  <2>4. Fit(rtp') /\ Fit(video')
    BY <2>1, <2>2, <2>3, FitOps
  <2>5. /\ rtp.deferred \/ rtp.running => rtp'.deferred \/ rtp'.running
        /\ Left(rtp) => Left(rtp')
        /\ Left(video) => Left(video')
    BY <2>1, <2>2, <2>3, FitOps
  <2>6. ~timingStop /\ ports' => rtp'.sock # "closed"
    BY <2>2, <2>3, ReceiverOps DEF ListenInv
  <2>7. QED
    BY <2>1, <2>2, <2>4, <2>5, <2>6 DEF flags, ReceiversInv, Fit, Left, StopInv,
       ListenInv, PlayInv, Ending, Beginning
<1>8. ASSUME NEW e \in Ekeys \cup {None}, NEW id \in ConnIds \cup {None},
             NEW port \in BOOLEAN, NEW audioStream \in BOOLEAN,
             NEW videoStream \in BOOLEAN, NEW foundAudio \in BOOLEAN,
             NEW foundVideo \in BOOLEAN,
             SetupAp2(e, port, audioStream, videoStream, id, foundAudio, foundVideo)
      PROVE  CallsInv'
  <2>1. At = "idle" /\ At' = "idle" /\ OneCaller' /\ Fit(rtp) /\ Fit(video)
    BY <1>8, <1>h DEF SetupAp2, calls
  <2>2. /\ rtp' \in {rtp, Opened(rtp, "udp")}
        /\ ports' => ports \/ rtp' = Opened(rtp, "udp")
        /\ renderer' \in {renderer, "play"}
        /\ renderer' # renderer => playing
        /\ UNCHANGED <<state, playing, timingStop, playback, timing>>
    BY <1>8 DEF SetupAp2, TypeInv
  <2>3. /\ video' \in {video, Opened(video, "tcp"), StartedRx(Opened(video, "tcp"))}
        /\ video' # StartedRx(Opened(video, "tcp")) \/ state = "PLAYING"
           \/ video' \in {video, Opened(video, "tcp")}
    BY <1>8 DEF SetupAp2
  <2>4. rtp \in Receivers /\ video \in Receivers
    BY DEF TypeInv
  <2>5. Fit(rtp') /\ Fit(video')
    BY <2>1, <2>2, <2>3, <2>4, FitOps
  <2>6. /\ rtp.deferred \/ rtp.running => rtp'.deferred \/ rtp'.running
        /\ Left(rtp) => Left(rtp')
        /\ state \in {"IDLE", "CLOSED"} /\ Left(video) => Left(video')
    BY <2>1, <2>2, <2>3, <2>4, FitOps
  <2>7. ~timingStop /\ ports' => rtp'.sock # "closed"
    BY <2>2, <2>4, ReceiverOps DEF ListenInv
  <2>8. QED
    BY <2>1, <2>2, <2>5, <2>6, <2>7 DEF ReceiversInv, Fit, Left, StopInv, ListenInv,
       PlayInv, Ending, Beginning
<1> HIDE DEF CallsInv
<1>9. CASE \E hasVideo, keyed \in BOOLEAN : Announce(hasVideo, keyed)
  BY <1>6, <1>9
<1>11. CASE \E foundAudio, foundVideo \in BOOLEAN : Setup(foundAudio, foundVideo)
  BY <1>7, <1>11
<1>12. CASE \E e \in Ekeys \cup {None}, id \in ConnIds \cup {None},
              port, audioStream, videoStream, foundAudio, foundVideo \in BOOLEAN :
            SetupAp2(e, port, audioStream, videoStream, id, foundAudio, foundVideo)
  BY <1>8, <1>12
<1>13. CASE Handlers
  BY <1>1, <1>2, <1>3, <1>4, <1>5, <1>9, <1>11, <1>12, <1>13 DEF Handlers
<1>14. QED
  BY <1>4, <1>13

LEMMA StreamingKeepsCalls ==
    ASSUME TypeInv, CallsInv, Streaming
    PROVE  CallsInv'
<1> USE DEF CallsInv
<1>r. Rtsp \in Callers
  BY DEF Callers
<1>1. CASE StartRtp
  <2>1. At = "start rtp" /\ At' = "start threads" /\ OneCaller'
    BY <1>1, <1>r, GotoAt DEF StartRtp
  <2>2. rtp \in Receivers /\ rtp' = StartedRx(rtp)
    BY <1>1 DEF StartRtp, TypeInv
  <2>3. Fit(rtp') /\ (rtp'.deferred \/ rtp'.running) /\ rtp'.sock = rtp.sock
    BY <2>1, <2>2, FitOps, ReceiverOps DEF ReceiversInv
  <2>4. QED
    BY <1>1, <2>1, <2>3 DEF StartRtp, flags, setup, ReceiversInv, Fit, StopInv, ListenInv,
       PlayInv, Left, Ending, Beginning
<1>2. CASE StartThreads
  <2>1. At = "start threads" /\ At' = "start video" /\ OneCaller'
    BY <1>2, <1>r, GotoAt DEF StartThreads
  <2>2. QED
    BY <1>2, <2>1 DEF StartThreads, flags, setup, ReceiversInv, Fit, StopInv, ListenInv,
       PlayInv, Left, Ending, Beginning
<1>3. CASE StartVideo
  <2>1. At = "start video" /\ At' = "started" /\ OneCaller'
    BY <1>3, <1>r, GotoAt DEF StartVideo
  <2>2. video \in Receivers /\ video' \in {video, StartedRx(video)}
    BY <1>3 DEF StartVideo, TypeInv
  <2>3. Fit(video')
    BY <2>1, <2>2, FitOps DEF ReceiversInv
  <2>4. QED
    BY <1>3, <2>1, <2>3 DEF StartVideo, setup, ReceiversInv, Fit, StopInv, ListenInv,
       PlayInv, Left, Ending, Beginning
<1>4. CASE StartDone
  <2>1. At = "started" /\ At' = "idle" /\ OneCaller'
    BY <1>4, <1>r, GotoAt DEF StartDone
  <2>2. QED
    BY <1>4, <2>1 DEF StartDone, flags, setup, workers, ReceiversInv, Fit, StopInv,
       ListenInv, PlayInv, Left, Ending, Beginning
<1>5. QED
  BY <1>1, <1>2, <1>3, <1>4 DEF Streaming

LEMMA StoppingKeepsCalls ==
    ASSUME TypeInv, CallsInv, NEW c \in Callers, Stopping(c)
    PROVE  CallsInv'
<1> USE DEF CallsInv
<1>t. rtp \in Receivers /\ video \in Receivers
  BY DEF TypeInv
<1>1. CASE StopFlags(c)
  <2>1. /\ At = "stop" /\ OneCaller'
        /\ At' = IF timingStop THEN "stop rtp" ELSE "join timing"
    <3>1. CASE timingStop
      <4>1. Goto(c, "stop", "stop rtp")
        BY <1>1, <3>1 DEF StopFlags
      <4>2. At = "stop" /\ At' = "stop rtp" /\ OneCaller'
        BY <4>1, GotoAt
      <4>3. QED
        BY <3>1, <4>2
    <3>2. CASE ~timingStop
      <4>1. Goto(c, "stop", "join timing")
        BY <1>1, <3>2 DEF StopFlags
      <4>2. At = "stop" /\ At' = "join timing" /\ OneCaller'
        BY <4>1, GotoAt
      <4>3. QED
        BY <3>2, <4>2
    <3>3. QED
      BY <3>1, <3>2
  <2>2. QED
    BY <1>1, <2>1 DEF StopFlags, setup, workers, ReceiversInv, Fit, StopInv, ListenInv,
       PlayInv, Left, Ending, Beginning
<1>2. CASE JoinTiming(c)
  <2>1. At = "join timing" /\ At' = "stop rtp" /\ OneCaller'
    BY <1>2, GotoAt DEF JoinTiming
  <2>2. QED
    BY <1>2, <2>1 DEF JoinTiming, flags, setup, ReceiversInv, Fit, StopInv, ListenInv,
       PlayInv, Left, Ending, Beginning
<1>3. CASE StopRtp(c)
  <2>1. /\ At = "stop rtp" /\ OneCaller'
        /\ At' = IF rtp.running THEN "join rtp" ELSE "stop video"
    <3>1. CASE rtp.running
      <4>1. Goto(c, "stop rtp", "join rtp")
        BY <1>3, <3>1 DEF StopRtp
      <4>2. At = "stop rtp" /\ At' = "join rtp" /\ OneCaller'
        BY <4>1, GotoAt
      <4>3. QED
        BY <3>1, <4>2
    <3>2. CASE ~rtp.running
      <4>1. Goto(c, "stop rtp", "stop video")
        BY <1>3, <3>2 DEF StopRtp
      <4>2. At = "stop rtp" /\ At' = "stop video" /\ OneCaller'
        BY <4>1, GotoAt
      <4>3. QED
        BY <3>2, <4>2
    <3>3. QED
      BY <3>1, <3>2
  <2>2. /\ ~rtp'.running /\ ~rtp'.deferred /\ rtp'.thread = rtp.thread
    BY <1>3, <1>t DEF StopRtp, StoppedRx, Receivers
  <2>3. QED
    BY <1>3, <2>1, <2>2 DEF StopRtp, flags, setup, ReceiversInv, Fit, StopInv, ListenInv,
       PlayInv, Left, Ending, Beginning
<1>4. CASE JoinRtp(c)
  <2>1. At = "join rtp" /\ At' = "stop video" /\ OneCaller'
    BY <1>4, GotoAt DEF JoinRtp
  <2>2. Left(rtp')
    BY <1>4, <1>t DEF JoinRtp, StoppedRx, Receivers, Left
  <2>3. QED
    BY <1>4, <2>1, <2>2 DEF JoinRtp, flags, setup, ReceiversInv, Fit, StopInv, ListenInv,
       PlayInv, Left, Ending, Beginning
<1>5. CASE StopVideo(c)
  <2>1. /\ At = "stop video" /\ OneCaller'
        /\ At' = IF video.running THEN "join video" ELSE "join playback"
    <3>1. CASE video.running
      <4>1. Goto(c, "stop video", "join video")
        BY <1>5, <3>1 DEF StopVideo
      <4>2. At = "stop video" /\ At' = "join video" /\ OneCaller'
        BY <4>1, GotoAt
      <4>3. QED
        BY <3>1, <4>2
    <3>2. CASE ~video.running
      <4>1. Goto(c, "stop video", "join playback")
        BY <1>5, <3>2 DEF StopVideo
      <4>2. At = "stop video" /\ At' = "join playback" /\ OneCaller'
        BY <4>1, GotoAt
      <4>3. QED
        BY <3>2, <4>2
    <3>3. QED
      BY <3>1, <3>2
  <2>2. ~video'.running /\ ~video'.deferred /\ video'.thread = video.thread
    BY <1>5, <1>t DEF StopVideo, StoppedRx, Receivers
  <2>3. QED
    BY <1>5, <2>1, <2>2 DEF StopVideo, flags, setup, ReceiversInv, Fit, StopInv, ListenInv,
       PlayInv, Left, Ending, Beginning
<1>6. CASE JoinVideo(c)
  <2>1. At = "join video" /\ At' = "join playback" /\ OneCaller'
    BY <1>6, GotoAt DEF JoinVideo
  <2>2. Left(video')
    BY <1>6, <1>t, <2>1 DEF JoinVideo, StopInv, Receivers, Left
  <2>3. QED
    BY <1>6, <2>1, <2>2 DEF JoinVideo, flags, setup, ReceiversInv, Fit, StopInv, ListenInv,
       PlayInv, Left, Ending, Beginning
<1>7. CASE JoinPlayback(c)
  <2>1. At = "join playback" /\ At' = "stopped" /\ OneCaller'
    BY <1>7, GotoAt DEF JoinPlayback
  <2>2. QED
    BY <1>7, <2>1 DEF JoinPlayback, flags, setup, ReceiversInv, Fit, StopInv, ListenInv,
       PlayInv, Left, Ending, Beginning
<1>8. CASE StopDone(c)
  <2>1. At = "stopped" /\ At' \in {"idle", "stop", "gone"} /\ OneCaller'
    <3>1. then[c] \in Thens
      BY DEF TypeInv, Thens
    <3>2. PICK to \in {"idle", "stop", "gone"} : Goto(c, "stopped", to)
      BY <1>8, <3>1 DEF StopDone, Thens
    <3>3. QED
      BY <3>2, GotoAt
  <2>2. /\ state' \in {"CLOSED", "IDLE"} /\ UNCHANGED <<flags, setup, workers>>
    BY <1>8 DEF StopDone
  <2>3. QED
    BY <2>1, <2>2 DEF flags, setup, workers, ReceiversInv, Fit, StopInv, ListenInv,
       PlayInv, Left, Ending, Beginning
<1>9. QED
  BY <1>1, <1>2, <1>3, <1>4, <1>5, <1>6, <1>7, <1>8 DEF Stopping

LEMMA ThreadsKeepCalls ==
    ASSUME TypeInv, CallsInv, Threads
    PROVE  CallsInv'
<1> USE DEF CallsInv
<1>t. rtp \in Receivers /\ video \in Receivers
  BY DEF TypeInv
<1>c. UNCHANGED <<state, flags, setup, calls, renderer>> /\ At' = At /\ OneCaller'
  BY DEF Threads, RtpEnds, VideoEnds, AwaitFrame, FrameCame, PlaybackEnds,
     TimingSeesStop, TimingFails, calls, At, OneCaller
<1>1. CASE RtpEnds
  <2>0. /\ rtp.thread = "live" /\ ~rtp.running
        /\ rtp' = [rtp EXCEPT !.thread = "ended"]
    BY <1>1 DEF RtpEnds, Ended
  <2>1. At = "join rtp"
    BY <2>0 DEF ReceiversInv, Fit
  <2>2. ~rtp'.running /\ ~rtp'.deferred /\ rtp'.sock = rtp.sock
    BY <2>0, <2>1, <1>t DEF StopInv, Receivers
  <2>3. UNCHANGED <<video, playback, timing>>
    BY <1>1 DEF RtpEnds
  <2>4. QED
    BY <1>c, <2>1, <2>2, <2>3 DEF flags, setup, ReceiversInv, Fit, StopInv,
       ListenInv, PlayInv, Left, Ending, Beginning
<1>2. CASE VideoEnds
  <2>0. /\ video.thread = "live" /\ ~video.running
        /\ video' = [video EXCEPT !.thread = "ended"]
    BY <1>2 DEF VideoEnds, Ended
  <2>1. At = "join video"
    BY <2>0 DEF ReceiversInv, Fit
  <2>2. ~video'.running /\ ~video'.deferred
    BY <2>0, <2>1, <1>t DEF StopInv, Receivers
  <2>3. UNCHANGED <<rtp, playback, timing>>
    BY <1>2 DEF VideoEnds
  <2>4. QED
    BY <1>c, <2>1, <2>2, <2>3 DEF flags, setup, ReceiversInv, Fit, StopInv,
       ListenInv, PlayInv, Left, Ending, Beginning
<1>3. CASE AwaitFrame \/ FrameCame
  <2>1. /\ video'.thread = video.thread /\ video'.running = video.running
        /\ video'.deferred = video.deferred /\ video'.sock = video.sock
    BY <1>3, <1>t DEF AwaitFrame, FrameCame, Receivers
  <2>2. UNCHANGED <<rtp, playback, timing>>
    BY <1>3 DEF AwaitFrame, FrameCame
  <2>3. QED
    BY <1>c, <2>1, <2>2 DEF flags, setup, ReceiversInv, Fit, StopInv, ListenInv, PlayInv,
       Left, Ending, Beginning
<1>4. CASE PlaybackEnds \/ TimingSeesStop \/ TimingFails
  <2>1. /\ playback' = playback \/ playback = "live"
        /\ timing' = timing \/ timing = "live"
        /\ UNCHANGED <<rtp, video>>
    BY <1>4 DEF PlaybackEnds, TimingSeesStop, TimingFails
  <2>2. QED
    BY <1>c, <2>1 DEF flags, setup, ReceiversInv, Fit, StopInv, ListenInv, PlayInv,
       Left, Ending, Beginning
<1>5. QED
  BY <1>1, <1>2, <1>3, <1>4 DEF Threads

LEMMA CallsInductive == ASSUME Serialised PROVE Spec => []CallsInv
<1>1. TypeInv /\ CallsInv /\ [Next]_vars => CallsInv'
  <2> SUFFICES ASSUME TypeInv, CallsInv, [Next]_vars PROVE CallsInv'
    OBVIOUS
  <2>1. CASE UNCHANGED vars
    BY ZenonT(30), <2>1 DEF vars, flags, setup, workers, calls, CallsInv, At, OneCaller,
       ReceiversInv, Fit, StopInv, ListenInv, PlayInv, Left, Ending, Beginning
  <2>2. QED
    BY <2>1, HandlersKeepCalls, StreamingKeepsCalls, StoppingKeepsCalls,
       ThreadsKeepCalls DEF Next
<1>2. IInv => TypeInv
  BY DEF IInv
<1>3. QED
  BY <1>1, <1>2, CallsInit, Inductive, PTL DEF Spec

(* A session that has been stopped or destroyed has no thread left and no  *)
(* start pending (stop_streaming, drop_session and the destructor).        *)
THEOREM StoppedThreadsAreJoined ==
    ASSUME Serialised PROVE Spec => []StoppedHasNoThreads
<1>1. TypeInv /\ CallsInv => StoppedHasNoThreads
  BY SessionAssumption DEF TypeInv, CallsInv, OneCaller, At, AtRest, Callers, StopInv, Left, StoppedHasNoThreads,
     AllThreads
<1>2. IInv => TypeInv
  BY DEF IInv
<1>3. QED
  BY <1>1, <1>2, CallsInductive, Inductive, PTL

(* A session that plays or is paused listens on the ports it has, whether  *)
(* they came before RECORD or after it (rtp_receiver.h:97).                *)
THEOREM PlayerListens == ASSUME Serialised PROVE Spec => []PlayingListens
<1>1. CallsInv => PlayingListens
  BY DEF CallsInv, At, AtRest, Callers, ReceiversInv, Fit, ListenInv, PlayingListens
<1>2. QED
  BY <1>1, CallsInductive, PTL

(* Between two calls the state, playing_ and what the audio renderer was   *)
(* told last agree.                                                        *)
THEOREM StatesAgree == ASSUME Serialised PROVE Spec => []StateAgrees
<1>1. CallsInv => StateAgrees
  BY DEF CallsInv, At, AtRest, Callers, PlayInv, StateAgrees
<1>2. QED
  BY <1>1, CallsInductive, PTL
=============================================================================
