------------------------------ MODULE Playback ------------------------------
(***************************************************************************)
(* The audio end of a session (src/core/airplay_session_impl.cpp): the     *)
(* receiver thread decodes packets into pcm_buffer_, the playback thread   *)
(* moves chunks of 20 ms from it to the renderer, and the thread of an     *)
(* RTSP connection starts, stops, pauses, flushes and reconfigures it all. *)
(* The buffer's own operations are atomic (AudioBuffer); between them the  *)
(* threads interleave freely.                                              *)
(***************************************************************************)
EXTENDS AudioBuffer

CONSTANTS
    Want,       \* frames in 20 ms: sample_rate / 50
    MaxTotal,   \* bound: bytes written under one configuration
    MaxConfig   \* bound: configurations and flushes

ASSUME PlaybackAssumption ==
    Want \in 1 .. MaxFrames /\ MaxTotal \in Nat /\ MaxConfig \in Nat

VARIABLES
    pc,        \* the playback thread
    wbpf,      \* its local bpf, read once when the thread starts
    wcfg,      \* history: the configuration it was read under
    ask,       \* frames it is about to read
    tmp,       \* its local tmp, kept from one chunk to the next
    got,       \* its local got: frames of tmp it is about to hand over
    fresh,     \* history: bytes of tmp that the read of these frames filled
    stop,      \* playback_stop_
    playing,   \* playing_
    rx,        \* the receiver: sockets and thread
    rtsp,      \* where the RTSP thread is
    cfgNo,     \* configurations of pcm_buffer_ so far
    told,      \* the configuration last given to on_config
    silenced,  \* on_stop was the renderer's last transport call
    played,    \* history: the newest sample handed over
    flushes    \* flushes so far

worker   == <<pc, wbpf, wcfg, ask, tmp, got, fresh>>
control  == <<stop, playing, rx, rtsp>>
renderer == <<told, silenced, played>>
counters == <<cfgNo, flushes>>
vars == <<ring, worker, control, renderer, counters>>

(* A sample is its configuration and its number there; Silent is a byte of *)
(* tmp that nothing was read into.  One sample comes before another when   *)
(* it was decoded earlier.                                                 *)
Samples == Nat \X (Nat \cup {Blank})

Silent == <<0, Blank>>

Before(a, b) == a[1] < b[1] \/ (a[1] = b[1] /\ a[2] < b[2])

Init ==
    /\ RingInit
    /\ pc = "off" /\ wbpf = bpf /\ wcfg = 0
    /\ ask = 0 /\ tmp = <<>> /\ got = 0 /\ fresh = 0
    /\ stop = FALSE /\ playing = FALSE /\ rx = "unbound" /\ rtsp = "idle"
    /\ told = 0 /\ silenced = FALSE /\ played = Silent
    /\ cfgNo = 0 /\ flushes = 0

(* tmp.resize(n): what it held stays, new bytes are zero.                  *)
Resized(n) == [j \in 1 .. n |-> IF j <= Len(tmp) THEN tmp[j] ELSE Silent]

(* tmp after read_frames of ask frames: the rest of it is what it was.     *)
Filled ==
    LET read == Bytes(ask)
    IN  [j \in 1 .. Len(tmp) |-> IF j <= Len(read) THEN <<cfgNo, read[j]>> ELSE tmp[j]]

(* The bytes on_pcm is given: got frames, counted with the thread's own    *)
(* bytes per frame.                                                        *)
Given == got * wbpf

(* A chunk larger than the vector it is copied into leaves the process in  *)
(* no defined state: the model stops there.                                *)
Defined == pc # "overrun"
-----------------------------------------------------------------------------
(* on_rtp_packet: a decoded packet goes into the buffer, playing or not.   *)
Decode(n) ==
    /\ Defined /\ rx = "running"
    /\ total + n <= MaxTotal
    /\ Write(n)
    /\ UNCHANGED <<worker, control, renderer, counters>>
-----------------------------------------------------------------------------
(* playback_worker.  The iterations that only sleep change nothing.        *)
Begin ==
    /\ pc = "begin"
    /\ wbpf' = bpf /\ wcfg' = cfgNo
    /\ tmp' = <<>>
    /\ pc' = "loop"
    /\ UNCHANGED <<ring, ask, got, fresh, control, renderer, counters>>

(* Variant (one slip, named here): a chunk of exactly 20 ms is not taken.  *)
PollMore ==
    /\ pc = "loop"
    /\ ~stop /\ playing
    /\ Have > Want
    /\ ask' = Want /\ tmp' = Resized(Want * wbpf)
    /\ pc' = "read"
    /\ UNCHANGED <<ring, wbpf, wcfg, got, fresh, control, renderer, counters>>

Poll ==
    /\ pc = "loop"
    /\ ~stop /\ playing
    /\ Have >= Want
    /\ ask' = Want /\ tmp' = Resized(Want * wbpf)
    /\ pc' = "read"
    /\ UNCHANGED <<ring, wbpf, wcfg, got, fresh, control, renderer, counters>>

(* The buffer may have been flushed, refilled or reconfigured since Poll.  *)
ReadChunk(from, to, none) ==
    /\ pc = from
    /\ IF Taken(ask) = 0
       THEN pc' = none /\ UNCHANGED <<ring, tmp, got, fresh>>
       ELSE /\ Read(ask)
            /\ tmp' = Filled
            /\ got' = Taken(ask) /\ fresh' = Taken(ask) * bpf
            /\ pc' = IF fresh' <= Len(tmp) THEN to ELSE "overrun"
    /\ UNCHANGED <<wbpf, wcfg, ask, control, renderer, counters>>

(* on_pcm                                                                  *)
HandOver(from, to) ==
    /\ pc = from
    /\ played' = tmp[IF fresh < Given THEN fresh ELSE Given]
    /\ got' = 0 /\ fresh' = 0
    /\ pc' = to
    /\ UNCHANGED <<ring, wbpf, wcfg, ask, tmp, control, told, silenced, counters>>

(* Variant: a paused worker sleeps on without looking at playback_stop_.   *)
SeeStopPlaying ==
    /\ pc = "loop"
    /\ stop /\ playing
    /\ ask' = Have /\ tmp' = Resized(Have * wbpf)
    /\ pc' = IF Have > 0 THEN "drain" ELSE "exited"
    /\ UNCHANGED <<ring, wbpf, wcfg, got, fresh, control, renderer, counters>>

(* The loop ends; what is left in the buffer is played.                    *)
SeeStop ==
    /\ pc = "loop"
    /\ stop
    /\ ask' = Have /\ tmp' = Resized(Have * wbpf)
    /\ pc' = IF Have > 0 THEN "drain" ELSE "exited"
    /\ UNCHANGED <<ring, wbpf, wcfg, got, fresh, control, renderer, counters>>

Worker ==
    \/ Begin \/ Poll \/ SeeStop
    \/ ReadChunk("read", "deliver", "loop")
    \/ HandOver("deliver", "loop")
    \/ ReadChunk("drain", "deliverLast", "exited")
    \/ HandOver("deliverLast", "exited")
-----------------------------------------------------------------------------
(* The RTSP thread.  allocate_ports: the sockets are opened once in the    *)
(* life of a session, and a start that came before them is made up for.    *)
AllocatePorts ==
    /\ Defined /\ rtsp = "idle"
    /\ \/ rx = "unbound"  /\ rx' = "bound"
       \/ rx = "deferred" /\ rx' = "running"
    /\ UNCHANGED <<ring, worker, stop, playing, rtsp, renderer, counters>>

(* rtp_.start(): with closed sockets the start is deferred, for ever when  *)
(* the session has had its ports already.                                  *)
ReceiverStart ==
    rx' = CASE rx = "unbound" -> "deferred"
            [] rx = "bound"   -> "running"
            [] OTHER          -> rx

(* start_streaming, and resume_streaming, which sets no more than this:    *)
(* the threads start unless they are running (RECORD while paused).        *)
Start ==
    /\ Defined /\ rtsp = "idle"
    /\ stop' = FALSE
    /\ ReceiverStart
    /\ IF pc = "off" THEN pc' = "begin" ELSE UNCHANGED pc
    /\ playing' = TRUE
    /\ silenced' = FALSE
    /\ UNCHANGED <<ring, wbpf, wcfg, ask, tmp, got, fresh, rtsp, told, played,
                   counters>>

Pause ==
    /\ Defined /\ rtsp = "idle"
    /\ playing
    /\ playing' = FALSE
    /\ UNCHANGED <<ring, worker, stop, rx, rtsp, renderer, counters>>

(* stop_streaming: the flags first, then the receiver thread is joined,    *)
(* then the playback thread, then on_stop.                                 *)
StopFlags ==
    /\ Defined /\ rtsp = "idle"
    /\ stop' = TRUE
    /\ playing' = FALSE
    /\ rtsp' = "stopRx"
    /\ UNCHANGED <<ring, worker, rx, renderer, counters>>

JoinReceiver ==
    /\ Defined /\ rtsp = "stopRx"
    /\ rx' = IF rx \in {"unbound", "deferred"} THEN "unbound" ELSE "closed"
    /\ rtsp' = "join"
    /\ UNCHANGED <<ring, worker, stop, playing, renderer, counters>>

(* Variant: on_stop without waiting for the playback thread.               *)
StopUnjoined ==
    /\ Defined /\ rtsp = "join"
    /\ rtsp' = "idle"
    /\ silenced' = TRUE
    /\ UNCHANGED <<ring, worker, stop, playing, rx, told, played, counters>>

JoinPlayback ==
    /\ Defined /\ rtsp = "join"
    /\ pc \in {"off", "exited"}
    /\ pc' = "off"
    /\ rtsp' = "idle"
    /\ silenced' = TRUE
    /\ UNCHANGED <<ring, wbpf, wcfg, ask, tmp, got, fresh, stop, playing, rx,
                   told, played, counters>>

(* flush_buffers                                                           *)
FlushBuffers ==
    /\ Defined /\ rtsp = "idle"
    /\ flushes < MaxConfig
    /\ Flush
    /\ flushes' = flushes + 1
    /\ UNCHANGED <<worker, control, renderer, cfgNo>>

(* configure_audio, configure_ap2_audio: set_config, then on_config.       *)
Configure(b) ==
    /\ Defined /\ rtsp = "idle"
    /\ cfgNo < MaxConfig
    /\ SetConfig(b)
    /\ cfgNo' = cfgNo + 1
    /\ rtsp' = "tell"
    /\ UNCHANGED <<worker, stop, playing, rx, renderer, flushes>>

OnConfig ==
    /\ Defined /\ rtsp = "tell"
    /\ told' = cfgNo
    /\ rtsp' = "idle"
    /\ UNCHANGED <<ring, worker, stop, playing, rx, silenced, played, counters>>

Rtsp ==
    \/ AllocatePorts \/ Start \/ Pause
    \/ StopFlags \/ JoinReceiver \/ JoinPlayback
    \/ FlushBuffers
    \/ (\E b \in Formats : Configure(b)) \/ OnConfig

Next ==
    \/ \E k \in 1 .. MaxWrite, r \in 0 .. bpf - 1 : Decode(k * bpf + r)
    \/ Worker
    \/ Rtsp

Spec == Init /\ [][Next]_vars

(* The playback thread is scheduled, and a call of the RTSP thread that is *)
(* under way goes on.                                                      *)
FairSpec ==
    /\ Spec
    /\ WF_vars(Worker)
    /\ WF_vars(JoinReceiver) /\ WF_vars(JoinPlayback) /\ WF_vars(OnConfig)
-----------------------------------------------------------------------------
TypeInv ==
    /\ RingTypeInv
    /\ pc \in {"off", "begin", "loop", "read", "deliver", "drain", "deliverLast",
               "exited", "overrun"}
    /\ wbpf \in Formats
    /\ ask \in 0 .. MaxFrames /\ got \in 0 .. MaxFrames /\ fresh \in Nat
    /\ tmp \in Seq(Samples)
    /\ (got > 0) <=> (pc \in {"deliver", "deliverLast", "overrun"})
    /\ rtsp \in {"idle", "stopRx", "join", "tell"}
    /\ rx \in {"unbound", "deferred", "bound", "running", "closed"}
    /\ stop \in BOOLEAN /\ playing \in BOOLEAN /\ silenced \in BOOLEAN
    /\ cfgNo \in 0 .. MaxConfig /\ told \in 0 .. cfgNo /\ wcfg \in 0 .. cfgNo
    /\ flushes \in 0 .. MaxConfig
    /\ played \in Samples

(* The player is sound: every variable has its type, and between any two   *)
(* steps of its threads the ring holds the newest bytes in order and only  *)
(* whole frames.                                                           *)
WellFormed == TypeInv /\ RingInv /\ FrameAligned

(* The renderer is given new samples in the order they were decoded: the   *)
(* bytes a read filled come after all new ones before them and run on      *)
(* without a gap, whatever was dropped, flushed or configured between the  *)
(* reading of a chunk and its delivery.  What follows them in the chunk is *)
(* never newer: when the stream was reconfigured to smaller frames than    *)
(* the thread counts with, the renderer is given silence, or samples tmp   *)
(* still holds, a second time.  As long as the configuration the thread    *)
(* began under lasts, a chunk is new from end to end and goes out whole:   *)
(* every sample at most once, and none of what was read is cut off.        *)
PlayedInOrder ==
    [][(got > 0 /\ got' = 0) =>
          /\ Before(played, tmp[1])
          /\ \A j \in 1 .. Given :
                IF j <= fresh THEN tmp[j] = <<tmp[1][1], tmp[1][2] + j - 1>>
                ELSE Before(tmp[j], tmp[1])
          /\ tmp[1][1] = wcfg => Given = fresh]_vars

(* After on_stop and until playback starts again the renderer is given     *)
(* nothing: stop_streaming waits for the playback thread to end.           *)
QuietWhenStopped == [][silenced => played' = played]_vars

(* stop_streaming returns: the threads it joins see their flags.           *)
StopCompletes == rtsp = "stopRx" ~> (rtsp = "idle" \/ ~Defined)

(* A chunk that is due is played, unless the transport, a flush or a new   *)
(* configuration takes it back.                                            *)
ChunksGetPlayed ==
    (playing /\ pc = "loop" /\ Have >= Want)
        ~> (pc \in {"deliver", "overrun"} \/ ~playing \/ Have < Want)
=============================================================================
