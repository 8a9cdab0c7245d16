# TLA+ models of airplay2lib

A verification project for the AirPlay receiver library in this repository:
TLA+ modules translated from its source, TLC runs of small instances of them,
and theorems about them that TLAPS checks for every value of the constants.
Source paths below are relative to the repository root; `PROJECT.json` maps
every definition to the lines it models.

## 1. The system

A process that embeds the library starts one server. Senders find it through
mDNS, connect by TCP and speak RTSP over an HTTP-like framing; each connection
has at most one session. A session receives audio by RTP/UDP and video by RTP or
by a TCP push, decodes it, and hands it to renderers of the application.

| Component | State it keeps | Operations | Threads |
|---|---|---|---|
| `ServerImpl` (core/airplay_server_impl.cpp) | `running_`, `sessions_` and the wrappers under `mu_`, `fp_keymsg_` under `fp_mu_` | start, stop, one handler per RTSP request, ensure/get/drop session, callbacks to the application | those of its callers |
| `HttpServer` (net/http_server.cpp) | `running_`, `listen_sock_`, `connections_` under `mu_`, `routes_` | start, stop, accept, one worker loop per connection, dispatch, send | accept thread, one detached worker per connection |
| `HttpRequestParser` (net/http_parser.cpp) | parser state, line buffer, request | parse, take_request | the connection's worker |
| `RtspServer` (net/rtsp_server.cpp) | the handlers, the list of routes | the routes; SDP, plist and TLV bodies | workers |
| `SessionImpl` (core/airplay_session_impl.cpp) | `state_`, `playing_`, stop flags, ports, formats, media keys, four threads | configure, allocate ports, start, pause, resume, stop, flush, disconnect | playback and timing thread |
| `RtpReceiver` (net/rtp_receiver.cpp) | sockets, `jbuffer_`, `next_expected_seq_`, gap timer, cipher | open, start, stop, flush, receive and emit | receiver thread |
| `VideoRtpReceiver` (net/video_rtp.cpp) | sockets, push connection, cipher, reassembler | open, start, stop, flush, two receive loops | receiver thread |
| `NalReassembler` (codec/nal_reassembler.cpp) | the frame under way, parameter sets, next sequence number | push, flush | video receiver |
| `AudioBuffer` (codec/audio_buffer.cpp) | byte ring, offsets, fill count | set_config, write, read, flush | receiver writes, playback reads |
| `RtcpReceiver`, `TimingSync` (net/rtcp.cpp, timing.cpp) | last report, time of the next one | read and write reports, answer requests for the time | receiver, timing thread |
| `AirPlayPairing` (core/airplay_pairing.cpp) | identity and its file, `verify_states_`, `paired_ips_` | pair-setup, pair-verify, fp-setup | workers |
| `FairPlaySap` (core/fairplay.cpp) | state, keys and secret of one SAP pairing | one TLV message after another | workers |
| `MdnsPublisher` (mdns/) | records, sockets, number of announcements | start, stop, announce, answer, goodbye | mdns thread |
| `MdnsBrowser` (mdns/) | sockets, table of devices | start, stop, ask, read | browser thread |
| crypto (crypto/) | counters of the ciphers | AES, SHA-512 and its kin, the curves | - |
| plist (util/plist.cpp) | - | read and write XML and binary property lists | - |
| codecs (codec/) | configuration and output format of two decoders | configure, reset, decode | RTSP worker configures and resets, receiver decodes |
| platform | local | wrappers of the operating system | - |

**How they interact.** A worker thread parses a request, `RtspServer` turns it
into a call of a `ServerImpl` handler, which looks the session up under `mu_`
and then works on it *without* the lock, through a raw pointer. The session
starts and joins its threads from the worker. The receiver threads call back
into the session (`on_rtp_packet`, the frame callback), which decodes into
`AudioBuffer`; the playback thread takes chunks of 20 ms from it. The
application calls start, stop and `AirPlaySession::disconnect` from threads of
its own, and is called back from all of them.

**What is hard in it.**
- Threads: joins of threads that must see a flag set earlier in the same call,
  flags shared by calls that hold no common lock, detached workers that outlive
  `stop()`, sockets closed under a thread that waits on them.
- Order: SETUP, RECORD and ANNOUNCE in either order and repeated; a start that
  comes before the ports; keys whose two ingredients arrive separately.
- The network: lost, duplicated and reordered packets; 16-bit sequence numbers
  that wrap; timeouts that are noticed only when something else arrives.
- The wire: requests and frames cut anywhere, counters that run on from packet to
  packet, several formats of one thing, names compressed by pointers.
- Agreement: keys whose derivation both sides begin from different ends, over
  requests that may be repeated, on connections that come and go.
- Limits: a ring that overwrites its oldest frames, a jitter buffer at its depth,
  a table of sessions at `max_sessions`.

**What makes each part correct.** The jitter buffer: packets in stream order, each
once, none held for ever. The ring: a drop-oldest queue of whole frames. Playback:
in order, silent after `on_stop`, never stuck. The session: no thread after a stop,
listening while it plays, the current key in use, every call returns. The server:
bounded table, matched callbacks, everything closed after `stop()`. The
reassembler: no mixed frames, no unmarked holes. The wire: what arrives is what was
sent, however it was cut, and is decoded as it was described last. The handshake: both sides end with the same keys and
nobody is taken for somebody else. Discovery: the device is found, and quiet after
`stop()`. `PROJECT.json` lists under
"hazards" what endangers these, at its line, with the properties that watch it,
and, where none does, why.

## 2. Modules

Machines, each a specification with its own variables:

| Module | Models | Proofs |
|---|---|---|
| `Playout` | what the jitter buffer promises: a playout point that takes or counts each position of the stream | - |
| `JitterBuffer` | `RtpReceiver`: reception, insertion, `emit_ready`, delivery, flush | `JitterBufferProofs` |
| `PcmQueue` | what the audio ring promises: a drop-oldest queue of frames | - |
| `AudioBuffer` | the byte ring itself | `PlaybackProofs` |
| `Playback` | extends `AudioBuffer`: the receiver, playback and RTSP threads around the ring | `PlaybackProofs` |
| `Session` | `SessionImpl` under the handlers of `ServerImpl` and the application's `disconnect()`; `Thread`, and the life of both receivers | `SessionProofs` |
| `SessionTable` | what the server promises of its sessions: opened, found, given back and closed, each by its own connection | - |
| `Server` | `HttpServer` with `ServerImpl`'s table, start and stop | `ServerProofs` |
| `NalReassembler` | `NalReassembler` under a lossy network | `NalReassemblerProofs` |
| `Handshake`, `Pairing` | pair-setup, pair-verify, fp-setup, SETUP and RECORD as far as keys go, with the clients, several connections, crashes and restarts | `HandshakeProofs` |
| `Mdns` | publisher, browser, their threads and callers, and the multicast between them | `MdnsProofs` |
| `Streams` | senders of streams and encrypted packets, the network, and the code that reads them in the pieces in which they arrive | `StreamInvariants`, `StreamProofs` |
| `RtpPackets` | the sender's side of RTP packets, RTCP reports and requests for the time, and what both header parsers, the report handler and the timing handler should make of them | `JitterBufferProofs` |
| `Wire` | extends `Streams` and `RtpPackets` with what crosses the borders as datagrams and values | - |
| `MC...` | instances for TLC | - |

What `Streams` (the first four rows) and `Wire` are built from, operators that translate one
file or class each:

| Module | Source | What it is checked against |
|---|---|---|
| `HttpParser` | net/http_parser.cpp and the read loop of net/http_server.cpp | the requests as they were written |
| `VideoPush` | the data path of net/video_rtp.cpp | the sender's frames |
| `Ciphers` | crypto/aes_ctr.cpp, aes_cbc.cpp and the ciphers of net/rtp_receiver.cpp | the plain text, under both modes as their standard has them |
| `Hashes` | crypto/sha512.cpp | the whole message, padded as FIPS 180-4 says |
| `Curve` | crypto/curve25519.cpp | arithmetic of integers |
| `Plist` | util/plist.cpp | the value before it was written |
| `RtpWire` | both RTP header parsers, net/rtcp.cpp, net/timing.cpp | the packet and the report, in `RtpPackets` |
| `Sdp`, `Routes` | net/rtsp_server.cpp | the requests of `Requests`, and what they mean to their sender |
| `AudioFormat` | configure_audio, configure_ap2_audio and on_rtp_packet of core/airplay_session_impl.cpp, the wrappers of both decoders | the format as the client described it last |
| `FairPlay` | core/fairplay.cpp | a client that follows, skips or repeats steps |
| `Dns` | the packets of mdns/mdns_publisher.cpp and mdns_browser.cpp | the device and the names |

`Loops` has the loops of these modules as functions on `0..n`: `Iterate(Step, start, n)`
is what n turns make of `start`. Everything that `Streams` reaches is written with it, or a fold,
and without recursive operators, so that it can be proved about.

The modules keep the names of the source. One action is one critical
section, or one step between two places where another thread can act:

- `JitterBuffer`: `emit_ready` is a loop under `jbuf_mu_`, so its iterations
  (`TakeNext`, `DropStale`, `JumpGap`, `WaitGap`) run while `pc = "emit"` excludes
  `Flush`; delivery is outside the lock and does not. A packet is its position in
  the sender's stream; what the receiver compares is `SeqOf(position)`. The map, the gap
  timer and the numbers are hidden in `Playout`: `to_emit` is its line, which is late while
  some of a batch is left that a flush has overtaken, and a step that makes room, jumps or
  waits is one that passes positions, drops a packet, or none.
- `AudioBuffer`: each operation holds `mu_`, hence one action each. A byte is the
  number of its arrival. `size_t` is arithmetic modulo `SizeMod`, because
  `write_bytes` lets the fill count go below zero for a moment. An abstract
  state (`queue`) is computed from offsets and bytes, and the run checks that
  `Playback` implements `PcmQueue` under it.
- `Playback`: `available_frames`, `read_frames` and `on_pcm` are three steps of the
  playback thread. `stop_streaming` is three steps: flags, join of the receiver, join
  of the playback thread and `on_stop`. `tmp` is a vector that outlives the chunk:
  `Resized` keeps what it held, and a read fills its beginning (`Filled`). A thread that began
  before the stream was configured to smaller frames hands over the whole of a chunk of which it
  read a part (`Given`), so the renderer is given silence, or samples of the chunk before a
  second time (`airplay_session_impl.cpp:416-429`). `PlayedInOrder` says what holds then (what is
  new is in order and without a gap, what follows it is never newer), and that as
  long as the configuration lasts a chunk has new samples only.
- `Session`: `start_streaming` and `stop_streaming` are one action per call they
  make; shorter handlers are one action. TEARDOWN is `stop_streaming` followed by
  the disconnect of `drop_session`, which stops again, and the destructor, which
  stops a third time, as the code does.
- `Server`: `stop()` is seven steps, `accept` and the entry into `connections_` two,
  a request is "received", "has the pointer", "done", "reply", each a step of its own: one
  that was read before `stop()` can be dispatched during or after it, and then make a session,
  and tell the application of it, when `stop()` has returned (`http_server.cpp:179-194`,
  `airplay_server_impl.cpp:137`). What a handler does meanwhile is
  `Session`; the two share nothing but who may call whom, and `stale` marks the
  connections where that meeting goes wrong. `SessionTable` sees the table, the connections
  whose handler has the pointer (`Users`), those of them that stop() left without a
  session (`stale`), and whom the application knows of.
- `NalReassembler`: `push()` is one action (it holds `mu_`). Bytes are pieces: the
  packet and frame they come from and whether they begin or continue a NAL. A packet may also
  be too short for its form, which is dropped with a mark or, at five places, without
  one (`hollow` remembers those).
- `Handshake`: one request is one step, handler and reading of the answer together: a
  client waits for its answer, and what connections share (`paired_ips_`, the table)
  is behind locks. Cryptography is its laws: a secret is the set of the two keys, a
  signature is who signed what, a masked signature reads only under the secret and
  the place in the key stream it was masked with. Writing the identity is two steps,
  so that the process can die between them. Clients are honest in what they send; they
  may repeat, reconnect, skip the pairing and fail to give the PIN. `PinGuards` is about
  what ANNOUNCE lets those do, and says nothing of SETUP, which configures a session of
  AirPlay 2 without asking (`airplay_server_impl.cpp:213-258`); `configured` is therefore
  the set of requests that a session was configured by. The identity outlives a restart only
  if `identity_key_path` is set (`persists`); by default every start has a new one. An honest client pairs before SETUP and sends no new key while it plays.
- `Mdns`: one socket operation, flag or join is one step; the two packets of an answer or
  announcement are two. Waits of the threads end at any moment, which covers the timers
  of 1.5 s and 5 s. A packet is the number of the start it announces and whether it is a
  goodbye; its bytes are in `Dns`.
- `Streams`, `Wire`: a behaviour is one job. A step hands the code the next piece (a segment of any
  length, the next packet or any of those on the way) and runs the whole reader on it.
  Text is tokens, the bytes that the code looks for and runs of bytes it does not.

Definitions whose comment begins with "Variant" are the code with one plausible
slip (a dropped guard, an off-by-one, a missing reset). No specification uses
them; putting one in the place of the definition below it shows that the runs
notice it, and `PROJECT.json` lists which property does.

## 3. Runs

Passing runs:

| Run | Bounds | States | Shows |
|---|---|---|---|
| `jitter_buffer` | 6 packets, depth 4, sequence numbers mod 16 that wrap after the third | 123 k | it is a playout line (order, each once, all that is passed is counted); depth, nothing held without a reason, held packets leave |
| `playback` | ring of 3 frames of 1 or 2 bytes, chunks of 2, writes of up to 4, one reconfiguration or flush | 141 k | the ring is a drop-oldest queue; playback is in order, quiet when stopped, live |
| `session` | 1 key, 2 stream ids, any sequence of handlers, disconnect not overlapping them; weak fairness of the threads | 1.0 M | threads, listening, video key and state agree between calls, and every call returns if the client pushes or hangs up |
| `server` | 2 connections, 1 slot, start and stop any number of times | 38 k | it is a table of sessions, callbacks included; what `stop()` closes, hang-ups and workers end |
| `nal_reassembler` | 4 packets of either codec, each lost, delivered or doubled, flush anywhere | 2.1 M | frames are not mixed, an unmarked frame has no hole but for packets too short to hold anything, and of the frames that a packet ends the oldest goes out |
| `handshake` | 2 connections of 1 or 2 devices, 1 or 2 sessions, 5 keys, 1 restart | 3.0 M | honest clients are accepted and keep the identity, signatures count once, keys agree, ANNOUNCE asks for the PIN |
| `mdns` | publisher started twice, browser any number of times, 1 packet or query in each socket, 1 first announcement (3 in the code) | 76 k | `stop()` returns and is quiet, the browser learns the device |
| `wire` | one job of each kind below at a time | 13 k | what arrives is what was sent |

The properties of `wire`, by the jobs they look at: `CutsInvisible` (requests on one
connection, frames of the screen and messages to be hashed, in all segmentations but those the
parser of requests minds, `Fragile`), `AudioReadable` (four
encrypted packets in any order, or in order for the counter mode),
`DatagramsUnderstood` (RTP headers with sources, extensions and cut short, reports in
any order, behind other sub-packets or cut, the exchange of times, a screen over UDP across the wrap of sequence
number and clock, announcements and questions of DNS), `ValuesReadBack` (property
lists in both formats, base64, hexadecimal, padding, responses), `RequestsUnderstood`
(each route, four SDPs with keys in either place, both kinds of SETUP and their
answers, `/info`, `/play`, the FairPlay messages, and ten descriptions of audio, each
alone, behind any other, and with a FLUSH in between), `ArithmeticAgrees` (key agreement and
signatures, all operations on limbs at and around the modulus, a SAP pairing with any message
next).

Why the bounds suffice. The jitter buffer needs a buffer that can be full, a gap
shorter and one longer than half of it, and a wrap in the middle of both: depth 4
and 6 packets around the wrap give all of them. The ring needs a write larger than the
whole, a wrap of both offsets and two frame sizes. The session's state is finite
without bounds on the number of calls, so every order and repetition is covered;
two ids are needed for a key to be out of date. Two connections and one slot give
every conflict over the slot, and a connection id is never used again, so a third
connection only repeats them (with three, the liveness properties take longer than
five minutes). Four packets are two frames with a fragmented NAL and something lost
around its edges. Five keys are two rounds of one connection, or one of each, and a
second identity; a second restart only repeats the first. Discovery needs a start
after a stop, and a socket that is full. In `wire` a header of the push is 16 bytes
instead of 128 (the 16 that are read), field elements have three limbs of five bits and
the curves lie over the field of 53 elements: formulas, carries and the final
subtraction are those of the code, and at this size every boundary is near. AES has its
real size. Each bound is a constant of the module or a guard that names it. The two
connections of `handshake` are symmetric, and its properties are invariants.

Runs that are expected to end in a violation. Each checks one sentence of a
header or a comment that the code does not keep:

| Run | What TLC shows |
|---|---|
| `session_restart` | ports count as allocated for ever: after `/stop`, SETUP binds nothing and RECORD plays without listening |
| `session_disconnect` | `disconnect()` sets `playback_stop_` and joins later; a RECORD in between clears it and the join never ends |
| `wire_flush` | FLUSH resets the AAC decoder in mid-stream, and every packet after it is skipped until the format is described again |
| `server_end` | a client that hangs up, or a `stop()`, ends sessions without `on_session_disconnected`; the former also keeps its slot under `max_sessions` |

**Differences that the models show and no run states.** Properties above leave these
cases out by name, or the definitions mapped to these lines have them.

*Reception.* `rtp_receiver.cpp:246` says a gap times out even when nothing arrives, but
`select_read` returns true on a timeout (`platform_socket.cpp:533-541`): packets behind a
gap stay until the next one comes. The map of the jitter buffer is ordered numerically, so at
the 16-bit wrap `begin()` is not the oldest packet (157). The counter mode of AirPlay 1
decrypts in the order of arrival and one loss garbles the rest until a flush (294, 305);
so does the screen over UDP (`video_rtp.cpp:176`), whose packets older than the first get
a time 2^32 ticks ahead. A receiver report at the wrap gives the numerically largest
number held (211). A header extension cut short by the end of the packet is taken for
payload. When a marker packet is lost and the next frame is one packet, `push()` has two
frames and destroys the second (`nal_reassembler.cpp:277-280`), though the comment there says
that it is kept: `TakenGoesOut` promises the older one only. A packet too short for its form
is dropped without a mark (23, 94, 209, 240, 255), and the frame around it goes out as whole:
`CleanHasNoHole` excludes such packets by name (`hollow`).

*Session.* The playback thread counts with the frame size it read when it started, so a
chunk of one format can follow `on_config` of another (`audio_renderer.h:33`). Closing
sockets does not end a blocking `recv()` of the push, so the join of the video thread
waits for the client (`video_rtp.cpp:108`). `set_ap2_keys` erases keys
(`airplay_session_impl.h:107`), so RECORD after a SETUP that brought none starts without
decryption. TEARDOWN of one stream ends the whole session.

*Formats.* `parse_alac_fmtp` knows ten numbers behind a payload type. Of the line that
`docs/PROTOCOL.md:98` and its own comment (`alac_decoder.cpp:25`) give, it takes the sixth,
the channels, for `pb`, and the eighth, the largest frame, for the bit rate;
`RequestsUnderstood` has these two by name (`Misread`). The form of its header
(`alac_decoder.h:31`, eleven numbers and no payload type) loses its first, and of the twelve
numbers that iTunes sends the payload type is taken for the version; in both the version is then above 0, `Init`
refuses it, nobody looks at the result (`airplay_session_impl.cpp:187`, 193), and packets reach
the ring undecoded under the output format of an earlier stream. `config=` is not found as the
first parameter of `fmtp` (`aac_decoder.cpp:46`), AAC that is not ELD is configured as ELD
(`airplay_session_impl.cpp:203`), a SETUP of ALAC leaves the `fmtp` of an earlier AAC though the
comment at 251 says that it clears it, and a codec nobody knows leaves the format that was
there. Both decoders are meant for the receiver thread alone (`aac_decoder.h:14`), but
configure and reset come from the worker.

*Text.* The parser fails if the CRLF that completes a request is cut between its bytes
(`http_parser.cpp:354`, against 63-65), or the size line of a chunk anywhere (226-261).
A DATE is written as 0 (`plist.cpp:853`, read at 763), NONE becomes an empty
string in XML, and data of one byte more than a multiple of three come back from base64
complete, with 0xFF and a byte of garbage behind them (148-179, against `plist.h:198-199`);
`ValuesReadBack` names the first and the last of these (`Returning`). Both parsers of RTP leave
the padding of a packet in its payload (`rtp.h:67-72` shortens a copy of the length); packets
with padding, or of an odd number of bytes, are not among those of `WellFormedPacket`. `GET /getProperty?if=`
never matches its route (`rtsp_server.cpp:795`), a `framesize` that is the first
parameter of `fmtp` is not read (172-180), the result of ANNOUNCE is ignored (473-487),
a SETUP refused with `ok` false is answered by an empty 200 (540).

*Pairing.* `clear_verify_state` is called by `drop_session` only. `/auth-setup` is
answered before its second half can run (`rtsp_server.cpp:441`). The SAP pairing gets
no PIN, nothing past its M1 can be reached behind the older pair-setup, a wrong tag in
M3 is logged only. It is complete without a proof of the PIN in two ways, which `SapAgrees`
names: an M5 with an empty tag, of which nothing is compared (`fairplay.cpp:236-237`), and
a V3, whose signature is not looked at (281-291, against `fairplay.h:147`). SETUP of AirPlay 2
configures audio without the pairing that ANNOUNCE asks for.

*Discovery.* `stop()` says goodbye before it joins the thread, which may announce once
more (`mdns_publisher.cpp:221-225`; `StopIsQuiet` bounds it). Records are not renewed
though `mdns_publisher.h:22-24` says so. The target of SRV is always `target.local`, a
dot in a name cuts it, a label of more than 63 bytes becomes empty. The browser does
not look at the TTL, so a goodbye counts as a discovery, and what `_raop` says replaces
what `_airplay` said. A publisher that got another port than 5353 hears no questions.

**Deadlock** is checked in `server` and `mdns`. Elsewhere a behaviour may end: the stream
is over, the bounds are reached, the session is destroyed, the job is done.

**Fairness** is weak fairness of steps that the code takes by itself:
- `JitterBuffer`: the receiver thread goes on once it has a packet, and the clock
  passes a timeout. The network owes nothing: `HeldPacketsLeave` has the
  assumption that packets of any kind keep coming as its premise.
- `Playback`: the playback thread is scheduled, a call under way goes on.
- `Session`: calls go on and threads see the flags they poll (each loop has a
  `select` or a sleep of 500 ms or less). `session` adds that a client in the middle of
  a push sends or hangs up, because the code has no timeout there.
- `Server`: threads and a `stop()` under way go on; a reply takes at most the ten
  seconds of `send_raw`. Clients owe nothing and nobody has to stop the server.
  That a handler, and the disconnect of each session in `stop()`, comes back is
  assumed here; whether it does is the question of `Session`.
- `Mdns`: threads and calls under way go on. The network loses packets but not for ever:
  strong fairness of a packet being kept when it is sent again and again, and of a socket
  that has one being read before its `select` times out. Without it no one finds anything.

## 4. Theorems

All are proved from `Spec` of the module and its named assumptions alone, for every
value of the constants. Each follows the same line: an invariant `IInv` is shown to
hold initially and to be kept by every step, one case per action, and the theorem
follows from it.

- **JitterBuffer** (`ConstantsOK`: depth at least one, and a stretch of stream that
  `seq_dist` can order, `2 * MaxSent <= SeqMod`; beyond it signed distance has no
  meaning). `BufferWellFormed`, `PlayoutCorrect`, `LossIsCounted`, `HeldWaits`,
  `OutputInOrder`. The heart is `PlayoutInv`: the number the receiver
  expects stands for a definite stream position, and everything handed over, or
  collected and not handed over, is increasing and before it. Order alone is not
  inductive: it needs where the playout point is. The lemmas about `SeqDist` reduce
  the wrap to linear arithmetic. `BufferRefinesPlayout`: the buffer implements `Playout`. For
  this the receiver must know of nothing unsent (`NothingUnsent`), and then each step under the
  lock is put in terms of positions alone (`InsertMoves`, `TakeNextMoves`, `JumpGapMoves`,
  `EmitBeginMoves`): the numbers of the wire are gone from what remains.
- **AudioBuffer** (`RingAssumption`: a write exceeds the ring by at most one frame, the
  sizes fit `size_t`). `RingTypeCorrect`, `RingCorrect`, `FramesStayWhole`. Contents, offsets and whole
  frames need each other: the invariant is their conjunction. `RingRefinesQueue`: the ring
  implements `PcmQueue`. Since what is held is a run of consecutive numbers that ends with the
  last frame accepted (`HeldIsRun`), a step of the queue is known by two numbers, and
  `WriteFrames` and `ReadFrames` give them. **Playback** lifts this to the
  three threads: `PlayerWellFormed`, `PlayerRefinesQueue`; `StoppedIsQuiet`, an action property
  that needs only that the playback thread is gone when `on_stop` is called; and
  `RendererInOrder` (new samples in order and once, as long as the thread counts with the frame
  size of the ring; what `tmp` still holds after that), where `OrderInv` says that what was read under the present configuration,
  handed over or still in `tmp`, lies before the oldest byte the ring holds.
- **Session**. `TypeCorrect`, and `VideoKeyIsCurrent`: whatever the order of RECORD and the
  SETUPs, the receiver of a pushed video has the key of the current id. `KeyInv` adds
  that the derived key itself is current whenever the keys are ready.
  `StoppedThreadsAreJoined`, `PlayerListens` and `StatesAgree` hold when `disconnect()` and the
  handlers do not overlap (`Serialised`); when they do, `session_disconnect` shows what
  happens. What holds between two calls follows from what holds at each step of a call: `At`
  is the step the one call under way has come to, `StopInv` says which threads and which
  pending starts `stop_streaming` has ended by then, `ReceiversInv` ties the thread of a receiver
  to its flags, `ListenInv` and `PlayInv` follow `start_streaming` in the same way.
- **Server** (finitely many connections). `ServerWellFormed`, `TableShown`,
  `HandlersHaveSessions`, `StopClosesAll`. `StopInv` says which threads and connections can be left at each
  step of `stop()`, `SocketInv` that every open socket is in the map, in the list of
  `stop()`, or with a worker that is leaving; neither is visible in the property
  itself, and both are needed to know that nobody slips in between. `ServerRefinesTable`:
  the server implements `SessionTable`. What is needed beyond `IInv` is that only a handler at
  work can be left with a session that is gone (`StaleAreUsers`).
- **NalReassembler** (`NoneIsNoFrame`: no frame is the value that stands for no frame).
  `TypeCorrect`, `FramesAreNotMixed`, `CleanFramesAreSolid`, `OlderFrameGoesOut`. `FrameInv`
  says that the frame under way has the two properties itself and ends just before
  the next expected packet, unless it is marked; `SentInv` orders the sender's
  timestamps, which is what makes a late duplicate harmless.
- **Handshake** (any connections, devices, limits and numbers of keys and restarts).
  `TypeCorrect`, `Accepted`, `OnlyOwnSignature`, `KeysAgree`, `AnnounceNeedsProof`. `IInv` has one
  part per question: `IdentityInv` (what devices were told is what the file holds and
  the process uses, whenever there is a file), `KeysInv` (a key is drawn once; a key of one
  connection is nobody else's), `RoundInv` (both ends of a connection are in the same
  round of pair-verify with the same two keys), `SecretInv` (what is left of an earlier
  round cannot be taken for this one), `MediaInv` (each key of the session is the
  client's, or is about to be replaced) and `PinInv`. Agreement of the final keys is
  not inductive without knowing from which round each side's secret comes.
- **Mdns** (`MdnsAssumption`: the sockets hold at least one packet). `TypeCorrect`,
  `StoppedIsQuiet`. `PublisherInv` ties flag, thread, socket and caller together,
  `StaleInv` counts what the turn under way can still send, `BrowserInv` is the same
  for the browser; two lemmas say that each side leaves the other's alone.
- **RtpPackets**, what the threads of the receivers read besides the audio; the proofs are
  behind those of the jitter buffer.
  - `HeadersUnderstood`: of every well-formed packet without padding, cut anywhere, what both parsers
    find agrees with what was sent. `PacketLies` says where each field lies and how the bits of
    the first half come apart again; that the audio parser's length of an extension in 16 bits
    never wraps in one datagram is a matter of its size.
  - `ReportsUnderstood`: whatever sub-packets a datagram holds and wherever it is cut, the
    receiver then knows the last sender report that is complete in it, and what it knew before
    when there is none. By induction over the turns of the loop: behind the first k sub-packets
    it stands where the next begins (`TurnTakes`, `HeardMore`), until one is cut (`TurnStays`) or
    none is left (`TurnEnds`); as each has at least four bytes, the turns suffice.
  - `TimesUnderstood`: the answers to two requests are as far apart as the requests, to a tick of
    2^-16 s, over the wrap of the seconds too (`Apart`).

  All three are about one datagram or two, not about a specification: they are
  `HeadersAgree`, `ReportsAgree` and `TimesAgree`, which `DatagramsUnderstood` of `Wire` checks
  in its runs.
- **Streams** (`JobsWellFormed`: what is sent is a request by RFC 2326 and 7230, a frame or a
  packet with keys of 16 bytes, or a message of bytes; `HeaderHoldsItsFields`: the header of a
  frame has at least the 16 bytes that are read). The theorems are about `StreamSpec`, the
  part of `Spec` of `Wire` with these four kinds of jobs; the actions that `Wire` adds are not
  enabled in them. They hold for requests, frames, packets and messages of any number and
  length, cut in any way.
  - `DigestInPieces`. `HashInv`: the state is that of all whole blocks so far, and the buffer
    holds the rest. That padding then gives FIPS 180-4 is a matter of where 112 and 128 lie.
  - `AudioComesOut`, `AudioReadable`. That AES decrypts what it encrypts is proved from the
    rounds: each of the four steps is undone by its inverse, and the two matrices of
    MixColumns are inverse because the product of a column is linear in its bits. Then
    `AudioInv`: in counter mode the counter and the left-over key stream are those at the
    number of bytes read so far; in chained mode a packet needs nothing from the one before.
  - `ScreenInPieces`. `PushInv`: header and payload hold exactly what was sent of the frame
    under way, and the frames called back are those complete so far, each with its NAL
    units and the distance in time to the first picture. A hang-up only empties the frame under way.
  - `CutsChangeNothing`, `CutsInvisible` as a whole. For requests `HttpInv` says that the parser
    is `Between` two tokens of the text of the request under way: `Reads` lists where it can
    be (fifteen kinds of places: in a word, in a header's name or value, in a body, in
    the size or the data of chunk i, ...) and what its members are there. `TextLaid` says where these
    places are in the text. Each turn of the loop in `parse()` then has a lemma of its own
    (`MethodTurned` to `TrailerTurned`): it keeps to the text, and takes a token or leaves the
    headers; so the loop has ended after as many turns as the segment has tokens, and two
    (`LoopEnds`). A CR whose LF is in the next segment is part of this: the parser is then one
    token ahead of the sender, with a note of it. At the end of a request `take_request()` loses that
    note, the trailer makes none, and the end of a segment ends the line of a chunk's size: such
    cuts are `Fragile`, and the theorem, like the run, does not make them.

  The loops of these modules are written with `Iterate`, and the prover takes no law with an
  operator as parameter. `StreamInvariants` therefore names the turn of each loop (`Turn`) and
  what n turns leave (`After`); the law is proved once, of `After` (`AfterLaw`, `AfterTurns`, by
  `SetInduction` on the set of the naturals for which it holds), and each loop has a lemma that
  it is one of these.

**Only model-checked.** Everything under fairness (`HeldPacketsLeave`, `StopCompletes`,
`ChunksGetPlayed`, `CallsReturn`, `HungUpIsClosed`, `WorkersEnd`, `StopReturns` of `Server` and of
`Mdns`, `DeviceFound`), which the prover does not reach; and what `Wire` adds to `Streams`
(`DatagramsUnderstood` but for RTP headers, sender reports and times, `ValuesReadBack`, `RequestsUnderstood`,
`ArithmeticAgrees`). There the formats are trees (property lists, names of DNS), so readers
and writers are recursive operators in the model as they are in the code, and the prover
takes no module with one. For the same reason
`AudioReadable` and `CutsInvisible` are theorems of `StreamSpec` and not of `Spec`.

## 5. Not modelled, and why

- Codecs: how samples are computed, by the vendored ALAC decoder or by the system's AAC
  converter, which is taken to accept every configuration that is not empty. How they are
  configured is in `AudioFormat`; `Playback` takes a decoded packet as a number of bytes.
- playfair (vendored): its white-box cipher is one function in `Handshake`, of a message
  and a key. The rounds of SHA-512 are a function `Compress`; its buffering, padding and
  everything built on it are in `Hashes`.
- Platform: sockets and threads appear as what they do in each module; the wrappers themselves
  only rename calls of operating systems. The public API forwards every call.
- Volume, metadata, seeking and the URL player pass values through the session; their
  requests are in `Routes`.
- In `Handshake`: connections that break in the middle (ids are never used again, so what
  stays behind is read by nobody), a key file that cannot be written, weak keys in M1. The
  SAP pairing is checked alone in `Wire`, because the older one hides it.
- In `Streams`: a client that sends its next request before it has the answer to the last
  one (no segment holds parts of two), and a flush between encrypted packets, which
  resets the counter (`rtp_receiver.cpp:294`, 305). That the packets a flush has overtaken are
  handed over after it is in `JitterBuffer`, and `Playout` allows it (`late`).
- In `Handshake`: a message of an earlier round that is sent again on its own connection.
- In `Mdns`: the path through Apple's Bonjour, which gives the same records to the system.
- Data races on socket objects (`video_rtp.cpp:54`, and `close()` in another thread than
  `recv()`), and on the list of routes when a worker outlives a stop: the models take the
  orders the operating system can produce, not torn values.
- The callbacks of the application return; one that calls back into the server under
  `mu_` is outside the model.
- Two hazards have no property: an exception thrown by a handler leaves its connection behind
  (`http_server.cpp:212`, action `Throws`), and parameter sets in aggregation packets pile up
  (`nal_reassembler.cpp:35`, `ExtraAfter`). Both are in the models and reachable; a
  property that forbids them would fail.

## 6. Plan

In order of importance:

1. A composition of `Session` with `Server` in which `stop()` meets a running handler, under an
   abstract session (connected, ready, playing, paused, stopped) that both implement.
2. The socket wrappers: which of their failures each caller can tell apart.
