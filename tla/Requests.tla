------------------------------ MODULE Requests ------------------------------
(***************************************************************************)
(* Clients of the RTSP server: how a request is written, and what it       *)
(* means to the client that wrote it.  The other half of the pair is       *)
(* Routes, Sdp and FairPlay; nothing here uses how they read.              *)
(***************************************************************************)
EXTENDS Integers, Sequences, SequencesExt, FairPlay

R  == INSTANCE Routes
Pl == INSTANCE Plist
F  == INSTANCE AudioFormat
LOCAL H == INSTANCE Hashes

Digit == <<"0", "1", "2", "3", "4", "5", "6", "7", "8", "9">>
RECURSIVE Decimal(_)
Decimal(n) == IF n < 10 THEN <<Digit[n + 1]>>
              ELSE Append(Decimal(n \div 10), Digit[(n % 10) + 1])

-----------------------------------------------------------------------------
(* ANNOUNCE.  A description is its origin, its media in order and the key. *)

SdpLine(type, val) == <<type, "=">> \o val \o <<"CR", "LF">>

MediaText(m) ==
    SdpLine("m", <<m.kind, "SP">> \o m.ports \o <<"SP", "RTP/AVP", "SP">> \o Decimal(m.pt))
    \o SdpLine("a", <<"rtpmap", ":">> \o Decimal(m.pt) \o <<"SP", m.codec, "/">>
               \o Decimal(m.rate)
               \o (IF m.kind = "audio" THEN <<"/">> \o Decimal(m.channels) ELSE <<>>))
    \o SdpLine("a", <<"fmtp", ":">> \o Decimal(m.pt) \o <<"SP">> \o m.params)

KeyText(j) ==
    CASE j.keyIn = "none"   -> <<>>
      [] j.keyIn = "lines"  -> SdpLine("a", <<"aesiv", ":", "iv">>)
                               \o SdpLine("a", <<"aeskey", ":", "key">>)
      [] j.keyIn = "params" -> SdpLine("a", <<"es-parameters", ":", "x", ";", "aeskey", "=",
                                              "key", ";", "aesiv", "=", "iv">>)

SdpText(j) ==
    SdpLine("v", <<"0">>)
    \o SdpLine("o", <<"iTunes", "SP", "3413", "SP", "0", "SP", "IN", "SP", "IP4">>)
    \o SdpLine("c", <<"IN", "SP", "IP4", "SP", "addr">>)
    \o SdpLine("t", <<"0", "SP", "0">>)
    \o FlattenSeq([i \in DOMAIN j.media |-> MediaText(j.media[i])])
    \o KeyText(j)

Announced(j) ==
    LET has(k)  == \E i \in DOMAIN j.media : j.media[i].kind = k
        of(k)   == CHOOSE m \in ToSet(j.media) : m.kind = k
        fmtp(m) == Decimal(m.pt) \o <<"SP">> \o m.params
        common  == [R!NewInfo EXCEPT !.session_id = <<"3413">>, !.source_ip = <<"addr">>,
                       !.aes_key = IF j.keyIn = "none" THEN <<>> ELSE <<"key">>,
                       !.aes_iv = IF j.keyIn = "none" THEN <<>> ELSE <<"iv">>]
        a       == of("audio")
        v       == of("video")
        audio   == IF ~has("audio") THEN common
                   ELSE [common EXCEPT !.audio_pt = a.pt, !.audio_mode = <<a.codec>>,
                            !.sample_rate = a.rate, !.channels = a.channels,
                            !.fmtp = fmtp(a), !.server_port_min = a.low,
                            !.server_port_max = a.high]
    IN  IF ~has("video") THEN audio
        ELSE [audio EXCEPT !.has_video = TRUE, !.video_pt = v.pt, !.video_clock = v.rate,
                 !.video_codec = v.means, !.video_fmtp = fmtp(v),
                 !.video_width = v.width, !.video_height = v.height, !.video_fps = v.fps]

-----------------------------------------------------------------------------
(* SETUP.  The handler of the test grants every stream its ports.          *)

W(w) == R!Word(w)
StreamDict(s) ==
    Pl!MakeDict([k \in {W("type"), W("controlPort"), W("streamConnectionID"), W("ct"),
                        W("spf"), W("sr")} |->
        Pl!MakeInt(CASE k = W("type") -> s.type [] k = W("controlPort") -> s.control_port
                     [] k = W("streamConnectionID") -> s.stream_connection_id
                     [] k = W("ct") -> s.ct [] k = W("spf") -> s.spf [] k = W("sr") -> s.sr)])

SetupDict(q) ==
    Pl!MakeDict([k \in {W("eiv"), W("streams"), W("timingPort"), W("timingProtocol"),
                        W("isRemoteControlOnly")}
                       \cup (IF q.ekey = <<>> THEN {} ELSE {W("ekey")}) |->
        CASE k = W("ekey")    -> Pl!MakeData(q.ekey)
          [] k = W("eiv")     -> Pl!MakeData(q.eiv)
          [] k = W("streams") -> Pl!MakeArray([i \in DOMAIN q.streams |->
                                                  StreamDict(q.streams[i])])
          [] k = W("timingPort")     -> Pl!MakeInt(q.timing_port)
          [] k = W("timingProtocol") -> Pl!MakeString(q.timing_protocol)
          [] OTHER -> Pl!MakeBool(q.is_remote_control_only)])

Grant(q) ==
    [ok |-> TRUE, timing_port |-> q.timing_port + 1, event_port |-> 0,
     streams |-> [i \in DOMAIN q.streams |->
        [type |-> q.streams[i].type, data_port |-> 5000 + 2 * i,
         control_port |-> q.streams[i].control_port]]]

\* What the client reads in an answer.
IntIn(d, w) == Pl!AsInt(Pl!Get(d, W(w)))

StreamsIn(s) ==
    [i \in DOMAIN s |->
        [type |-> IntIn(s[i], "type"), data_port |-> IntIn(s[i], "dataPort"),
         control_port |-> IntIn(s[i], "controlPort")]]

GrantedIn(root) ==
    [ok |-> TRUE, timing_port |-> IntIn(root, "timingPort"),
     event_port |-> IntIn(root, "eventPort"),
     streams |-> StreamsIn(Pl!Get(root, W("streams")).array)]

Granted(body) == GrantedIn(Pl!ParseBinary(body).value)

-----------------------------------------------------------------------------
(* /info, as the client reads it. *)

DisplayOf(d) ==
    [width |-> IntIn(d, "widthPixels"), height |-> IntIn(d, "heightPixels"),
     rotation |-> Pl!Get(d, W("rotation")).bool]

DescribedIn(root) ==
    LET get(w) == Pl!Get(root, W(w))
    IN  [name |-> get("name").str, device_id |-> get("deviceID").str,
         mac |-> get("macAddress").str, pi |-> get("pi").str,
         model |-> get("model").str, manufacturer |-> get("manufacturer").str,
         features |-> get("features").int, serial |-> Pl!AsString(get("serialNumber")),
         pk |-> Pl!AsData(get("pk")), encrypted |-> Pl!AsBool(get("pw")),
         display |-> DisplayOf(get("displays").array[1]),
         inputs |-> [i \in 1..2 |-> IntIn(get("audioFormats").array[i], "audioInputFormats")],
         volume |-> get("initialVolume").real]

Described(doc) == DescribedIn(Pl!ParseXml(doc).value)

Device(dev) ==
    [name |-> dev.name, device_id |-> dev.device_id, mac |-> dev.device_id,
     pi |-> dev.device_id, model |-> dev.model, manufacturer |-> dev.manufacturer,
     features |-> dev.features, serial |-> dev.serial_number, pk |-> dev.pk,
     encrypted |-> dev.requires_encryption,
     display |-> [width |-> 1920, height |-> 1080, rotation |-> FALSE], inputs |-> <<67108860, 67108860>>, volume |-> 1]

\* The server fills the key into the device as base64.
WithKey(dev) == [dev EXCEPT !.public_key_b64 = Pl!Base64Encode(dev.pk)]

PlayDict(content, location, start, rate) ==
    LET number(n) == IF n.real THEN Pl!MakeReal(n.at) ELSE Pl!MakeInt(n.at)
    IN  Pl!MakeDict([k \in {W("Content-Location"), W("Location"), W("Start-Position"),
                            W("rate")} |->
            CASE k = W("Content-Location") -> Pl!MakeString(content)
              [] k = W("Location")         -> Pl!MakeString(location)
              [] k = W("Start-Position")   -> number(start)
              [] OTHER                     -> number(rate)])

-----------------------------------------------------------------------------
(* The format of the audio.  A client describes it by an ANNOUNCE or by a  *)
(* SETUP, and may do so again; what it sends then is decoded as the last   *)
(* description says, whatever was described before.                        *)

\* The ten numbers behind the payload type in the documented order, that of
\* ALACSpecificConfig without pb (docs/PROTOCOL.md:98, alac_decoder.cpp:25).
AlacParams(a) ==
    FlattenSeq([i \in 1..10 |->
        Append(Decimal(<<0, a.bit_depth, a.frame_length, a.mb, a.kb, a.num_channels,
                         a.max_run, a.max_frame_bytes, a.avg_bit_rate,
                         a.sample_rate>>[i]), "SP")])

\* Of that line two numbers are misread: the channels are taken for pb, and
\* the largest frame for the bit rate (alac_decoder.cpp:47-50).
Misread(a) == [a EXCEPT !.pb = a.num_channels, !.avg_bit_rate = a.max_frame_bytes,
                        !.max_frame_bytes = 0]

Configure(s, d) ==
    IF d.by = "announce"
    THEN F!ConfigureAudio(s, R!ParseSdp(SdpText([media |-> <<d.media>>, keyIn |-> "none"])))
    ELSE IF d.by = "flush" THEN F!FlushBuffers(s)
    ELSE F!OnSetupAp2(s, R!SetupRequest(SetupDict(d.asks)).streams)

\* A reader of MPEG-4 descriptors: what is inside one of the given tag that
\* reaches to the end, behind `skip' bytes of its own.
Inside(b, tag, skip) ==
    LET size == 128 * (b[4] - 128) + b[5]
    IN  IF b[1] = tag /\ b[2] = 128 /\ b[3] = 128 /\ size = Len(b) - 5
        THEN SubSeq(b, 6 + skip, Len(b)) ELSE <<>>

AscIn(cookie) == Inside(Inside(Inside(cookie, 3, 3), 4, 13), 5, 0)

Decoding(s, packet) ==
    LET decoder == F!OnRtpPacket(s, packet)
    IN  [decoder |-> decoder, rate |-> s.audio_cfg.sample_rate,
         channels |-> s.audio_cfg.channels, frame_bytes |-> s.bpf,
         \* of an unknown codec the format says nothing
         format |-> IF decoder = "raw" THEN "PCM16LE" ELSE s.audio_cfg.format,
         takes |-> CASE decoder = "alac" -> s.alac.config
                     [] decoder = "aac"  -> [asc |-> AscIn(s.aac.cookie), frame |-> s.aac.frame,
                                             rate |-> s.aac.sample_rate,
                                             channels |-> s.aac.channels]
                     [] OTHER -> <<>>]

\* To the client a FLUSH changes nothing about the format.
LastSaid(described) == Last(SelectSeq(described, LAMBDA d : d.by # "flush"))

Decoded(d, packet, apple) ==
    LET plays == CASE d.decoder = "alac" /\ packet = "info" -> "skipped"
                   [] d.decoder = "aac" /\ (~apple \/ packet = "marker" \/ d.asc = <<>>) ->
                         "skipped"
                   [] OTHER -> d.decoder
    IN  [decoder |-> plays, rate |-> d.rate, channels |-> d.channels,
         frame_bytes |-> 2 * d.channels,
         format |-> IF d.decoder = "aac" THEN "AAC_ELD" ELSE "PCM16LE",
         takes |-> CASE plays = "alac" ->
                          IF d.by = "announce" /\ d.media.params # <<>>
                          THEN Misread(d.alac) ELSE d.alac
                     [] plays = "aac"  -> [asc |-> d.asc, frame |-> 480, rate |-> d.rate,
                                           channels |-> d.channels]
                     [] OTHER -> <<>>]

-----------------------------------------------------------------------------
(* One request of each form: what the server makes of it, and what the     *)
(* client meant.                                                           *)

Hello(mode) == <<70, 80, 76, 89, 3, 1, 1, 0, 0, 0, 0, 4, 2, 0, mode, 187>>
KeyMessage  == [i \in 1..164 |-> IF i = 5 THEN 3 ELSE IF i = 7 THEN 3 ELSE i]

Replied(body) == R!SetupAp2(body, Grant(R!SetupRequest(Pl!ParseBinary(body).value)))

Answered(j) ==
    CASE j.form = "announce" -> R!ParseSdp(SdpText(j))
      [] j.form = "route"    -> R!Called(IF j.starts = 1 THEN R!kRoutes
                                         ELSE R!InstallRoutes(R!kRoutes), j.request)
      [] j.form = "setup"    -> R!SetupRequest(
                                   Pl!ParseBinary(Pl!SerializeBinary(SetupDict(j.asks))).value)
      [] j.form = "grant"    ->
            Granted(Replied(Pl!SerializeBinary(SetupDict(j.asks))))
      [] j.form = "info"     -> Described(R!BuildInfoPlist(WithKey(j.device)))
      [] j.form = "play"     -> R!PlayCommand(j.dict)
      [] j.form = "format"   -> Decoding(FoldLeft(Configure, F!NewAudio(j.apple), j.described),
                                         j.packet)
      [] j.form = "hello"    -> R!HandleFairplaySetup(Hello(j.mode))
      [] j.form = "keymsg"   -> R!HandleFairplaySetup(KeyMessage)

Meant(j) ==
    CASE j.form = "announce" -> Announced(j)
      [] j.form = "route"    -> j.means
      [] j.form = "setup"    -> j.asks
      [] j.form = "grant"    -> Grant(j.asks)
      [] j.form = "info"     -> Device(j.device)
      [] j.form = "play"     -> j.means
      [] j.form = "format"   -> Decoded(LastSaid(j.described), j.packet, j.apple)
      [] j.form = "hello"    -> <<70, 80, 76, 89, 3, 1, 2, 0, 0, 0, 0, 130, 2, j.mode>>
                                \o [i \in 1..128 |-> 0]
      [] j.form = "keymsg"   -> <<70, 80, 76, 89, 3, 1, 4, 0, 0, 0, 0, 20>>
                                \o [i \in 1..20 |-> 144 + i]

-----------------------------------------------------------------------------
(* A client of FairPlaySap: its key pair, what it learnt from the server,  *)
(* and what it has shown of itself in the last message that was taken: the *)
(* PIN, another one, no tag at all, or a signature that is none.           *)

NewClient(sk) == [sk |-> sk, theirs |-> <<>>, salt |-> <<>>, iters |-> <<>>,
                  tag |-> <<>>, shown |-> "nothing"]

SapMessages == {"M1", "M3", "M5", "V1", "V3"}

Proof(c, pin) ==
    SubSeq(H!Pbkdf2(pin, c.salt, IF Len(c.iters) = 4 THEN c.iters[4] ELSE 1, 32), 1, 16)

Tag(c, shows, pin) ==
    CASE shows = "pin" -> Proof(c, pin)
      [] shows = "another" -> Proof(c, <<0>>)
      [] shows = "no tag" -> <<>>

SapMessage(c, m, tag) ==
    TlvEncode(
        CASE m = "M1" -> <<Item(0, <<1>>), Item(TlvState, <<1>>)>>
          [] m = "M3" -> <<Item(TlvState, <<3>>), Item(TlvPublicKey, PublicKey(c.sk))>>
          [] m = "M5" -> <<Item(TlvState, <<5>>), Item(TlvSalt, c.salt),
                           Item(TlvIterations, c.iters), Item(TlvAuthTag, tag)>>
          [] m = "V1" -> <<Item(TlvState, <<1>>)>>
          [] m = "V3" -> <<Item(TlvState, <<3>>), Item(TlvSignature, <<9>>)>>)

SapAnswer(f, m, body) ==
    IF m \in {"V1", "V3"} THEN HandlePairVerify(f, body, <<7, 7>>, <<8, 8>>)
    ELSE HandlePairSetup(f, body, <<5, 6>>)

\* The client reads the answer to m, an M5 with the tag for what it shows.
Heard(c, m, r, shows) ==
    LET in  == TlvDecode(r.out).items
        tag == Value(in, TlvAuthTag)
    IN  CASE r.rc # 0 -> [c EXCEPT !.tag = <<>>, !.shown = "nothing"]
          [] m = "M1" -> [c EXCEPT !.theirs = Value(in, TlvPublicKey), !.tag = <<>>,
                                   !.shown = "nothing"]
          [] m = "M3" -> [c EXCEPT !.salt = Value(in, TlvSalt), !.tag = tag,
                                   !.iters = Value(in, TlvIterations),
                                   !.shown = "nothing"]
          [] m = "M5" -> [c EXCEPT !.tag = tag, !.shown = shows]
          [] m = "V3" -> [c EXCEPT !.shown = "signature"]
          [] OTHER    -> c

\* The tag the client expects with the last message, OK or, with a PIN, P.
Expected(c, pin) ==
    LET key == H!HkdfDerive(X25519(c.sk, c.theirs), <<>>, <<69>>, KeySize)
    IN  SubSeq(H!Hmac(key, IF pin = <<>> THEN <<79, 75>> ELSE <<80>>), 1, 16)
=============================================================================
