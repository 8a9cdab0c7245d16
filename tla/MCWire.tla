------------------------------- MODULE MCWire -------------------------------
(* Instances of Wire for TLC: what is sent.                                *)
EXTENDS Wire

Bytes128 == [i \in 1..300 |-> (37 * i + 11) % 256]
Data(n)  == SubSeq(Bytes128, 1, n)
Key      == <<43, 126, 21, 22, 40, 174, 210, 166, 171, 247, 21, 136, 9, 207, 79, 60>>
Iv       == <<9, 8, 7, 6, 5, 4, 3, 2, 1, 0, 1, 2, 3, 4, 254, 255>>

\* Requests: no body, a body that holds a line end, one in chunks.
Line(name, value) == [name |-> name, value |-> value]
CSeqLine == Line(<<"CSeq">>, <<"4">>)
Options == [method |-> <<"OPTIONS">>, uri |-> <<"*">>, protocol |-> <<"RTSP">>,
            headers |-> <<CSeqLine>>, body |-> <<>>, chunks |-> <<>>]
Setup   == [Options EXCEPT !.method = <<"SE", "TUP">>, !.uri = <<"/", "s">>,
                !.headers = <<Line(<<"Content-Length">>, <<"1", "2">>), CSeqLine>>,
                !.body = <<"b", "CR", "LF", "c", ":", "SP", "CR", "LF",
                           "CR", "LF", "LF", "e">>]
Chunked == [Options EXCEPT !.method = <<"POST">>,
                !.headers = <<CSeqLine, Line(<<"Transfer-Encoding">>, <<"chunked">>)>>,
                !.body = <<"x", "CR", "LF", "y", "z", "z", "z", "z", "z", "z", "z", "z", "z">>,
                !.chunks = <<[size |-> <<"3">>, data |-> <<"x", "CR", "LF">>],
                             [size |-> <<"A", ";", "q">>,
                              data |-> <<"y", "z", "z", "z", "z", "z", "z", "z", "z", "z">>],
                             [size |-> <<"0">>, data |-> <<>>]>>]
HttpJobs == {[kind |-> "http", requests |-> r] :
                r \in {<<Options, Setup, Options>>, <<Chunked, Setup>>}}

\* A screen: parameter sets, a key frame of two NAL units, an empty packet,
\* a frame more, and a report.
Frame(t, t2, nals, ntp, key) ==
    [type |-> t, type2 |-> t2, nals |-> nals, ntp |-> ntp, key |-> key]
H264 == <<Frame(1, 0, <<<<103, 1>>, <<104, 2, 3>>>>, 0, FALSE),
          Frame(0, 16, <<<<101, 7, 7>>, <<65, 8>>>>, 1000000, TRUE),
          Frame(2, 0, <<>>, 0, FALSE),
          Frame(0, 0, <<<<65, 1, 2, 3, 4, 5>>>>, 1000000 + 16683350, FALSE),
          Frame(5, 0, <<>>, 0, FALSE),
          Frame(0, 0, <<<<37, 6>>>>, 1000000 + 33366700, TRUE)>>
H265 == <<Frame(0, 0, <<<<2, 1, 7>>>>, 5000, FALSE),
          Frame(0, 0, <<<<38, 1, 9>>, <<2, 1>>>>, 9000, TRUE)>>
PushJobs == {[kind |-> "push", codec |-> c, key |-> Key, iv |-> Iv,
              frames |-> IF c = "H264" THEN H264 ELSE H265] : c \in {"H264", "H265"}}

AudioJob(mode, lossy) ==
    [kind |-> "audio", mode |-> mode, lossy |-> lossy, key |-> Key, iv |-> Iv,
     packets |-> <<Data(20), Data(7), Data(37), Data(16)>>, deliveries |-> 4]
AudioJobs == {AudioJob("CBC", TRUE), AudioJob("CTR", FALSE)}

Sr(n) == [type |-> 200, count |-> 0,
          words |-> <<<<n, 10 + n>>, <<n, 20 + n>>, <<30 + n, n>>, <<n, n>>, <<0, 1>>, <<0, 2>>>>]
Sdes == [type |-> 202, count |-> 1, words |-> <<<<7, 7>>>>]
Entire(ps) == [parts |-> ps, len |-> Len(Compound(ps))]
ControlJobs ==
    {[kind |-> "control", deliveries |-> 3, until |-> 12, held |-> h, next |-> 700,
      lost |-> l, expect |-> [newest |-> IF h = {} THEN 699 ELSE 705, lost |-> l],
      datagrams |-> {Entire(<<Sr(1), Sdes>>), Entire(<<Sdes, Sr(4), Sr(2)>>),
                     [parts |-> <<Sr(3), Sr(9)>>, len |-> 20]}]
        : h \in {{}, {702, 705}}, l \in {0, 3}}

RtpOf(seq, ts, csrcs, ext, payload) ==
    [marker |-> seq = 65535, pt |-> 96, seq |-> seq, ts |-> ts, ssrc |-> <<5, 6>>,
     csrcs |-> csrcs, ext |-> ext, payload |-> payload]
RtpJobs == {[kind |-> "rtp", packet |-> RtpOf(65535, <<1, 2>>, c, e, p)] :
              c \in {<<>>, <<<<1, 1>>, <<2, 2>>>>},
              e \in {<<>>, <<<<3, 3>>>>, <<<<3, 3>>, <<4, 4>>, <<5, 5>>>>},
              p \in {<<>>, <<258>>, <<258, 772, 1286>>}}

\* Sixty frames a second over the wrap of the clock, six of them.
ScreenTicks == <<0, 1500, 3000, 4500, 90000, 91500>>
ScreenJobs == {[kind |-> "screen", ticks |-> ScreenTicks,
    packets |-> [i \in 1..6 |->
        LET low == 64036 + ScreenTicks[i]
        IN  RtpOf(65533 + i, <<(65535 + (low \div 65536)) % 65536, low % 65536>>,
                  <<>>, <<>>, <<i, 300 + i>>)]]}

TimingJobs == {[kind |-> "timing", times |-> t,
                request |-> SubSeq(<<32768 + 83, 4, 1, 1, 77, 78, 2, 2, 3, 3>>, 1, n)] :
    n \in {8, 10},
    t \in {<<[sec |-> 100, us |-> 999999], [sec |-> 101, us |-> 3]>>,
           <<[sec |-> 33151, us |-> 250000], [sec |-> 33152, us |-> 750000]>>,
           <<[sec |-> 5, us |-> 7], [sec |-> 5, us |-> 907]>>}}

Simple == <<Pl!MakeBool(TRUE), Pl!MakeInt(0), Pl!MakeInt(127), Pl!MakeInt(128),
            Pl!MakeInt(255), Pl!MakeInt(40000), Pl!MakeInt(2147483647),
            Pl!MakeInt(-1), Pl!MakeInt(-2000), Pl!MakeReal(-5),
            Pl!MakeString(<<>>), Pl!MakeString(<<60, 38, 108, 116, 59>>),
            Pl!MakeString(Data(14)), Pl!MakeString([i \in 1..15 |-> 66]),
            Pl!MakeData(Data(3)), Pl!MakeData(Data(299)), Pl!MakeData(Data(16)),
            Pl!MakeDate(1000000000), Pl!MakeString(<<38, 97, 112, 111, 115, 59>>),
            Pl!MakeArray(<<>>), Pl!MakeDict(Pl!NoEntries)>>
Nested(a, b) == Pl!MakeDict((<<65>> :> a) @@ (<<65, 66>> :> Pl!MakeArray(<<b, a>>))
                            @@ (<<>> :> Pl!MakeBool(FALSE)))
Trees == ToSet(Simple)
         \cup {Pl!MakeArray(Simple), Pl!MakeArray([i \in 1..15 |-> Pl!MakeInt(i)]),
               \* more than 255 objects
               Pl!MakeArray([i \in 1..16 |-> Pl!MakeArray([j \in 1..16 |-> Pl!MakeInt(i + j)])])}
         \cup {Nested(a, b) : a \in ToSet(Simple), b \in {Simple[2], Simple[12], Simple[16]}}
ValueJobs ==
    {[kind |-> "value", format |-> f, tree |-> v] : f \in {"binary", "xml"}, v \in Trees}
    \cup {[kind |-> "value", format |-> "base64", value |-> Data(n)] :
             n \in 0..11}
    \cup {[kind |-> "value", format |-> "hex", value |-> <<0, 255, 26>>, text |-> t] :
             t \in {<<"0", "0", "f", "f", "1", "a">>,
                    <<"0", "0", ":", "f", "f", " ", "1", "a">>,
                    <<" ", "0", ":", "0", "f", "f", "1", " ", "a", ":">>}}
    \cup {[kind |-> "value", format |-> "padded", key |-> Key, iv |-> Iv,
           value |-> Data(n)] : n \in {0, 1, 15, 16, 17, 33}}
    \cup {[kind |-> "value", format |-> "response", cseq |-> c,
           value |-> [i \in 1..n |-> IF i % 2 = 1 THEN "CR" ELSE "LF"]] :
             c \in {0, 7, 42}, n \in {0, 1, 4, 12}}

DigestJobs == {[kind |-> "digest", message |-> Data(272), pieces |-> {1, 15, 97, 128}]}
KeyJobs    == {[kind |-> "keys", a |-> a, b |-> b, base |-> 9,
                message |-> a + b, other |-> a + 2 * b + 1] :
                  a \in {3, 17, 30, 45}, b \in {8, 21, 63}}
Operands   == {<<0, 0, 0>>, <<1, 0, 0>>, <<31, 31, 31>>, <<12, 31, 15>>,
               <<13, 31, 15>>, <<14, 31, 15>>, <<5, 17, 30>>}
FieldJobs  == {[kind |-> "field", a |-> a, b |-> b] : a \in Operands, b \in Operands}

\* Descriptions: the audio of iTunes, with a screen before or behind it.
Audio(codec, low, high, ports) ==
    [kind |-> "audio", ports |-> ports, low |-> low, high |-> high, pt |-> 96,
     codec |-> codec, rate |-> 48000, channels |-> 1, params |-> <<"352", "SP", "16">>]
Video(codec, means, params, w, h, fps) ==
    [kind |-> "video", ports |-> <<"0">>, pt |-> 98, codec |-> codec, means |-> means,
     rate |-> 90001, params |-> params, width |-> w, height |-> h, fps |-> fps]
OneAudio == Audio("AppleLossless", 49, 49, <<"4", "9">>)
TwoPorts == Audio("mpeg4-generic", 60, 61, <<"6", "0", "-", "6", "1">>)
Sized    == Video("HEVC", "H265_HEVC",
                  <<"profile", ";", "SP", "framesize", ":", "9", "8", "SP", "1", "9", "2",
                    "0", "-", "1", "0", "8", "0", ";", "x-framerate", ":", "3", "0">>,
                  1920, 1080, 30)
Plain264 == Video("H264", "H264_AVC", <<"profile-level-id", "=", "42e01f">>, 0, 0, 0)
SdpJobs  == {[kind |-> "request", form |-> "announce", media |-> m, keyIn |-> k] :
               m \in {<<OneAudio>>, <<TwoPorts, Sized>>, <<Plain264, OneAudio>>, <<Sized>>},
               k \in {"none", "lines", "params"}}

\* Requests and the handlers that the header names for them.
Req(m, uri, headers) ==
    [method |-> m, uri |-> uri, protocol |-> <<"RTSP">>, body |-> <<>>, headers |-> headers]
NoHeader == [h \in {} |-> <<>>]
With(name, value) == [h \in {<<name>>} |-> value]
Routed(m, uri, headers, handler, arg) ==
    {[kind |-> "request", form |-> "route", starts |-> n, request |-> Req(m, uri, headers),
      means |-> [handler |-> handler, arg |-> arg]] : n \in {1, 2}}
Url == <<"rtsp:", "/", "/", "host", "/", "7">>
RouteJobs ==
    UNION {Routed("GET", <<"/info">>, NoHeader, "on_info", <<>>),
           Routed("post", <<"/pair-setup">>, NoHeader, "on_pair_setup", <<>>),
           Routed("POST", <<"/pair-verify">>, NoHeader, "on_pair_verify", <<>>),
           Routed("POST", <<"/fp-setup">>, NoHeader, "on_fairplay_setup", <<>>),
           Routed("ANNOUNCE", Url, NoHeader, "on_announce", <<>>),
           Routed("Setup", Url,
                  With("Transport", <<"RTP/AVP/UDP", ";", "client_port", "=", "6", "0",
                                      "0", "2", "-", "6", "0", "0", "3", ";", "unicast">>),
                  "on_setup", <<6002, 6003>>),
           Routed("SETUP", Url, NoHeader, "on_setup", <<0, 0>>),
           Routed("RECORD", Url, NoHeader, "on_record", <<>>),
           Routed("FLUSH", Url, NoHeader, "on_teardown flush", <<>>),
           Routed("TEARDOWN", Url, NoHeader, "on_teardown", <<>>),
           Routed("OPTIONS", <<"*">>, NoHeader, "public", <<>>),
           Routed("PUT", <<"/rate", "?", "value">>, With("x-apple-rate", <<"0">>), "on_rate", 0),
           Routed("PUT", <<"/rate">>, With("Rate", <<"2">>), "on_rate", 2),
           Routed("PUT", <<"/rate">>, With("Rate", <<"fast">>), "on_rate", 1),
           Routed("POST", <<"/play">>, NoHeader, "on_play_url", <<>>),
           Routed("POST", <<"/scrub">>, With("position", <<"1", "7">>), "on_scrub", 17),
           Routed("GET", <<"/scrub">>, NoHeader, "on_get_scrub_pos", <<>>),
           Routed("PUT", <<"/metadata">>, NoHeader, "on_metadata", <<>>),
           Routed("GET", <<"/getProperty">>, With("if", <<"volume">>), "on_get_property",
                  <<"volume">>),
           Routed("PUT", <<"/photo">>, NoHeader, "on_photo_upload", <<>>),
           Routed("POST", <<"/command">>, NoHeader, "on_unknown", <<>>)}

Stream(type, port, id) ==
    [type |-> type, control_port |-> port, stream_connection_id |-> id,
     ct |-> IF type = 96 THEN 8 ELSE 0, spf |-> IF type = 96 THEN 480 ELSE 0, sr |-> 44100]
Asks(ekey, streams, port) ==
    [ekey |-> ekey, eiv |-> Data(16), streams |-> streams, timing_port |-> port,
     timing_protocol |-> <<78, 84, 80>>, is_remote_control_only |-> port = 0]
SetupJobs ==
    {[kind |-> "request", form |-> f, asks |-> a] :
       f \in {"setup", "grant"},
       a \in {Asks(Data(72), <<>>, 7010), Asks(<<>>, <<Stream(96, 6001, 0)>>, 0),
              Asks(<<>>, <<Stream(110, 0, 1234567), Stream(96, 65535, 0)>>, 300)}}

Dev(serial, pk) ==
    [name |-> <<34, 84, 38, 86, 60, 62>>, device_id |-> <<97, 58, 98>>, model |-> <<77>>,
     manufacturer |-> <<>>, features |-> 1518337015, serial_number |-> serial, pk |-> pk,
     requires_encryption |-> pk = <<>>, public_key_b64 |-> <<>>]
InfoJobs == {[kind |-> "request", form |-> "info", device |-> d] :
               d \in {Dev(<<>>, Data(32)), Dev(<<83, 49>>, <<>>)}}
PlayJobs ==
    {[kind |-> "request", form |-> "play", dict |-> Rq!PlayDict(c, l, p, r),
      means |-> [content_url |-> IF c = <<>> THEN l ELSE c, start_pos_sec |-> p.at,
                 rate |-> IF r.real THEN r.at ELSE 1]] :
        c \in {<<>>, <<104>>}, l \in {<<105>>},
        p \in {[real |-> FALSE, at |-> 4], [real |-> TRUE, at |-> 5]},
        r \in {[real |-> FALSE, at |-> 3], [real |-> TRUE, at |-> 2]}}
HelloJobs == {[kind |-> "request", form |-> "hello", mode |-> m] : m \in 0..3}
             \cup {[kind |-> "request", form |-> "keymsg"]}

\* Audio of every kind, described twice at most.
Announced(codec, rate, channels, params, decoder) ==
    [by |-> "announce", decoder |-> decoder, rate |-> rate, channels |-> channels,
     media |-> [OneAudio EXCEPT !.codec = codec, !.rate = rate, !.channels = channels,
                                !.params = params],
     alac |-> <<>>, asc |-> <<>>]
Alac(rate, channels) ==
    [frame_length |-> 4096, compatible_version |-> 0, bit_depth |-> 16, pb |-> 40,
     mb |-> 10, kb |-> 14, num_channels |-> channels, max_run |-> 255,
     max_frame_bytes |-> 0, avg_bit_rate |-> 0, sample_rate |-> rate]
AlacIn(rate, channels, alac) ==
    [Announced("AppleLossless", rate, channels, Rq!AlacParams(alac), "alac")
        EXCEPT !.alac = alac]
AacConfig == <<"mode", "=", "AAC-eld", ";", "SP", "config", "=", "f", "8", "0", "1",
               ";", "SP", "indexlength", "=", "3">>
Ap2(ct, spf, sr, decoder) ==
    [by |-> "setup", decoder |-> decoder, rate |-> IF sr = 0 THEN 44100 ELSE sr,
     channels |-> 2,
     asks |-> Asks(<<>>, <<Stream(110, 0, 7),
                           [Stream(96, 6001, 0) EXCEPT !.ct = ct, !.spf = spf, !.sr = sr]>>, 0),
     alac |-> [Alac(IF sr = 0 THEN 44100 ELSE sr, 2)
                  EXCEPT !.frame_length = IF spf = 0 THEN 4096 ELSE spf],
     asc |-> <<248, 232, 80, 0>>]
Formats ==
    {AlacIn(44100, 2, [Alac(44100, 2) EXCEPT !.frame_length = 352, !.mb = 9, !.kb = 13,
                          !.max_run = 300, !.max_frame_bytes = 1416, !.avg_bit_rate = 131072]),
     AlacIn(96000, 1, Alac(96000, 1)),
     [Announced("alac", 48000, 2, <<>>, "alac") EXCEPT !.alac = Alac(48000, 2)],
     [Announced("mpeg4-generic", 48000, 1, AacConfig, "aac") EXCEPT !.asc = <<248, 1>>],
     Announced("AAC", 44100, 2, <<"mode", "=", "AAC-eld">>, "aac"),
     Announced("L16", 44100, 1, <<>>, "swapped"),
     Announced("opus", 48000, 2, <<>>, "raw"),
     Ap2(2, 352, 44100, "alac"), Ap2(2, 0, 0, "alac"), Ap2(8, 480, 48000, "aac")}
Flush == [by |-> "flush"]
FormatJobs ==
    {[kind |-> "request", form |-> "format", described |-> d, packet |-> p, apple |-> a] :
        d \in {<<f>> : f \in Formats} \cup {<<f, g>> : f, g \in Formats}
              \cup {<<f, Flush>> : f \in {g \in Formats : g.decoder # "aac"}}
              \cup {<<f, Flush, g>> : f, g \in {g \in Formats : g.decoder = "aac"}},
        p \in {"audio", "info", "marker"}, a \in BOOLEAN}

\* A FLUSH behind a description of any kind, what it says of AAC included.
FlushJobs ==
    {[kind |-> "request", form |-> "format", described |-> <<f, Flush>>, packet |-> p,
      apple |-> a] : f \in Formats, p \in {"audio", "info", "marker"}, a \in BOOLEAN}
RequestJobs == UNION {FormatJobs, SdpJobs, RouteJobs, SetupJobs, InfoJobs, PlayJobs, HelloJobs}
SapJobs == {[kind |-> "sap", pin |-> p, steps |-> 5] : p \in {<<>>, <<49, 50>>}}

\* Devices and questions.
Speaker(model, video) ==
    [name |-> <<76, 32, 82>>, device_id |-> <<65, 58, 66, 58, 49>>, model |-> model,
     features |-> 1518337766, port |-> 7000, supports_video |-> video,
     requires_encryption |-> video, public_key_b64 |-> Data(44)]
DeviceJobs == {[kind |-> "device", ip |-> <<192, 168, 1, 7>>, device |-> Speaker(m, v)] :
                 m \in {<<>>, Data(200)}, v \in BOOLEAN}
Room == <<<<76>>, <<97>>, <<116>>, <<108>>>>        \* L._airplay._tcp.local
Ask4 == <<<<<<65>>, <<84>>, <<76>>>>, <<<<103>>, <<108>>>>, <<<<120, 121>>, <<116>>, <<108>>>>,
          <<<<114>>, <<116>>, <<108>>>>>>
QueryJobs ==
    {[kind |-> "query", flags |-> f, pointers |-> FALSE, names |-> n] :
       f \in {0, 1, 132},
       n \in {<<q>> : q \in ToSet(Ask4)} \cup {<<Ask4[3], Ask4[2]>>, <<Ask4[3], Ask4[3]>>}}
    \cup {[kind |-> "query", flags |-> 0, pointers |-> TRUE, names |-> n] :
             n \in {<<Ask4[3], Room>>, <<Ask4[3], Ask4[3], Ask4[4]>>, <<Ask4[3], Ask4[3]>>}}
    \cup {[kind |-> "query", flags |-> 1, names |-> <<>>, type |-> t] :
             t \in {D!Airplay, D!Raop}}

WireJobs == UNION {DeviceJobs, QueryJobs, RequestJobs, SapJobs, HttpJobs, PushJobs, AudioJobs, ControlJobs, RtpJobs, ScreenJobs,
                   TimingJobs, ValueJobs, DigestJobs, KeyJobs, FieldJobs}
=============================================================================
