--------------------------------- MODULE Sdp ---------------------------------
(***************************************************************************)
(* parse_sdp of net/rtsp_server.cpp: what an ANNOUNCE tells the receiver.  *)
(*                                                                         *)
(* Text is a sequence of tokens: "SP", "CR", "LF", the separators the code *)
(* looks for, the digits of a number one by one, and words as a whole.     *)
(***************************************************************************)
EXTENDS Integers, Sequences, SequencesExt

LOCAL Text == INSTANCE HttpParser

\* SdpInfo and its defaults.
NewInfo ==
    [session_id |-> <<>>, audio_pt |-> 96, server_port_min |-> 0,
     server_port_max |-> 0, fmtp |-> <<>>, audio_mode |-> <<>>,
     sample_rate |-> 44100, channels |-> 2, rtp_time_base |-> 0,
     aes_key |-> <<>>, aes_iv |-> <<>>, source_ip |-> <<>>,
     has_video |-> FALSE, video_pt |-> 97, video_clock |-> 90000,
     video_codec |-> "H264_AVC", video_fmtp |-> <<>>,
     video_width |-> 0, video_height |-> 0, video_fps |-> 0]

\* find(): the first place of a token from a place on, 0 for npos; rfind().
Find(s, token, from) ==
    LET at == {i \in from..Len(s) : s[i] = token}
    IN  IF at = {} THEN 0 ELSE Min(at)
FindLast(s, token) ==
    LET at == {i \in DOMAIN s : s[i] = token}
    IN  IF at = {} THEN 0 ELSE Max(at)

After(s, i) == SubSeq(s, i + 1, Len(s))

\* What is between place i and the next such token, or the end.
Field(s, i, token) ==
    LET e == Find(s, token, i + 1)
    IN  SubSeq(s, i + 1, IF e = 0 THEN Len(s) ELSE e - 1)

\* stoi: leading blanks do not count; without a number it throws, and what
\* was to be set keeps its old value, the second of a pair too.
IsNumber(s) == LET t == Text!Trim(s) IN t # <<>> /\ Text!IsDigit(Head(t), 10)

Stoi(s, old) == IF IsNumber(s) THEN Text!LeadingNumber(Text!Trim(s)) ELSE old

PairOf(s, dash, old) ==
    LET low == SubSeq(s, 1, dash - 1)
    IN  IF IsNumber(low) THEN <<Stoi(low, 0), Stoi(After(s, dash), old[2])>> ELSE old

\* The parts between separators, each without the blanks at its end.
Parts(s, sep) ==
    LET cuts == SelectSeq([i \in 1..(Len(s) + 1) |-> i],
                          LAMBDA i : i = Len(s) + 1 \/ s[i] = sep)
    IN  [k \in DOMAIN cuts |->
            SubSeq(s, IF k = 1 THEN 1 ELSE cuts[k - 1] + 1, cuts[k] - 1)]

WithoutEnd(s, blanks) ==
    LET solid == {i \in DOMAIN s : s[i] \notin blanks}
    IN  IF solid = {} THEN <<>> ELSE SubSeq(s, 1, Max(solid))

Filled(parts) == SelectSeq(parts, LAMBDA p : p # <<>>)

SplitLines(s) ==
    LET p == Parts(s, "LF")
    IN  Filled([k \in DOMAIN p |-> WithoutEnd(p[k], {"CR"})])

SplitLinesAnd(s, sep) ==
    LET p == Parts(s, sep)
    IN  Filled([k \in DOMAIN p |-> Text!Trim(p[k])])

-----------------------------------------------------------------------------
(* One operator for each type of line.  st is the info so far and the      *)
(* media section the lines belong to.                                      *)

Origin(st, val) ==
    LET p == Find(val, "SP", 1)
    IN  IF p = 0 THEN st ELSE [st EXCEPT !.info.session_id = Field(val, p, "SP")]

\* The payload type is the last word, if it is not the port.
AudioLine(st, val) ==
    LET p     == Find(val, "SP", 1)
        p2    == Find(val, "SP", p + 1)
        ports == Field(val, p, "SP")
        dash  == Find(ports, "-", 1)
        i     == st.info
        old   == <<i.server_port_min, i.server_port_max>>
        range == IF dash # 0 THEN PairOf(ports, dash, old)
                 ELSE <<Stoi(ports, old[1]), Stoi(ports, old[2])>>
        last  == FindLast(val, "SP")
    IN  IF p = 0 THEN [st EXCEPT !.media = "audio"]
        ELSE [info  |-> [i EXCEPT !.server_port_min = range[1], !.server_port_max = range[2],
                            !.audio_pt = IF p2 # 0 /\ last > p2
                                         THEN Stoi(After(val, last), @) ELSE @],
              media |-> "audio"]

VideoLine(st, val) ==
    LET last == FindLast(val, "SP")
    IN  [info  |-> [st.info EXCEPT !.has_video = TRUE,
                        !.video_pt = IF last = 0 THEN @ ELSE Stoi(After(val, last), @)],
         media |-> "video"]

Media(st, val) ==
    CASE val # <<>> /\ val[1] = "audio" -> AudioLine(st, val)
      [] val # <<>> /\ val[1] = "video" -> VideoLine(st, val)
      [] OTHER -> [st EXCEPT !.media = ""]

\* The name of a codec, in any case.
CodecOf(name) ==
    LET has(words) == \E i \in DOMAIN name : name[i] \in words
    IN  CASE has({"h265", "H265", "hevc", "HEVC"}) -> "H265_HEVC"
          [] has({"jpeg", "JPEG"})                 -> "MJPEG"
          [] OTHER                                 -> "H264_AVC"

\* Variant: the codec of every section is taken for the audio's.
RtpMapAudioOnly(st, vv) ==
    LET def   == After(vv, Find(vv, "SP", 1))
        slash == Find(def, "/", 1)
    IN  IF slash = 0 THEN st
        ELSE [st EXCEPT !.info.audio_mode = SubSeq(def, 1, slash - 1),
                        !.info.sample_rate = Stoi(Field(def, slash, "/"), @)]

\* a=rtpmap:97 H264/90000 belongs to the section it stands in.
RtpMap(st, vv) ==
    LET sp    == Find(vv, "SP", 1)
        def   == After(vv, sp)
        slash == Find(def, "/", 1)
        s2    == Find(def, "/", slash + 1)
        name  == SubSeq(def, 1, slash - 1)
        rate  == Field(def, slash, "/")
    IN  CASE sp = 0 \/ slash = 0 -> st
          [] st.media = "video"  ->
                [st EXCEPT !.info.video_codec = CodecOf(name),
                           !.info.video_clock = Stoi(rate, @)]
          [] OTHER ->
                [st EXCEPT !.info.audio_mode = name,
                           !.info.sample_rate = Stoi(rate, @),
                           !.info.channels = IF s2 = 0 THEN @ ELSE Stoi(After(def, s2), @)]

\* One parameter of the video: framesize:97 1920-1080, x-framerate:30.  As
\* the first parameter, behind the payload type and its blank, the size is
\* not found.
VideoParameter(info, kv) ==
    LET dim  == After(kv, Find(kv, "SP", 1))
        dash == Find(dim, "-", 1)
        size == PairOf(dim, dash, <<info.video_width, info.video_height>>)
    IN  CASE Find(kv, "framesize", 1) # 0 ->
                IF Find(kv, "SP", 1) = 0 \/ dash = 0 THEN info
                ELSE [info EXCEPT !.video_width = size[1], !.video_height = size[2]]
          [] Find(kv, "x-framerate", 1) # 0 ->
                [info EXCEPT !.video_fps = Stoi(After(kv, Find(kv, ":", 1)), @)]
          [] OTHER -> info

Fmtp(st, vv) ==
    IF st.media = "video"
    THEN [st EXCEPT !.info = FoldLeft(VideoParameter, [@ EXCEPT !.video_fmtp = vv],
                                      SplitLinesAnd(vv, ";"))]
    ELSE [st EXCEPT !.info.fmtp = vv]

\* name=value; inside other parameters, for what has no line of its own.
Named(vv, name, old) ==
    LET p == Find(vv, name, 1)
    IN  IF old # <<>> \/ p = 0 \/ p = Len(vv) THEN old ELSE Field(vv, p + 1, ";")

Attribute(st, val) ==
    LET c   == Find(val, ":", 1)
        key == IF c = 0 THEN val ELSE SubSeq(val, 1, c - 1)
        vv  == IF c = 0 THEN <<>> ELSE After(val, c)
    IN  CASE key = <<"rtpmap">> -> RtpMap(st, vv)
          [] key = <<"fmtp">>   -> Fmtp(st, vv)
          [] key \in {<<"ts-clk">>, <<"ts-refclk">>} ->
                [st EXCEPT !.info.rtp_time_base = Stoi(vv, @)]
          [] key = <<"aeskey">> -> [st EXCEPT !.info.aes_key = vv]
          [] key = <<"aesiv">>  -> [st EXCEPT !.info.aes_iv = vv]
          [] key \in {<<"es-charset">>, <<"es-parameters">>} ->
                [st EXCEPT !.info.aes_key = Named(vv, "aeskey", @),
                           !.info.aes_iv = Named(vv, "aesiv", @)]
          [] OTHER -> st

Source(st, val) ==
    IF IsPrefix(<<"IN", "SP", "IP4", "SP">>, val)
    THEN [st EXCEPT !.info.source_ip = SubSeq(val, 5, Len(val))]
    ELSE st

SdpLine(st, line) ==
    LET val == SubSeq(line, 3, Len(line))
    IN  IF Len(line) < 2 THEN st
        ELSE IF line[2] # "=" THEN st
        ELSE CASE line[1] = "o" -> Origin(st, val)
               [] line[1] = "m" -> Media(st, val)
               [] line[1] = "a" -> Attribute(st, val)
               [] line[1] = "c" -> Source(st, val)
               [] OTHER         -> st

\* The route does not look at what parse_sdp returns.
ParseSdp(text) ==
    FoldLeft(SdpLine, [info |-> NewInfo, media |-> ""], SplitLines(text)).info
=============================================================================
