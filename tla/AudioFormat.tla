----------------------------- MODULE AudioFormat -----------------------------
(***************************************************************************)
(* What decodes a session's audio: configure_audio and configure_ap2_audio *)
(* of core/airplay_session_impl.cpp, with the configuration of the ALAC    *)
(* decoder, of the AAC decoder and of the PCM ring, and the choice that    *)
(* on_rtp_packet makes for each packet.  A session may be configured again *)
(* at any time: what the last configuration did not set stays.             *)
(*                                                                         *)
(* Text is the text of Sdp.  How samples are computed is left out, and the *)
(* system's AAC converter takes every configuration that is not empty.     *)
(***************************************************************************)
EXTENDS Integers, Sequences, SequencesExt, Sdp

LOCAL Text == INSTANCE HttpParser

\* AudioConfig, AlacMagicCookie and their defaults.
NewConfig == [sample_rate |-> 44100, channels |-> 2, format |-> "PCM16LE", frame_size |-> 0]

NewCookie ==
    [frame_length |-> 4096, compatible_version |-> 0, bit_depth |-> 16, pb |-> 40,
     mb |-> 10, kb |-> 14, num_channels |-> 2, max_run |-> 255,
     max_frame_bytes |-> 0, avg_bit_rate |-> 0, sample_rate |-> 44100]

\* The part of a session that matters here.  apple is how the library was
\* built: without AudioToolbox there is no AAC.
NewAudio(apple) ==
    [codec_mode |-> <<>>, audio_cfg |-> NewConfig, aac_fmtp |-> <<>>, bpf |-> 4,
     alac |-> [configured |-> FALSE, config |-> NewCookie, out_cfg |-> NewConfig],
     aac |-> [ready |-> FALSE], apple |-> apple]

Mentions(mode, words) == \E i \in DOMAIN mode : mode[i] \in words
IsAlac(mode) == \/ Mentions(mode, {"AppleLossless", "applelossless"})
                \/ mode \in {<<"alac">>, <<"ALAC">>}
IsAac(mode)  == Mentions(mode, {"mpeg4-generic", "MPEG4-GENERIC", "aac", "AAC"})
IsPcm(mode)  == Mentions(mode, {"L16", "l16"}) \/ mode \in {<<"pcm">>, <<"PCM">>}

-----------------------------------------------------------------------------
(* ALAC. *)

AlacNumbers(fmtp) ==
    LET words == Filled(Parts(fmtp, "SP"))
    IN  [i \in DOMAIN words |-> Stoi(words[i], 0)]

\* Eleven numbers are taken for a payload type and ten parameters.  The rate
\* and the channels that stand here are replaced by those of rtpmap.
ParseAlacFmtp(fmtp) ==
    LET nums  == AlacNumbers(fmtp)
        at(k) == nums[IF Len(nums) = 11 THEN k + 2 ELSE k + 1]
    IN  IF Len(nums) < 10 THEN NewCookie
        ELSE [NewCookie EXCEPT
                !.compatible_version = at(0), !.bit_depth = at(1),
                !.frame_length = at(2), !.mb = at(3), !.kb = at(4),
                !.pb = IF at(5) = 0 THEN 40 ELSE at(5),
                !.max_run = IF at(6) = 0 THEN 255 ELSE at(6),
                !.avg_bit_rate = at(7)]

\* The 24 bytes of ALACSpecificConfig, most significant byte first.
BigEndian(n, bytes) == [i \in 1..bytes |-> (n \div 256 ^ (bytes - i)) % 256]

SpecificConfig(c) ==
    BigEndian(c.frame_length, 4)
    \o [i \in 1..6 |-> <<c.compatible_version, c.bit_depth, c.pb, c.mb, c.kb,
                         c.num_channels>>[i] % 256]
    \o BigEndian(c.max_run, 2) \o BigEndian(c.max_frame_bytes, 4)
    \o BigEndian(c.avg_bit_rate, 4) \o BigEndian(c.sample_rate, 4)

\* What Init of Apple's decoder takes from them.
InitConfig(b) ==
    LET number(from, bytes) ==
            FoldLeft(LAMBDA n, byte : 256 * n + byte, 0, SubSeq(b, from, from + bytes - 1))
    IN  [frame_length |-> number(1, 4), compatible_version |-> b[5], bit_depth |-> b[6],
         pb |-> b[7], mb |-> b[8], kb |-> b[9], num_channels |-> b[10],
         max_run |-> number(11, 2), max_frame_bytes |-> number(13, 4),
         avg_bit_rate |-> number(17, 4), sample_rate |-> number(21, 4)]

\* A version above 0 is refused; output_config() then stays what it was.
ConfigureAlac(alac, cookie) ==
    LET config == InitConfig(SpecificConfig(cookie))
    IN  IF config.compatible_version > 0
        THEN [alac EXCEPT !.configured = FALSE, !.config = config]
        ELSE [configured |-> TRUE, config |-> config,
              out_cfg |-> [sample_rate |-> cookie.sample_rate,
                           channels    |-> cookie.num_channels % 256,
                           format      |-> "PCM16LE",
                           frame_size  |-> cookie.frame_length % 65536]]

\* audio_cfg_ becomes what the decoder says that it puts out.
SwitchToAlac(s, cookie) ==
    LET alac == ConfigureAlac(s.alac, cookie)
    IN  [s EXCEPT !.alac = alac, !.audio_cfg = alac.out_cfg]

-----------------------------------------------------------------------------
(* AAC. *)

Unquoted(s) ==
    LET solid == {i \in DOMAIN s : s[i] \notin {"SP", "TAB", "QUOTE"}}
    IN  IF solid = {} THEN <<>> ELSE SubSeq(s, Min(solid), Max(solid))

\* The value of the last config= in fmtp.  As the first parameter, behind the
\* payload type and its blank, it is not found.
ConfigHex(fmtp) ==
    LET key(seg) == Unquoted(SubSeq(seg, 1, Find(seg, "=", 1) - 1))
        named == SelectSeq(Parts(fmtp, ";"),
                           LAMBDA seg : Find(seg, "=", 1) # 0 /\ key(seg) = <<"config">>)
    IN  IF named = <<>> THEN <<>> ELSE Unquoted(After(Last(named), Find(Last(named), "=", 1)))

\* Whole pairs of digits, up to what is none.
HexDecode(s) ==
    LET digits(k) == \A i \in 1..(2 * k) : Text!IsDigit(s[i], 16)
        pairs     == Max({k \in 0..(Len(s) \div 2) : digits(k)})
    IN  [k \in 1..pairs |-> Text!Number(SubSeq(s, 2 * k - 1, 2 * k), 16)]

\* Three nested MPEG-4 descriptors, each with a tag and a length of 28 bits.
Descriptor(tag, size) ==
    <<tag>> \o [i \in 1..4 |-> ((size \div 128 ^ (4 - i)) % 128)
                              + (IF i < 4 THEN 128 ELSE 0)]

BuildAacMagicCookie(asc) ==
    Descriptor(3, 26 + Len(asc)) \o <<0, 0, 0>>
    \o Descriptor(4, 18 + Len(asc)) \o <<64, 21>> \o [i \in 1..11 |-> 0]
    \o Descriptor(5, Len(asc)) \o asc

\* The old converter goes first, whatever comes then.
ConfigureAac(s) ==
    LET asc == HexDecode(ConfigHex(s.aac_fmtp))
        cfg == s.audio_cfg
    IN  IF ~s.apple \/ cfg.sample_rate = 0 \/ cfg.channels = 0 \/ asc = <<>>
        THEN [s EXCEPT !.aac = [ready |-> FALSE]]
        ELSE [s EXCEPT !.aac =
                [ready |-> TRUE, cookie |-> BuildAacMagicCookie(asc),
                 sample_rate |-> cfg.sample_rate, channels |-> cfg.channels,
                 frame |-> IF cfg.format = "AAC_ELD" THEN 480 ELSE 1024]]

\* build_eld_asc: f8e85000, whatever the rate.
BuildEldAsc == <<"f", "8", "e", "8", "5", "0", "0", "0">>

-----------------------------------------------------------------------------
(* Both ways to configure a session end with the ring and the AAC decoder. *)

FormatBytes(format) == IF format = "PCM16LE" THEN 2 ELSE 0

BytesPerFrame(cfg) ==
    (IF FormatBytes(cfg.format) = 0 THEN 2 ELSE FormatBytes(cfg.format))
    * (IF cfg.channels = 0 THEN 2 ELSE cfg.channels)

SetBuffer(s) == [s EXCEPT !.bpf = BytesPerFrame(s.audio_cfg)]

Configured(s) == IF s.aac_fmtp = <<>> THEN SetBuffer(s) ELSE ConfigureAac(SetBuffer(s))

\* ANNOUNCE.
SwitchCodec(s, sdp) ==
    LET mode   == sdp.audio_mode
        cookie == [ParseAlacFmtp(sdp.fmtp) EXCEPT
                      !.sample_rate = s.audio_cfg.sample_rate,
                      !.num_channels = s.audio_cfg.channels]
    IN  CASE IsAlac(mode) -> SwitchToAlac([s EXCEPT !.aac_fmtp = <<>>], cookie)
          [] ~IsAlac(mode) /\ IsPcm(mode) ->
                [s EXCEPT !.aac_fmtp = <<>>, !.audio_cfg.format = "PCM16LE"]
          [] ~IsAlac(mode) /\ ~IsPcm(mode) /\ IsAac(mode) ->
                [s EXCEPT !.codec_mode = <<"mpeg4-generic">>,
                          !.audio_cfg.format = "AAC_ELD", !.aac_fmtp = sdp.fmtp]
          [] OTHER -> s

ConfigureAudio(s, sdp) ==
    Configured(SwitchCodec([s EXCEPT !.codec_mode = sdp.audio_mode,
                                     !.audio_cfg.sample_rate = sdp.sample_rate,
                                     !.audio_cfg.channels = sdp.channels % 256], sdp))

\* SETUP of AirPlay 2.  With ALAC the fmtp of an earlier AAC stays, and its
\* decoder is configured again, though no packet will reach it.
SwitchAp2(s, ct, spf) ==
    IF ct = 2
    THEN SwitchToAlac([s EXCEPT !.codec_mode = <<"alac">>],
            [NewCookie EXCEPT !.sample_rate = s.audio_cfg.sample_rate,
                              !.frame_length = IF spf > 0 THEN spf ELSE @])
    ELSE [s EXCEPT !.codec_mode = <<"mpeg4-generic">>, !.audio_cfg.format = "AAC_ELD",
                   !.aac_fmtp = <<"config", "=">> \o BuildEldAsc]

ConfigureAp2Audio(s, ct, spf, sr) ==
    Configured(SwitchAp2([s EXCEPT !.audio_cfg.sample_rate = IF sr > 0 THEN sr ELSE 44100,
                                   !.audio_cfg.channels = 2], ct, spf))

\* The first stream of audio counts.
OnSetupAp2(s, streams) ==
    LET audio == SelectSeq(streams, LAMBDA r : r.type = 96)
    IN  IF audio = <<>> THEN s
        ELSE ConfigureAp2Audio(s, Head(audio).ct, Head(audio).spf, Head(audio).sr)

\* FLUSH: the ring is empty (Playback), the ALAC decoder keeps nothing from
\* frame to frame, and the AAC decoder gives its converter back.
FlushBuffers(s) == [s EXCEPT !.aac = [ready |-> FALSE]]

-----------------------------------------------------------------------------
\* What on_rtp_packet does with a packet: "info" is one of 32 bytes, "marker"
\* the four bytes that stand for no data, "audio" any other.
OnRtpPacket(s, packet) ==
    LET mode == s.codec_mode
    IN  CASE s.alac.configured /\ IsAlac(mode) ->
                IF packet = "info" THEN "skipped" ELSE "alac"
          [] ~(s.alac.configured /\ IsAlac(mode)) /\ IsAac(mode) ->
                IF packet = "marker" \/ ~s.aac.ready THEN "skipped" ELSE "aac"
          [] ~(s.alac.configured /\ IsAlac(mode)) /\ ~IsAac(mode) ->
                IF IsPcm(mode) THEN "swapped" ELSE "raw"
=============================================================================
