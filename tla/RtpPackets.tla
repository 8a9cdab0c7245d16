----------------------------- MODULE RtpPackets -----------------------------
(***************************************************************************)
(* RTP packets, RTCP reports and requests for the time as a sender writes  *)
(* them, and what the receivers should find in them: the sender's side of  *)
(* RtpWire, put down here from RFC 3550 and never with the receivers'      *)
(* operators.                                                              *)
(***************************************************************************)
EXTENDS RtpWire

Half  == 0 .. Max16
Word32 == Half \X Half

MaxDatagram == 65535   \* bytes, of UDP

\* Some words as halves, one behind the other.
Halves(words) ==
    [i \in 1 .. 2 * Len(words) |-> words[((i - 1) \div 2) + 1][((i - 1) % 2) + 1]]

\* An RTP packet: the fixed header, csrcs, an extension, the payload.
FirstHalf(p) ==
    32768 + (IF p.ext = <<>> THEN 0 ELSE 4096) + 256 * Len(p.csrcs)
    + (IF p.marker THEN 128 ELSE 0) + p.pt

Extension(p) == IF p.ext = <<>> THEN <<>> ELSE <<48862, Len(p.ext)>> \o Halves(p.ext)

Rtp(p) == <<FirstHalf(p), p.seq>> \o p.ts \o p.ssrc \o Halves(p.csrcs)
          \o Extension(p) \o p.payload

\* What RFC 3550 allows, in one datagram, but for two things: the number of bytes
\* is even, and the padding bit is not set (both parsers leave what it announces in
\* the payload: rtp_parse_header takes it off its own copy of the length only).
WellFormedPacket(p) ==
    /\ p.marker \in BOOLEAN /\ p.pt \in 0..127 /\ p.seq \in Half
    /\ p.ts \in Word32 /\ p.ssrc \in Word32
    /\ p.csrcs \in Seq(Word32) /\ Len(p.csrcs) \in 0..15
    /\ p.ext \in Seq(Word32) /\ Len(p.ext) <= Max16
    /\ p.payload \in Seq(Half)
    /\ 2 * Len(Rtp(p)) <= MaxDatagram

\* What both parsers make of the first n halves of a packet.
Parsed(p, n) == LET d == SubSeq(Rtp(p), 1, n)
                IN  [len |-> n, audio |-> AudioHeader(d), video |-> VideoHeader(d)]

\* Both find the same fields and the payload in a packet that is complete, and
\* in one that is cut short nothing behind its end.
HeadersAgree(p, r) ==
    r.len > 0 =>
       LET whole == r.len = Len(Rtp(p))
           off   == 12 + 4 * Len(p.csrcs)
                    + (IF p.ext = <<>> THEN 0 ELSE 4 + 4 * Len(p.ext))
           want  == [ok |-> TRUE, marker |-> p.marker, pt |-> p.pt, seq |-> p.seq,
                     ts |-> p.ts, ssrc |-> p.ssrc, off |-> off]
       IN  /\ whole /\ p.payload # <<>> => r.audio = want
           /\ whole => r.video = want
           /\ r.audio.ok => r.audio.off < 2 * r.len
           /\ r.video.ok => r.video.off <= 2 * r.len

-----------------------------------------------------------------------------
(* RTCP: a datagram holds some sub-packets, each of a type, a count and    *)
(* the words behind its header.                                            *)

SubPacket(p) == <<32768 + 256 * p.count + p.type, Len(p.words)>> \o Halves(p.words)

\* The first k of them, one behind the other, for every k.
Fronts(ps) ==
    LET f[k \in 0 .. Len(ps)] == IF k = 0 THEN <<>> ELSE f[k - 1] \o SubPacket(ps[k])
    IN  f

Compound(ps) == Fronts(ps)[Len(ps)]

WellFormedCompound(ps) ==
    /\ ps \in Seq([type : 0..255, count : 0..31, words : Seq(Word32)])
    /\ \A k \in DOMAIN ps : Len(ps[k].words) <= Max16

\* A report of the sender: of the six words it begins with, the first four.
IsReport(p) == p.type = 200 /\ Len(p.words) >= 6

ReportOf(p) == [ssrc |-> p.words[1], ntp_msw |-> p.words[2], ntp_lsw |-> p.words[3],
                rtp_ts |-> p.words[4]]

\* The reports that are complete in the first n halves.
Reports(ps, n) == {k \in DOMAIN ps : IsReport(ps[k]) /\ Len(Fronts(ps)[k]) <= n}

\* What a datagram of n halves leaves of what was known before: the last report
\* that is complete in it, or all that was known.
ReportsAgree(ps, n, before, after) ==
    /\ Reports(ps, n) = {} => after = before
    /\ \A k \in Reports(ps, n) : (\A i \in Reports(ps, n) : i <= k) =>
          after = [last_sr |-> ReportOf(ps[k]), has_sr |-> TRUE]

-----------------------------------------------------------------------------
(* Requests for the time. *)

\* A request, and the times at which two of it arrive: less than 2^16 seconds
\* apart, as the answers have no more room.
WellFormedTimeRequest(d) ==
    /\ d \in Seq(Half)
    /\ Len(d) >= 10 => d[1] = 32768 + 83 /\ d[2] = 4

Second == 1000000   \* microseconds

Clock == [sec : Nat, us : 0 .. Second - 1]

Within(t, u) == t.sec <= u.sec /\ u.sec - t.sec <= Max16

\* Two short times are as far apart as t and u, to a tick of 2^-16 s.
AsFarApart(t, u, a, b) ==
    LET us    == Second * (u.sec - t.sec) + u.us - t.us
        ticks == 65536 * ((b[1] - a[1]) % 65536) + b[2] - a[2]
    IN  1024 * us \in 15625 * (ticks - 1) .. 15625 * (ticks + 1)

\* The answers are as far apart as the requests, each with the request's own
\* time; what is too short is not answered.
TimesAgree(d, t, u, answers) ==
    Len(answers) = 2 =>
       LET a == answers[1]
           b == answers[2]
       IN  IF Len(d) < 10 THEN a = <<>> /\ b = <<>>
           ELSE /\ SubSeq(a, 5, 6) = SubSeq(d, 5, 6)
                /\ SubSeq(a, 7, 8) = SubSeq(a, 9, 10)
                /\ AsFarApart(t, u, SubSeq(a, 7, 8), SubSeq(b, 7, 8))

=============================================================================
