------------------------------- MODULE RtpWire -------------------------------
(***************************************************************************)
(* What the receivers read from and write to the wire besides the audio    *)
(* itself: the RTP header (rtp_receiver.cpp and rtp.h parse it each in its *)
(* own way), RTCP reports (rtcp.cpp and maybe_send_rr) and the AirPlay     *)
(* timing exchange (timing.cpp).                                           *)
(*                                                                         *)
(* A datagram is a sequence of 16-bit halves, so of an even number of      *)
(* bytes; a 32-bit word is a pair of halves, a time is a pair of seconds   *)
(* and microseconds.                                                       *)
(***************************************************************************)
EXTENDS Integers, Sequences, FiniteSetsExt, Loops

Max16 == 65535

Word(d, i) == <<d[i], d[i + 1]>>

Version(half) == half \div 16384
Low8(half) == half % 256
Bit(half, n) == (half \div (2 ^ n)) % 2 = 1

-----------------------------------------------------------------------------
(* The RTP header.  A parse gives the fields and the offset of the payload *)
(* in bytes, or Rejected.                                                  *)

Rejected == [ok |-> FALSE]

Fields(d, off) ==
    [ok |-> TRUE, marker |-> Bit(d[1], 7), pt |-> d[1] % 128, seq |-> d[2],
     ts |-> Word(d, 3), ssrc |-> Word(d, 5), off |-> off]

Csrcs(d) == (d[1] \div 256) % 16
HasExtension(d) == Bit(d[1], 12)

\* Half number off / 2 + 2 is the extension's length in words.
ExtensionWords(d, off) == d[(off \div 2) + 2]

\* rtp_parse_header, for the video: every step is checked against the end.
VideoHeader(d) ==
    LET len   == 2 * Len(d)
        fixed == 12 + 4 * Csrcs(d)
        off   == fixed + 4 + 4 * ExtensionWords(d, fixed)
    IN  IF len < 12 \/ Version(d[1]) # 2 \/ fixed > len THEN Rejected
        ELSE IF ~HasExtension(d) THEN Fields(d, fixed)
        ELSE IF fixed + 4 > len \/ off > len THEN Rejected
        ELSE Fields(d, off)

\* receiver_worker, for the audio: the extension's length is 16 bits wide in
\* bytes, one that does not fit its own header is taken for payload, and a
\* packet without payload is dropped.
AudioHeader(d) ==
    LET len   == 2 * Len(d)
        fixed == 12 + 4 * Csrcs(d)
        off   == IF HasExtension(d) /\ fixed + 4 <= len
                 THEN fixed + 4 + ((4 * ExtensionWords(d, fixed)) % 65536)
                 ELSE fixed
    IN  IF len < 12 \/ Version(d[1]) # 2 \/ off >= len THEN Rejected
        ELSE Fields(d, off)

-----------------------------------------------------------------------------
(* RTCP.  h is RtcpHandler: the last sender report and whether there is    *)
(* one.                                                                    *)

NoReport == [ssrc |-> <<0, 0>>, ntp_msw |-> <<0, 0>>, ntp_lsw |-> <<0, 0>>,
             rtp_ts |-> <<0, 0>>]
NewRtcp == [last_sr |-> NoReport, has_sr |-> FALSE]

SenderReport(d, i) ==
    [ssrc |-> Word(d, i + 2), ntp_msw |-> Word(d, i + 4),
     ntp_lsw |-> Word(d, i + 6), rtp_ts |-> Word(d, i + 8)]

\* handle_packet: from sub-packet to sub-packet by the length each states,
\* until one is of another version or longer than what is left.
SubPacketAt(s, d) ==
    LET halves == 2 * (d[s.at + 1] + 1)
        isSr   == Low8(d[s.at]) = 200 /\ halves >= 14
    IN  IF s.at + 1 > Len(d) THEN s
        ELSE IF Version(d[s.at]) # 2 \/ s.at + halves - 1 > Len(d) THEN s
        ELSE [at |-> s.at + halves,
              h  |-> IF isSr THEN [last_sr |-> SenderReport(d, s.at), has_sr |-> TRUE]
                     ELSE s.h]

HandleRtcp(h, d) ==
    Iterate(LAMBDA s, i : SubPacketAt(s, d), [h |-> h, at |-> 1], Len(d) \div 2).h

\* cum_lost is cut at 2^23 - 1, its 24 bits follow a zero fraction_lost.
CumulativeLost(lost) ==
    LET n == IF lost > 8388607 THEN 8388607 ELSE lost
    IN  <<n \div 65536, n % 65536>>

\* (Mutant: the 16 bits to the left of the middle.)
LsrShifted(h) == IF h.has_sr THEN <<h.last_sr.ntp_msw[1], h.last_sr.ntp_msw[2]>>
                 ELSE <<0, 0>>

\* The middle 32 bits of the NTP time of the last report.
Lsr(h) == IF h.has_sr THEN <<h.last_sr.ntp_msw[2], h.last_sr.ntp_lsw[1]>>
          ELSE <<0, 0>>

BuildRr(h, sender, ours, highest, lost, jitter) ==
    <<33024 + 201, 7>> \o ours \o sender \o CumulativeLost(lost)
    \o <<0, highest % 65536>> \o jitter \o Lsr(h) \o <<0, 0>>

\* The largest number in the jitter buffer, else the one before the next.
HighestSeq(held, started, next) ==
    IF held # {} THEN Max(held)
    ELSE IF started THEN (next - 1) % 65536 ELSE 0

\* A datagram on the control channel also names the peer of the reports.
HandleControl(c, d) == [c EXCEPT !.peer = TRUE, !.rtcp = HandleRtcp(@, d)]

RrInterval == 5      \* seconds

\* maybe_send_rr: c is the control channel of the receiver, at time `now'.
\* The report that leaves, or none.
MaybeSendRr(c, now) ==
    IF \/ c.lastRr # 0 /\ now - c.lastRr < RrInterval
       \/ ~c.rtcp.has_sr
       \/ ~c.peer
    THEN [c EXCEPT !.sent = <<>>]
    ELSE [c EXCEPT !.lastRr = now,
                   !.sent = BuildRr(c.rtcp, c.rtcp.last_sr.ssrc, c.ssrc,
                                    HighestSeq(c.held, c.started, c.next),
                                    c.lost, c.jitter)]

-----------------------------------------------------------------------------
(* Timing. *)

\* ntp_now and compact_ntp: the seconds since 1900 modulo 2^16 (2208988800
\* is 32384 modulo 2^16) and the fraction in 1/65536 s; 2^16 / 10^6 is
\* 1024 / 15625.
CompactNtp(t) == <<(t.sec + 32384) % 65536, (t.us * 1024) \div 15625>>

\* A request of at least 20 bytes is answered with its own timestamp and,
\* twice, with the time of the answer; anything else is not answered.
HandleTiming(d, ours, t) ==
    IF \/ Len(d) < 10
       \/ Version(d[1]) # 2 \/ Low8(d[1]) # 83 \/ d[2] # 4
    THEN <<>>
    ELSE <<32768 + 84, 4>> \o ours \o Word(d, 5) \o CompactNtp(t) \o CompactNtp(t)

=============================================================================
