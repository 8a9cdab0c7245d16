------------------------------ MODULE VideoPush ------------------------------
(***************************************************************************)
(* net/video_rtp.cpp: how the mirrored screen arrives.  Over TCP (AirPlay  *)
(* 2, tcp_push_worker) it is a stream of frames, a header of HeaderLen     *)
(* bytes and a payload each, that recv() returns in pieces of any size;    *)
(* over UDP (receiver_worker) it is RTP packets for the NalReassembler.    *)
(* Both decrypt with one counter-mode cipher that runs on.                 *)
(***************************************************************************)
EXTENDS Integers, Sequences, SequencesExt, Ciphers, RtpWire

CONSTANT HeaderLen      \* 128 in the code

ASSUME HeaderHoldsItsFields == HeaderLen \in Nat /\ HeaderLen >= 16

MaxPayload == 8 * 1024 * 1024
StartCode  == <<0, 0, 0, 1>>

\* A receiver: the connection and what of a frame has arrived on it, the
\* cipher, the clocks of the first frame, and the frames called back.
NewPush(codec, aes) ==
    [open |-> TRUE, hdr |-> <<>>, payload |-> <<>>, codec |-> codec, aes |-> aes,
     base_clk |-> 0, first_ntp |-> 0, frames |-> <<>>]

LittleEndian(b) == b[1] + 256 * (b[2] + 256 * (b[3] + 256 * b[4]))
BigEndian(b)    == IF Len(b) = 2 THEN 256 * b[1] + b[2]
                   ELSE 256 * (256 * (256 * b[1] + b[2]) + b[3]) + b[4]

\* The fields of a header; the time of the sender is 8 bytes of nanoseconds.
PayloadSize(hdr) == LittleEndian(SubSeq(hdr, 1, 4))
Type(hdr)        == hdr[5]
Type2(hdr)       == hdr[6]
Ntp(hdr)         == LittleEndian(SubSeq(hdr, 9, 12))
                    + 65536 * (65536 * LittleEndian(SubSeq(hdr, 13, 16)))

\* How many bytes the next recv() asks for.
Wanted(r) == IF Len(r.hdr) < HeaderLen THEN HeaderLen - Len(r.hdr)
             ELSE PayloadSize(r.hdr) - Len(r.payload)

NextFrame(r)  == [r EXCEPT !.hdr = <<>>, !.payload = <<>>]
\* An end of stream or a bad size; what had arrived of a frame is forgotten.
Disconnect(r) == [NextFrame(r) EXCEPT !.open = FALSE]
Accept(r)     == [r EXCEPT !.open = TRUE]

\* The NAL units of a payload: each behind its length, up to one that does
\* not fit; it has five bytes at least.
NextUnit(s, plain) ==
    LET len == BigEndian(SubSeq(plain, s.off + 1, s.off + 4))
    IN  IF s.off + 4 > Len(plain) THEN s
        ELSE IF len = 0 \/ s.off + 4 + len > Len(plain) THEN s
        ELSE [off  |-> s.off + 4 + len,
              nals |-> Append(s.nals, SubSeq(plain, s.off + 5, s.off + 4 + len))]

NalUnits(plain) ==
    Iterate(LAMBDA s, i : NextUnit(s, plain), [off |-> 0, nals |-> <<>>],
            Len(plain) \div 5).nals

AnnexB(nals) == Joined([i \in DOMAIN nals |-> StartCode \o nals[i]], Len(nals))

\* The type of a NAL unit says that it starts a picture of its own.
IsIdr(codec, nal) ==
    IF codec = "H265" THEN (nal[1] \div 2) % 64 \in 16..23 ELSE nal[1] % 32 = 5

\* The parameter sets of an AVCC record: one SPS and, if it fits, one PPS.
ParameterSets(p) ==
    LET n     == Len(p)
        sps   == BigEndian(SubSeq(p, 7, 8))
        at    == 9 + sps                    \* where the PPS length is
        pps   == IF at + 2 <= n THEN BigEndian(SubSeq(p, at + 1, at + 2)) ELSE 0
    IN  IF n < 8 THEN <<>>
        ELSE IF sps = 0 \/ 8 + sps + 3 > n THEN <<>>
        ELSE <<SubSeq(p, 9, 8 + sps)>>
             \o (IF pps > 0 /\ at + 2 + pps <= n
                 THEN <<SubSeq(p, at + 3, at + 2 + pps)>> ELSE <<>>)

CallBack(r, nals, pts, key) ==
    IF nals = <<>> THEN r
    ELSE [r EXCEPT !.frames = Append(@, [codec |-> r.codec, pts_us |-> pts,
                                         annex_b |-> AnnexB(nals), is_key |-> key])]

\* The times count from the first picture on.
Based(r, ntp, now) ==
    IF r.base_clk = 0 THEN [r EXCEPT !.base_clk = now, !.first_ntp = ntp] ELSE r

CallBackAt(r, nals, ntp, key) ==
    CallBack(r, nals,
             r.base_clk + (IF ntp >= r.first_ntp THEN (ntp - r.first_ntp) \div 1000 ELSE 0),
             key \/ \E i \in DOMAIN nals : IsIdr(r.codec, nals[i]))

\* Type 0, pictures: decrypted when there is a key, timed by the sender's
\* clock.  d is what Process makes of the payload.
Decrypted(r, hdr, d, now) ==
    CallBackAt(Based([r EXCEPT !.aes = d.ctr], Ntp(hdr), now), NalUnits(d.out),
               Ntp(hdr), Type2(hdr) = 16)

Picture(r, hdr, payload, now) == Decrypted(r, hdr, Process(r.aes, payload), now)

\* A frame that is complete; any other type is ignored.
Deliver(r, hdr, payload, now) ==
    CASE Type(hdr) = 0 -> Picture(r, hdr, payload, now)
      [] Type(hdr) = 1 ->
            CallBack(r, ParameterSets(payload),
                     IF r.base_clk # 0 THEN r.base_clk ELSE now, FALSE)
      [] OTHER         -> r

\* What has arrived of a frame, with its size.
Arrived(r, size, now) ==
    IF size = 0 \/ size > MaxPayload
    THEN IF Type(r.hdr) \in {2, 5} THEN NextFrame(r) ELSE Disconnect(r)
    ELSE IF Len(r.payload) < size THEN r
    ELSE NextFrame(Deliver(r, r.hdr, r.payload, now))

WithHeader(r, now) ==
    IF Len(r.hdr) < HeaderLen THEN r ELSE Arrived(r, PayloadSize(r.hdr), now)

\* One recv() of at most Wanted(r) bytes.
Receive(r, bytes, now) ==
    WithHeader(IF Len(r.hdr) < HeaderLen THEN [r EXCEPT !.hdr = @ \o bytes]
               ELSE [r EXCEPT !.payload = @ \o bytes], now)

-----------------------------------------------------------------------------
(* UDP.  u is the receiver, d a datagram (see RtpWire); `out' is what the  *)
(* NalReassembler is given, and the time a frame it completes would carry. *)

NewUdp(aes) == [aes |-> aes, base_clk |-> 0, first_ts |-> <<0, 0>>, out |-> <<>>]

BytesOf(d) == [i \in 1..(2 * Len(d)) |->
    IF i % 2 = 1 THEN d[(i + 1) \div 2] \div 256 ELSE d[i \div 2] % 256]

\* The ticks of 90 kHz since the first packet, modulo 2^32, in microseconds.
Elapsed(ts, first) ==
    LET borrow == IF ts[2] < first[2] THEN 1 ELSE 0
        high   == (ts[1] - first[1] - borrow) % 65536
        low    == (ts[2] - first[2]) % 65536
    IN  ((65536 * high + low) * 100) \div 9

BasedUdp(u, ts, now) ==
    IF u.base_clk = 0 THEN [u EXCEPT !.base_clk = now, !.first_ts = ts] ELSE u

Push(u, h, payload) ==
    [u EXCEPT !.out = Append(@,
        [seq |-> h.seq, ts |-> h.ts, ssrc |-> h.ssrc, marker |-> h.marker,
         payload |-> payload, pts_us |-> u.base_clk + Elapsed(h.ts, u.first_ts)])]

PushDecrypted(u, h, d, now) ==
    Push(BasedUdp([u EXCEPT !.aes = d.ctr], h.ts, now), h, d.out)

PacketBody(u, h, body, now) ==
    IF ~h.ok \/ body = <<>> THEN u
    ELSE PushDecrypted(u, h, Process(u.aes, body), now)

\* A packet with the header h: what is behind it is the body.
UdpPacketWith(u, h, d, now) ==
    PacketBody(u, h, BytesOf(SubSeq(d, (h.off \div 2) + 1, Len(d))), now)

UdpPacket(u, d, now) == UdpPacketWith(u, VideoHeader(d), d, now)

=============================================================================
