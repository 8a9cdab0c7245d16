-------------------------------- MODULE Wire --------------------------------
(***************************************************************************)
(* The bytes that cross the library's borders, and what becomes of them.   *)
(* A sender puts something on the wire, the network cuts, loses, doubles   *)
(* or reorders it as far as the transport allows, and the code that reads  *)
(* it is run on every piece in turn.  A behaviour is one job:              *)
(*                                                                         *)
(*   http, push, audio, digest                                Streams      *)
(*   control  reports, in any order, and the time             RtpWire      *)
(*   rtp      a packet for both header parsers, or cut short  RtpPackets   *)
(*   screen   packets of the screen over UDP                  VideoPush    *)
(*   timing   requests for the time                           RtpPackets   *)
(*   device   what is announced of a device                   Dns          *)
(*   query    questions for names of services                 Dns          *)
(*   value    a property list, data, a response               Plist, ...   *)
(*   request  what a request asks of the receiver             Routes, Sdp  *)
(*   sap      a FairPlay pairing                              FairPlay     *)
(*   keys     a key agreement and a signature                 Curve        *)
(*   field    operands of the arithmetic in limbs             Curve        *)
(*                                                                         *)
(* What should arrive is written here a second time, from what was sent    *)
(* and the standards the code follows, never with the code's operators.    *)
(***************************************************************************)
EXTENDS Integers, Sequences, FiniteSets, Streams, RtpPackets, Curve

Pl   == INSTANCE Plist
Rq   == INSTANCE Requests
D    == INSTANCE Dns

-----------------------------------------------------------------------------
(* Reports and times. *)

NewControl(j) == [rtcp |-> NewRtcp, ssrc |-> <<4, 4>>, lastRr |-> 0, peer |-> FALSE,
                  held |-> j.held, started |-> TRUE, next |-> j.next,
                  lost |-> j.lost, jitter |-> <<0, 9>>, sent |-> <<>>, heard |-> <<>>]

\* Of sub-packets in one datagram, the first len halves arrive.
ControlPacket ==
    /\ job.kind = "control" /\ sent.n < job.deliveries
    /\ \E g \in job.datagrams :
          rx' = [HandleControl(rx, SubSeq(Compound(g.parts), 1, g.len)) EXCEPT
                    !.sent = <<>>, !.heard = <<[of |-> g, before |-> rx.rtcp]>>]
    /\ sent' = [sent EXCEPT !.n = @ + 1]
    /\ UNCHANGED <<job, bytes>>

\* A second passes, and the receiver's loop comes round.
Tick ==
    /\ job.kind = "control" /\ sent.now < job.until
    /\ LET now == sent.now + 1
           r   == MaybeSendRr(rx, now)
       IN  /\ rx' = r
           /\ sent' = IF r.sent = <<>> THEN [sent EXCEPT !.now = now]
                      ELSE [sent EXCEPT !.now = now, !.reports = Append(@, now)]
    /\ UNCHANGED <<job, bytes>>

RtpPacket ==
    /\ job.kind = "rtp" /\ sent = 0
    /\ \E n \in 1..Len(Rtp(job.packet)) :
          rx' = Parsed(job.packet, n) /\ sent' = n
    /\ UNCHANGED <<job, bytes>>

\* Packets of the screen, some lost.
ScreenPacket ==
    /\ job.kind = "screen"
    /\ \E i \in sent + 1 .. Len(job.packets) :
          /\ rx' = UdpPacket(rx, Rtp(job.packets[i]), 5000 + sent)
          /\ sent' = i
    /\ UNCHANGED <<job, bytes>>

\* A request at each of two times, one after the other.
TimingRequest ==
    /\ job.kind = "timing" /\ sent < 2
    /\ rx' = Append(rx, HandleTiming(job.request, <<8, 8>>, job.times[sent + 1]))
    /\ sent' = sent + 1
    /\ UNCHANGED <<job, bytes>>

\* An announcement: either packet first, whole or cut short, then either again.
Announcement ==
    /\ job.kind = "device" /\ Len(sent) < 2
    /\ \E i \in 1..2 :
          LET pkt == bytes[i]
          IN  \E n \in IF sent = <<>> THEN 1..Len(pkt) ELSE {Len(pkt)} :
                /\ rx' = D!ParseResponse(rx, SubSeq(pkt, 1, n))
                /\ sent' = IF n = Len(pkt) THEN Append(sent, i) ELSE Append(sent, 0)
    /\ UNCHANGED <<job, bytes>>

\* A query: its questions' names are sequences of labels, and with `pointers'
\* each but the first ends in a pointer to the last label but one of the first.
QueryBytes(j) ==
    LET label(l) == <<Len(l)>> \o l
        name(q)  == FlattenSeq([i \in DOMAIN q |-> label(q[i])]) \o <<0>>
        at       == 12 + Len(FlattenSeq([i \in 1..(Len(j.names[1]) - 2) |->
                                            label(j.names[1][i])]))
        short(q) == FlattenSeq([i \in 1..(Len(q) - 2) |-> label(q[i])]) \o <<192, at>>
    IN  <<1, 1, j.flags, 0, 0, Len(j.names), 0, 0, 0, 0, 0, 0>>
        \o FlattenSeq([i \in DOMAIN j.names |->
               (IF j.pointers /\ i > 1 THEN short(j.names[i]) ELSE name(j.names[i]))
               \o <<0, 12, 0, 1>>])

Question ==
    /\ job.kind = "query" /\ sent = 0
    /\ \E n \in 1..Len(bytes) :
          /\ rx' = D!HandleQuery(SubSeq(bytes, 1, n))
          /\ sent' = n
    /\ UNCHANGED <<job, bytes>>

-----------------------------------------------------------------------------
(* Values. *)

\* How each format is written, and how it is read.
Write(j) ==
    CASE j.format = "binary" -> Pl!SerializeBinary(j.tree)
      [] j.format = "xml"    -> Pl!SerializeXml(j.tree)
      [] j.format = "base64" -> Pl!Base64Encode(j.value)
      [] j.format = "hex"    -> j.text
      [] j.format = "padded" -> CbcEncrypt(SetCbcKey(j.key), j.iv, j.value)
      [] j.format = "response" -> Http!Serialize(Http!MakeOk(j.cseq, j.value))

\* A client's reading of a response: what follows the first empty line is
\* the body, if its length is that of the Content-Length.
ReadResponse(text) ==
    LET ends == {i \in 1..(Len(text) - 3) :
                    SubSeq(text, i, i + 3) = <<"CR", "LF", "CR", "LF">>}
        body == SubSeq(text, Http!Min(ends) + 4, Len(text))
        at   == {i \in DOMAIN text : text[i] = "Content-Length"}
        size == IF at = {} THEN 0
                ELSE Http!LeadingNumber(SubSeq(text, Http!Min(at) + 3, Len(text)))
    IN  IF size = Len(body) THEN body ELSE <<"refused">>

ReadBack(j, text) ==
    CASE j.format = "binary" -> Pl!ParseBinary(text).value
      [] j.format = "xml"    -> Pl!ParseXml(text).value
      [] j.format = "base64" -> Pl!Base64Decode(text)
      [] j.format = "hex"    -> HexToVector(text).bytes
      [] j.format = "padded" -> CbcDecrypt(SetCbcKey(j.key), j.iv, text).out
      [] j.format = "response" -> ReadResponse(text)

Convert ==
    /\ job.kind = "value" /\ sent = 0
    /\ sent' = 1
    /\ rx' = ReadBack(job, Write(job))
    /\ UNCHANGED <<job, bytes>>

-----------------------------------------------------------------------------
(* Requests as a whole, and a pairing by FairPlay. *)

Ask ==
    /\ job.kind = "request" /\ sent = 0
    /\ sent' = 1
    /\ rx' = Rq!Answered(job)
    /\ UNCHANGED <<job, bytes>>

\* What the answer r to the message m leaves on both sides.
Paired(m, r, shows) ==
    [sap |-> r.sap, client |-> Rq!Heard(rx.client, m, r, shows)]

\* The client sends any message next, with the PIN, another one or no tag.
SapStep ==
    /\ job.kind = "sap" /\ sent < job.steps
    /\ \E m \in Rq!SapMessages, shows \in {"pin", "another", "no tag"} :
          rx' = Paired(m, Rq!SapAnswer(rx.sap, m,
                              Rq!SapMessage(rx.client, m, Rq!Tag(rx.client, shows, job.pin))),
                       shows)
    /\ sent' = sent + 1
    /\ UNCHANGED <<job, bytes>>

-----------------------------------------------------------------------------
(* Keys and the field. *)

\* Two sides agree on a key, one of them signs a message and the other
\* checks it, and checks it against another message and another key.
KeyExchange ==
    /\ job.kind = "keys" /\ sent = 0
    /\ sent' = 1
    /\ LET a == X25519Keygen(job.a, job.base)
           b == X25519Keygen(job.b, job.base)
           k == Ed25519Keygen(job.a)
           s == Sign(k, job.message)
       IN  rx' = [ours   |-> X25519Shared(a.sk, b.pk),
                  theirs |-> X25519Shared(b.sk, a.pk),
                  public |-> a.pk,
                  point  |-> UnpackNeg(k.pk),
                  holds  |-> Verify(k.pk, job.message, s),
                  forged |-> Verify(k.pk, job.other, s)]
    /\ UNCHANGED <<job, bytes>>

Multiply ==
    /\ job.kind = "field" /\ sent = 0
    /\ sent' = 1
    /\ rx' = [product    |-> PackLimbs(MulLimbs(job.a, job.b)),
              sum        |-> PackLimbs(AddLimbs(job.a, job.b)),
              difference |-> PackLimbs(SubLimbs(job.a, job.b)),
              square     |-> PackLimbs(MulLimbs(SubLimbs(job.a, job.b),
                                                SubLimbs(job.a, job.b)))]
    /\ UNCHANGED <<job, bytes>>

-----------------------------------------------------------------------------
Begin(j) ==
    CASE j.kind = "control" -> [sent |-> [n |-> 0, now |-> 0, reports |-> <<>>],
                                rx |-> NewControl(j)]
      [] j.kind = "rtp"     -> [sent |-> 0, rx |-> [len |-> 0]]
      [] j.kind = "screen"  -> [sent |-> 0, rx |-> NewUdp(NewCtr)]
      [] j.kind = "timing"  -> [sent |-> 0, rx |-> <<>>]
      [] j.kind = "device"  -> [sent |-> <<>>, rx |-> D!NewBrowser]
      [] j.kind = "query"   -> [sent |-> 0, rx |-> FALSE]
      [] j.kind = "sap"     -> [sent |-> 0, rx |-> [sap |-> Rq!NewSap(4, j.pin),
                                                    client |-> Rq!NewClient(7)]]
      [] OTHER              -> [sent |-> 0, rx |-> <<>>]

Datagrams(j) ==
    CASE j.kind = "device" -> D!Announcements(j.device, j.ip, FALSE)
      [] j.kind = "query"  -> IF j.names # <<>> THEN QueryBytes(j)
                              ELSE D!BuildQuery(j.type, 4660)
      [] OTHER             -> <<>>

WireInit ==
    \E j \in Jobs : /\ j.kind \notin StreamKinds
                    /\ job = j /\ bytes = Datagrams(j)
                    /\ sent = Begin(j).sent /\ rx = Begin(j).rx

WireNext == \/ ControlPacket \/ Tick \/ RtpPacket \/ ScreenPacket \/ TimingRequest
            \/ Announcement \/ Question \/ Convert \/ Ask \/ SapStep \/ KeyExchange
            \/ Multiply

Init == StreamInit \/ WireInit

Next == StreamNext \/ WireNext

Spec == Init /\ [][Next]_vars

-----------------------------------------------------------------------------
(* Properties. *)

\* The table after announcements of a device: what the last whole packet said
\* of it, under its address; every whole packet is told, as new the first.
DeviceAgrees(j, whole) ==
    LET d    == j.device
        id   == SelectSeq(d.device_id, LAMBDA c : c # 58)
        main == [name |-> d.name, port |-> d.port, ip |-> j.ip,
                 device_id |-> d.device_id, features |-> d.features,
                 model |-> IF d.model # <<>> THEN d.model
                           ELSE IF d.supports_video THEN <<84, 86, 54>> ELSE <<65, 65, 49>>,
                 vv |-> IF d.supports_video THEN 2 ELSE 1]
        said(i) == IF i = 1 THEN main
                   ELSE [main EXCEPT !.name = id \o <<64>> \o @, !.device_id = <<>>,
                                     !.features = 0, !.model = <<>>, !.vv = 2]
    IN  /\ rx.told = [k \in DOMAIN whole |-> <<said(whole[k]), k = 1>>]
        /\ rx.devices = IF whole = <<>> THEN <<>>
                        ELSE (<<j.ip, d.port>> :> said(whole[Len(whole)]))

\* A query that is complete is answered if it asks for one of our names, in
\* any letters and behind any pointer; what is cut off asks for nothing.
QueryAgrees(j) ==
    LET ours(n) == /\ Len(n) > 1
                   /\ n[Len(n)] \in {<<108>>, <<76>>}
                   /\ \/ Len(n) > 2 /\ n[Len(n) - 1] \in {<<116>>, <<84>>}
                         /\ n[Len(n) - 2] \in {<<97>>, <<65>>, <<114>>, <<82>>}
                      \/ Len(n) = 2 /\ n[1] \in {<<103>>, <<71>>}
        asked   == j.names = <<>> \/ \E i \in DOMAIN j.names : ours(j.names[i])
    IN  /\ rx => asked /\ j.flags < 128
        /\ sent = Len(bytes) /\ asked /\ j.flags < 128 => rx

\* The datagrams mean to the receiver what they meant to the sender.  A
\* receiver report that leaves is for the source of the last sender report
\* that arrived whole and names its time, the reports are RrInterval apart;
\* both parsers of the RTP header find the same fields and the payload in a
\* packet that is complete, and in one that is cut short nothing behind its
\* end; the times of the screen's frames advance as the sender's clock does,
\* past its wrap too; the answers to two requests for the time are as far
\* apart as the requests; and a device is known by what was announced of it,
\* and announced to whom asks (rtcp.cpp, timing.cpp, rtp.h, rtp_receiver.cpp,
\* mdns_publisher.cpp, mdns_browser.cpp).
ReportAgrees(r) ==
    /\ \A i \in DOMAIN rx.heard :
          LET last == rx.heard[i]
          IN  ReportsAgree(last.of.parts, last.of.len, last.before, rx.rtcp)
    /\ rx.sent # <<>> =>
       LET last == rx.rtcp.last_sr
           d    == rx.sent
       IN  /\ rx.rtcp.has_sr
           /\ Len(d) = 2 * (d[2] + 1)
           /\ SubSeq(d, 5, 6) = last.ssrc /\ SubSeq(d, 3, 4) = <<4, 4>>
           /\ SubSeq(d, 13, 14) = <<last.ntp_msw[2], last.ntp_lsw[1]>>
           /\ d[10] = r.newest
           /\ d[8] = r.lost /\ d[7] = 0
           /\ \A i \in 2..Len(sent.reports) :
                 sent.reports[i] - sent.reports[i - 1] >= 5

ScreenAgrees(j, u) ==
    \A a, b \in DOMAIN u.out :
       LET first == CHOOSE i \in DOMAIN j.packets : j.packets[i].seq = u.out[a].seq
           then  == CHOOSE i \in DOMAIN j.packets : j.packets[i].seq = u.out[b].seq
           us    == u.out[b].pts_us - u.out[a].pts_us
           ticks == j.ticks[then] - j.ticks[first]
       IN  /\ us \in (100 * ticks) \div 9 .. ((100 * ticks) \div 9) + 1
           /\ u.out[a].payload = BytesOf(j.packets[first].payload)

DatagramsUnderstood ==
    /\ job.kind = "control" => ReportAgrees(job.expect)
    /\ job.kind = "rtp" => HeadersAgree(job.packet, rx)
    /\ job.kind = "screen" => ScreenAgrees(job, rx)
    /\ job.kind = "timing" =>
          TimesAgree(job.request, job.times[1], job.times[2], rx)
    /\ job.kind = "device" => DeviceAgrees(job, SelectSeq(sent, LAMBDA i : i > 0))
    /\ job.kind = "query" => QueryAgrees(job)

\* What base64 makes of data: if one byte is left over in its last group of
\* three, two bytes that nobody wrote come behind it (plist.cpp:167-172).
ThroughBase64(d) ==
    IF Len(d) % 3 = 1 THEN d \o <<255, 248 + (d[Len(d)] % 4)>> ELSE d

\* What comes back of a property list: in XML its data have gone through
\* base64, in a binary file its dates are the Unix epoch (plist.cpp:853).
RECURSIVE Returning(_, _)
Returning(v, format) ==
    CASE v.type = "DATA" /\ format = "xml" -> [v EXCEPT !.data = ThroughBase64(@)]
      [] v.type = "DATE" /\ format = "binary" -> [v EXCEPT !.real = 0]
      [] v.type = "ARRAY" ->
            [v EXCEPT !.array = [i \in DOMAIN @ |-> Returning(@[i], format)]]
      [] v.type = "DICT" ->
            [v EXCEPT !.dict = [k \in DOMAIN @ |-> Returning(@[k], format)]]
      [] OTHER -> v

\* What is written is read back as it was: a property list as a binary file
\* and as XML, data as base64, a hexadecimal key with its separators, data
\* padded for the block cipher, and the body of a response behind the length
\* that the response states (plist.cpp, aes_ctr.cpp, aes_cbc.cpp,
\* http_parser.cpp).  It is so with two exceptions, against plist.h:198-199
\* and 208: dates in a binary file are lost, and data of one byte more than a
\* multiple of three come back from base64 with two bytes behind them.
ValuesReadBack ==
    job.kind = "value" /\ sent = 1 =>
       rx = CASE job.format \in {"binary", "xml"} -> Returning(job.tree, job.format)
              [] job.format = "base64" -> ThroughBase64(job.value)
              [] OTHER -> job.value

\* A request reaches the handler that is documented for it, after a restart of
\* the server too, with what the client put into it: the streams and keys of a
\* SETUP, the media of a description, a position or a rate; and the client
\* reads in the answer what the server put there (rtsp_server.cpp).
RequestsUnderstood == job.kind = "request" /\ sent = 1 => rx = Rq!Meant(job)

\* The decoder is reset when the stream ends and not while it runs: after a
\* FLUSH packets go to the decoder that was described (aac_decoder.h:73, against
\* flush_buffers of airplay_session_impl.cpp, which resets it in mid-stream).
FlushKeepsDecoder ==
    job.kind = "request" /\ job.form = "format" /\ sent = 1 =>
       rx.decoder = Rq!Meant(job).decoder

\* Affine points of the Montgomery curve through (x, 1); <<>> is infinity.
MontA == Plus(Mul(4, A24), 2)
Through(x) == Plus(Plus(Mul(Sq(x), x), Mul(MontA, Sq(x))), x)

Slope(p, q, b) ==
    IF p = q THEN Mul(Plus(Plus(Mul(3, Sq(p[1])), Mul(2 * MontA, p[1])), 1),
                      Inv(Mul(2 * b, p[2])))
    ELSE Mul(Minus(q[2], p[2]), Inv(Minus(q[1], p[1])))

AddAffine(p, q, b) ==
    LET s == Mul(b, Sq(Slope(p, q, b)))
        x == Minus(Minus(Minus(s, MontA), p[1]), q[1])
    IN  IF p = <<>> THEN q
        ELSE IF q = <<>> THEN p
        ELSE IF p[1] = q[1] /\ Plus(p[2], q[2]) = 0 THEN <<>>
        ELSE <<x, Minus(Mul(Slope(p, q, b), Minus(p[1], x)), p[2])>>

Times(n, x) ==
    LET r == FoldLeft(LAMBDA p, i : AddAffine(p, <<x, 1>>, Through(x)), <<>>,
                      [i \in 1..n |-> i])
    IN  IF r = <<>> THEN 0 ELSE r[1]

\* Both sides compute the same multiple of the base point, the public key is
\* its multiple by the clamped seed; a signature holds, its point is on the
\* curve, and for another message it does not hold unless the toy hash of
\* both messages is the same (curve25519.cpp).
KeysAgree ==
    /\ rx.ours = rx.theirs
    /\ rx.public = Times(Clamp(job.a), job.base)
    /\ rx.holds
    /\ Minus(Sq(rx.point[2]), Sq(rx.point[1]))
          = Plus(1, Mul(EdD, Mul(Sq(rx.point[1]), Sq(rx.point[2]))))
    /\ rx.forged => Clamp(job.a) % Order = 0 \/ (13 * (job.message - job.other)) % Order = 0

\* The arithmetic in limbs is that of the integers modulo the field's size,
\* and its result is the least of its class.
ValueOf(n) == FoldRight(LAMBDA limb, v : v * Base + limb, n, 0)
FieldSize  == 2 ^ (Limbs * Width - 1) - 19

FieldExact ==
    LET a == ValueOf(job.a)
        b == ValueOf(job.b)
    IN  /\ ValueOf(rx.product) = ((a % FieldSize) * (b % FieldSize)) % FieldSize
        /\ ValueOf(rx.sum) = (a + b) % FieldSize
        /\ ValueOf(rx.difference) = (a - b) % FieldSize
        /\ ValueOf(rx.square) = (((a - b) % FieldSize) ^ 2) % FieldSize

\* A pairing by FairPlay with a PIN is complete only after an M5 with its proof,
\* or in one of two ways that need none: an M5 with an empty tag, of which no
\* byte is compared (fairplay.cpp:236-237), and a V3 with any signature, which
\* is not looked at (281-291, against fairplay.h:147).  Nothing else that came
\* before completes it, another PIN never does, and the tag that ends it is
\* that of the key the client has on its side (fairplay.cpp).
SapAgrees ==
    /\ rx.sap.state = "COMPLETE" =>
          job.pin = <<>> \/ rx.client.shown \in {"pin", "no tag", "signature"}
    /\ rx.client.tag # <<>> /\ rx.client.theirs # <<>> =>
          rx.client.tag = Rq!Expected(rx.client, job.pin)

ArithmeticAgrees ==
    /\ job.kind = "sap" => SapAgrees
    /\ job.kind = "keys" /\ sent = 1 => KeysAgree
    /\ job.kind = "field" /\ sent = 1 => FieldExact

=============================================================================
