------------------------------- MODULE Streams -------------------------------
(***************************************************************************)
(* What a sender puts on the wire as a stream or as encrypted packets, and *)
(* the code that reads it in the pieces in which it arrives.  A behaviour  *)
(* is one job:                                                             *)
(*                                                                         *)
(*   http     requests on a connection, in any segments       HttpParser   *)
(*   push     frames of the screen on a connection, same      VideoPush    *)
(*   audio    encrypted packets, in any order                 Ciphers      *)
(*   digest   a message hashed in any pieces                  Hashes       *)
(*                                                                         *)
(* What should arrive is written here a second time, from what was sent    *)
(* and the standards the code follows.  Wire extends this module with what *)
(* crosses the borders as datagrams and values.                            *)
(***************************************************************************)
EXTENDS Integers, Sequences, FiniteSets, VideoPush, Hashes

CONSTANT Jobs        \* what is sent: records with at least a field kind

Http == INSTANCE HttpParser

VARIABLES
    job,     \* what is sent
    bytes,   \* the requests, frames or packets of the job as they are sent
    sent,    \* how much of it: a position, or the set of packets delivered
    rx       \* the code that reads it

vars == <<job, bytes, sent, rx>>

-----------------------------------------------------------------------------
(* Numbers as bytes. *)

\* n without its last i bytes.
Shifted(n, i) == Iterate(LAMBDA m, k : m \div 256, n, i)

Small(n, k) == Now([i \in 1..k |-> Shifted(n, i - 1) % 256])
Big(n, k)   == Now([i \in 1..k |-> Shifted(n, k - i) % 256])

-----------------------------------------------------------------------------
(* Requests. *)

\* A request as a sequence of tokens; `fragile' are the cuts the parser
\* minds: inside the line of a chunk's size, and between the CR and the LF
\* that complete the request.
HeaderLine(h) == h.name \o <<":", "SP">> \o h.value \o <<"CR", "LF">>

HeaderLines(r, n) == Joined([i \in DOMAIN r.headers |-> HeaderLine(r.headers[i])], n)

RequestLine(r) ==
    r.method \o <<"SP">> \o r.uri \o <<"SP">> \o r.protocol \o <<"CR", "LF">>

HeadText(r) == RequestLine(r) \o HeaderLines(r, Len(r.headers)) \o <<"CR", "LF">>

Chunk(c) == c.size \o <<"CR", "LF">> \o c.data \o <<"CR", "LF">>

Chunks(r, n) == Joined([i \in DOMAIN r.chunks |-> Chunk(r.chunks[i])], n)

RequestText(r) ==
    HeadText(r) \o (IF r.chunks = <<>> THEN r.body ELSE Chunks(r, Len(r.chunks)))

Fragile(r) ==
    LET before(i) == Len(HeadText(r)) + Len(Chunks(r, i - 1))
    IN  (UNION {before(i) + 1 .. before(i) + Len(r.chunks[i].size) :
                   i \in DOMAIN r.chunks})
        \cup (IF r.body = <<>> \/ r.chunks # <<>>
              THEN {Len(RequestText(r)) - 1} ELSE {})

\* What the worker should have taken from it.
Understood(r) ==
    [method |-> r.method, uri |-> r.uri, protocol |-> r.protocol, body |-> r.body,
     headers |-> [h \in {r.headers[i].name : i \in DOMAIN r.headers} |->
                    (CHOOSE x \in {r.headers[i] : i \in DOMAIN r.headers} :
                        x.name = h).value]]

\* A request by RFC 2326 and RFC 7230: words without separators, each header
\* once, a body of the length that is named, or chunks of the sizes that are
\* named up to an empty one.
Without(s, tokens) == \A i \in DOMAIN s : s[i] \notin tokens
Solid(s) == s # <<>> => s[1] # "SP" /\ s[Len(s)] # "SP"

WellFormedHeader(h) ==
    /\ h.name # <<>> /\ Solid(h.name) /\ Solid(h.value)
    /\ Without(h.name, {":", "CR", "LF"}) /\ Without(h.value, {"CR", "LF"})

\* The digits of a size end at an extension.
WellFormedChunk(c) ==
    LET hex == Http!HexPart(c.size)
    IN  /\ Without(c.size, {"CR", "LF"})
        /\ \A i \in DOMAIN hex : Http!IsDigit(hex[i], 16)
        /\ Http!Number(hex, 16) = Len(c.data)

WellFormedBody(r) ==
    IF r.chunks = <<>>
    THEN ~Http!IsChunked(Understood(r)) /\ Http!ContentLength(Understood(r)) = Len(r.body)
    ELSE /\ Http!IsChunked(Understood(r))
         /\ r.body = Joined([i \in DOMAIN r.chunks |-> r.chunks[i].data], Len(r.chunks))
         /\ \A i \in DOMAIN r.chunks :
               WellFormedChunk(r.chunks[i]) /\ (r.chunks[i].data = <<>> <=> i = Len(r.chunks))

WellFormedRequest(r) ==
    /\ \A w \in {r.method, r.uri} : w \in Seq(STRING) /\ Without(w, {"SP", "CR", "LF"})
    /\ r.protocol \in Seq(STRING) /\ Without(r.protocol, {"SP", "CR", "LF"})
    /\ r.body \in Seq(STRING)
    /\ r.headers \in Seq([name : Seq(STRING), value : Seq(STRING)])
    /\ r.chunks \in Seq([size : Seq(STRING), data : Seq(STRING)])
    /\ \A i \in DOMAIN r.headers : WellFormedHeader(r.headers[i])
    /\ \A i, k \in DOMAIN r.headers : r.headers[i].name = r.headers[k].name => i = k
    /\ WellFormedBody(r)

\* The client sends a request when the one before it is answered.
Segment ==
    /\ job.kind = "http"
    /\ sent.request <= Len(job.requests)
    /\ LET text == bytes[sent.request]
       IN  \E n \in sent.at + 1 .. Len(text) :
             /\ n \notin Fragile(job.requests[sent.request])
             /\ rx' = Http!Receive(rx, SubSeq(text, sent.at + 1, n))
             /\ sent' = IF n = Len(text)
                        THEN [request |-> sent.request + 1, at |-> 0]
                        ELSE [sent EXCEPT !.at = n]
    /\ UNCHANGED <<job, bytes>>

-----------------------------------------------------------------------------
(* Encryption by the sender. *)

\* The counter block after n steps from iv, a number of 16 bytes: each byte
\* gets what the ones behind it carry.
Carry(iv, n, k) == Iterate(LAMBDA c, i : (iv[17 - i] + c) \div 256, n, k)
CounterAt(iv, n) == Now([i \in 1..16 |-> (iv[i] + Carry(iv, n, 16 - i)) % 256])

\* Byte p, from 0, of the stream of counter mode.
KeyStream(w, iv, p) == EncryptBlock(w, CounterAt(iv, p \div 16))[(p % 16) + 1]

Masked(w, iv, from, plain) ==
    Now([i \in DOMAIN plain |-> Xor(plain[i], KeyStream(w, iv, from + i - 1))])

\* Whole blocks in a chain, and the bytes behind them as they are.
CipherBlock(w, iv, plain, n) ==
    Iterate(LAMBDA c, b : EncryptBlock(w, XorSeq(BlockOf(plain, b), c)), iv, n)

Chained(w, iv, plain) ==
    LET whole == Len(plain) \div 16
    IN  Joined([b \in 1..whole |-> CipherBlock(w, iv, plain, b)], whole)
        \o SubSeq(plain, 16 * whole + 1, Len(plain))

-----------------------------------------------------------------------------
(* The screen. *)

\* A frame is its header and its payload, pictures masked in their order.
Unit(nal, k) == Big(Len(nal), k) \o nal

Plain(f) == IF f.type = 1
            THEN <<1, 100, 0, 32, 255, 225>> \o Unit(f.nals[1], 2)
                 \o <<1>> \o Unit(f.nals[2], 2)
            ELSE Joined([i \in DOMAIN f.nals |-> Unit(f.nals[i], 4)], Len(f.nals))

MaskedBefore(fs, i) ==
    Iterate(LAMBDA n, k : n + (IF fs[k].type = 0 THEN Len(Plain(fs[k])) ELSE 0), 0, i - 1)

FrameHeader(f, size) ==
    Small(size, 4) \o <<f.type, f.type2, 0, 0>> \o Small(f.ntp, 8)
    \o [k \in 1..(HeaderLen - 16) |-> 99]

Payload(j, i) ==
    LET p == Plain(j.frames[i])
    IN  IF j.frames[i].type = 0
        THEN Masked(KeyExpansion(j.key), j.iv, MaskedBefore(j.frames, i), p) ELSE p

FrameBytes(j, i) == FrameHeader(j.frames[i], Len(Plain(j.frames[i]))) \o Payload(j, i)

\* The frames that are for the screen, of the first n: their numbers.
Shown(fs, n) ==
    Iterate(LAMBDA s, i : IF fs[i].type \in {0, 1} THEN Append(s, i) ELSE s, <<>>, n)

\* A key frame says so in its header or is one by the type of a NAL unit; a
\* packet without payload is no picture; the pictures are sent in the order
\* of their times.
WellFormedFrame(codec, f) ==
    /\ {f.type, f.type2} \subseteq Byte
    /\ f.ntp \in Nat /\ Shifted(f.ntp, 8) = 0
    /\ f.nals \in Seq(Seq(Byte)) /\ \A i \in DOMAIN f.nals : f.nals[i] # <<>>
    /\ Len(Plain(f)) <= MaxPayload
    /\ f.nals = <<>> => f.type \in {2, 5}
    /\ f.type = 1 => Len(f.nals) = 2 /\ \A i \in 1..2 : Len(f.nals[i]) < 65536
    /\ f.type \in {0, 1} =>
          f.key = (f.type = 0 /\ (\/ f.type2 = 16
                                  \/ \E i \in DOMAIN f.nals : IsIdr(codec, f.nals[i])))

WellFormedKeys(j) == {j.key, j.iv} \subseteq [1..16 -> Byte]

WellFormedScreen(j) ==
    /\ WellFormedKeys(j)
    /\ DOMAIN j.frames = 1..Len(j.frames)
    /\ \A i \in DOMAIN j.frames : WellFormedFrame(j.codec, j.frames[i])
    /\ \A i, k \in DOMAIN j.frames :
          i <= k /\ {j.frames[i].type, j.frames[k].type} = {0} =>
             j.frames[i].ntp <= j.frames[k].ntp

\* One recv().  After a hang-up the sender repeats the frame that was cut.
Pushed ==
    /\ job.kind = "push" /\ rx.open
    /\ sent.frame <= Len(job.frames)
    /\ LET frame == bytes[sent.frame]
       IN  \E n \in 1..Wanted(rx) :
             /\ sent.at + n <= Len(frame)
             /\ rx' = Receive(rx, SubSeq(frame, sent.at + 1, sent.at + n),
                              1000 * sent.frame)
             /\ sent' = IF sent.at + n = Len(frame)
                        THEN [sent EXCEPT !.frame = @ + 1, !.at = 0]
                        ELSE [sent EXCEPT !.at = @ + n]
    /\ UNCHANGED <<job, bytes>>

HangUp ==
    /\ job.kind = "push" /\ rx.open /\ sent.hangups > 0
    /\ rx' = Disconnect(rx)
    /\ sent' = [sent EXCEPT !.hangups = @ - 1, !.at = 0]
    /\ UNCHANGED <<job, bytes>>

ConnectAgain ==
    /\ job.kind = "push" /\ ~rx.open
    /\ rx' = Accept(rx)
    /\ UNCHANGED <<job, bytes, sent>>

-----------------------------------------------------------------------------
(* Audio. *)

\* Packet i of a job as it is sent.
Packet(j, i) ==
    LET w == KeyExpansion(j.key)
    IN  IF j.mode = "CBC" THEN Chained(w, j.iv, j.packets[i])
        ELSE Masked(w, j.iv, Len(Joined(j.packets, i - 1)), j.packets[i])

\* The counter mode of AirPlay 1 is at a loss when a packet is.
WellFormedAudio(j) ==
    /\ WellFormedKeys(j)
    /\ j.mode \in {"CBC", "CTR"} /\ j.lossy \in BOOLEAN
    /\ j.mode = "CTR" => ~j.lossy
    /\ j.packets \in Seq(Seq(Byte))

NewReceiver(j) ==
    [cbc_ready |-> j.mode = "CBC", cbc_iv |-> j.iv,
     cbc_keys |-> SetCbcKey(j.key), aes |-> SetCtrKey(NewCtr, j.key, j.iv),
     last |-> 0, out |-> <<>>]

\* A lossy network brings any packet next, again too.
AudioPacket ==
    /\ job.kind = "audio"
    /\ \E i \in DOMAIN job.packets :
          /\ IF job.lossy THEN sent < job.deliveries ELSE i = sent + 1
          /\ \E r \in {DecryptPacket(rx, bytes[i])} :
                rx' = [r.rx EXCEPT !.last = i, !.out = r.out]
    /\ sent' = sent + 1
    /\ UNCHANGED <<job, bytes>>

-----------------------------------------------------------------------------
(* Digests. *)

HashPiece ==
    /\ job.kind = "digest"
    /\ \E n \in job.pieces :
          /\ sent + n <= Len(job.message)
          /\ rx' = Update(rx, SubSeq(job.message, sent + 1, sent + n))
          /\ sent' = sent + n
    /\ UNCHANGED <<job, bytes>>

\* The state of the hash behind a message, by FIPS 180-4.
Whole(m) ==
    LET p == m \o <<128>> \o Zeros((111 - Len(m)) % 128) \o LengthBytes(8 * Len(m))
    IN  Iterate(LAMBDA s, b : Compress(s, SubSeq(p, 128 * b - 127, 128 * b)), 1,
                Len(p) \div 128)

-----------------------------------------------------------------------------
StreamKinds == {"http", "push", "audio", "digest"}

WellFormed(j) ==
    CASE j.kind = "http"   -> /\ DOMAIN j.requests = 1..Len(j.requests)
                              /\ \A i \in DOMAIN j.requests : WellFormedRequest(j.requests[i])
      [] j.kind = "push"   -> WellFormedScreen(j)
      [] j.kind = "audio"  -> WellFormedAudio(j)
      [] j.kind = "digest" -> j.message \in Seq(Byte) /\ j.pieces \subseteq Nat
      [] OTHER             -> TRUE

ASSUME JobsWellFormed == \A j \in Jobs : WellFormed(j)

\* The bytes of a job are computed once.
OnWire(j) ==
    CASE j.kind = "http"   -> [i \in DOMAIN j.requests |-> RequestText(j.requests[i])]
      [] j.kind = "push"   -> [i \in DOMAIN j.frames |-> FrameBytes(j, i)]
      [] j.kind = "audio"  -> [i \in DOMAIN j.packets |-> Packet(j, i)]
      [] j.kind = "digest" -> <<>>

Start(j) ==
    CASE j.kind = "http"   -> [sent |-> [request |-> 1, at |-> 0], rx |-> Http!NewConnection]
      [] j.kind = "push"   -> [sent |-> [frame |-> 1, at |-> 0, hangups |-> 1],
                               rx |-> NewPush(j.codec, SetCtrKey(NewCtr, j.key, j.iv))]
      [] j.kind = "audio"  -> [sent |-> 0, rx |-> NewReceiver(j)]
      [] j.kind = "digest" -> [sent |-> 0, rx |-> NewSha]

StreamInit ==
    \E j \in Jobs : /\ j.kind \in StreamKinds
                    /\ job = j /\ bytes = OnWire(j)
                    /\ sent = Start(j).sent /\ rx = Start(j).rx

StreamNext == Segment \/ Pushed \/ HangUp \/ ConnectAgain \/ AudioPacket \/ HashPiece

StreamSpec == StreamInit /\ [][StreamNext]_vars

-----------------------------------------------------------------------------
(* Properties. *)

\* A frame called back has the NAL units and the key flag it was sent with.
FrameAgrees(f, sentFrame) ==
    /\ f.annex_b = Joined([i \in DOMAIN sentFrame.nals |->
                              <<0, 0, 0, 1>> \o sentFrame.nals[i]], Len(sentFrame.nals))
    /\ f.is_key = (sentFrame.type = 0 /\ sentFrame.key)

RequestsAgree ==
    /\ rx.answered = [i \in 1..(sent.request - 1) |-> Understood(job.requests[i])]
    /\ ~rx.closed

\* The frames called back are those that are complete; from the first picture
\* on they keep the distances in time that the sender gave them.
ScreenShown ==
    LET shown    == Shown(job.frames, sent.frame - 1)
        frame(k) == job.frames[shown[k]]
    IN  /\ Len(rx.frames) = Len(shown)
        /\ \A k \in DOMAIN shown : FrameAgrees(rx.frames[k], frame(k))
        /\ \A i, k \in DOMAIN shown :
              /\ frame(i).type = 0 /\ frame(k).type = 0
              /\ \A m \in 1..(i - 1) : frame(m).type # 0
              => rx.frames[k].pts_us - rx.frames[i].pts_us
                    = (frame(k).ntp - frame(i).ntp) \div 1000

DigestAgrees == Digest(rx) = DigestOf(Whole(SubSeq(job.message, 1, sent)))

\* How a stream is cut into segments changes nothing.  The worker has answered
\* exactly the requests that are complete, each understood as it was sent, and
\* the connection stays; the screen shows exactly the frames that are
\* complete, also when the connection was lost in the middle of one; and the
\* digest is that of the padded message by FIPS 180-4, whatever pieces it was
\* given in (parse of http_parser.cpp, tcp_push_worker of video_rtp.cpp,
\* update of sha512.cpp).
CutsInvisible ==
    /\ job.kind = "http" => RequestsAgree
    /\ job.kind = "push" => ScreenShown
    /\ job.kind = "digest" => DigestAgrees

\* Every packet of audio that is received comes out as the sender's samples,
\* whatever the network lost, doubled or reordered before it (the decryption
\* in receiver_worker of rtp_receiver.cpp).
AudioReadable ==
    job.kind = "audio" /\ rx.last # 0 => rx.out = job.packets[rx.last]

=============================================================================
