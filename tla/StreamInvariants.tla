-------------------------- MODULE StreamInvariants --------------------------
(***************************************************************************)
(* What holds between two steps of a stream, whatever the job: the         *)
(* invariants by which a stream arrives as it was sent (AudioInv, HashInv, *)
(* PushInv, HttpInv), the relations between a piece of what was sent and   *)
(* the state of the code that has taken it, and the turns of the loops.    *)
(***************************************************************************)
EXTENDS Streams

-----------------------------------------------------------------------------
(* The loops. *)

\* One turn of each loop of the code: from s, turn number i.
Turn(l, s, i) ==
    CASE l.of = "Joined"        -> s \o l.parts[i]
      [] l.of = "Shifted"       -> s \div 256
      [] l.of = "Carry"         -> (l.iv[17 - i] + s) \div 256
      [] l.of = "CipherBlock"   -> EncryptBlock(l.w, XorSeq(BlockOf(l.plain, i), s))
      [] l.of = "KeyExpansion"  -> NextWord(s, i + 3)
      [] l.of = "EncryptRounds" -> Round(l.w, s, i)
      [] l.of = "DecryptRounds" -> InvRound(l.w, s, 10 - i)
      [] l.of = "Process"       -> CtrByte(s, l.in[i])
      [] l.of = "NalUnits"      -> NextUnit(s, l.plain)
      [] l.of = "Update"        -> Absorb(s, l.data)
      [] l.of = "Loop"          -> Http!NextTurn(s, l.seg)
      [] l.of = "ChainState"    -> Compress(s, SubSeq(l.m, 128 * i - 127, 128 * i))
      [] l.of = "Shown"         -> IF l.fs[i].type \in {0, 1} THEN Append(s, i) ELSE s
      [] l.of = "MaskedFirst"   -> s + (IF l.fs[i].type = 0 THEN Len(Plain(l.fs[i])) ELSE 0)

\* f has what n turns leave, one after the other, from z on.
Turns(l, z, n, f) == f = [i \in 0..n |-> IF i = 0 THEN z ELSE Turn(l, f[i - 1], i)]

\* What the last of n turns leaves.
After(l, z, n) == (CHOOSE f : Turns(l, z, n, f))[n]

\* The state of the hash behind the first n blocks of m.
ChainState(m, n) ==
    Iterate(LAMBDA s, b : Compress(s, SubSeq(m, 128 * b - 127, 128 * b)), 1, n)

-----------------------------------------------------------------------------
(* Bytes, words and blocks of the ciphers. *)

\* The bit of weight w, and the weights of a byte.
BitAt(x, w) == (x \div w) % 2 = 1
Weights == {1, 2, 4, 8, 16, 32, 64, 128}

\* Words and blocks of AES.
AesWord  == [1..4 -> Byte]
Block == [1..16 -> Byte]

\* The key schedule: 44 words.
Schedule == {w \in Seq(AesWord) : Len(w) = 44}

\* The first n blocks of a chain.
ChainOf(w, iv, plain, n) == Joined([b \in 1..n |-> CipherBlock(w, iv, plain, b)], n)

\* All bytes of the counter behind place i are 255: the next step carries.
Overflows(c, i) == \A j \in (i + 1)..16 : c[j] = 255

\* The cipher of the code behind p bytes: a block of the key stream in use,
\* or none, and the counter of the next one.
CtrState(w, iv, p) ==
    {a \in [ready : {TRUE}, round_keys : {w}, iv : {iv}, counter : Block,
            keystream : Seq(Byte), pos : 0..16] :
       IF p % 16 = 0 THEN a.pos = 16 /\ a.counter = CounterAt(iv, p \div 16)
       ELSE /\ a.pos = p % 16 /\ a.counter = CounterAt(iv, (p \div 16) + 1)
            /\ a.keystream = EncryptBlock(w, CounterAt(iv, p \div 16))}

\* How far the counter of the receiver is.
Consumed(j, n) == IF j.mode = "CBC" THEN 0 ELSE Len(Joined(j.packets, n))

\* The receiver has the keys, its counter is where the sender's was, and the
\* packet that came last is as it was.
AudioInv ==
  job.kind = "audio" =>
    /\ WellFormedAudio(job)
    /\ bytes = [i \in DOMAIN job.packets |-> Packet(job, i)]
    /\ sent \in Nat
    /\ job.mode = "CTR" => sent <= Len(job.packets)
    /\ rx \in [cbc_ready : {job.mode = "CBC"}, cbc_iv : {job.iv},
               cbc_keys : {KeyExpansion(job.key)},
               aes : CtrState(KeyExpansion(job.key), job.iv, Consumed(job, sent)),
               last : Nat, out : Seq(Byte)]
    /\ rx.last # 0 => rx.out = job.packets[rx.last]

-----------------------------------------------------------------------------
(* The digest. *)

\* The hash behind k bytes of m: whole blocks in its state, the rest in its
\* buffer.
ShaAt(m, k, n) ==
    [state : {ChainState(m, k \div 128)}, buffer : {SubSeq(m, 128 * (k \div 128) + 1, k)},
     bits : {n}]

\* n elements behind the first k.
Span(s, k, n) == SubSeq(s, k + 1, k + n)

\* The hash inside update(): of what is behind k and in front of `at'.
Fed(t, m, k, N) == t.sha \in ShaAt(m, k + t.at, N)

\* All blocks are whole.
OnBlock(t, k) == (k + t.at) % 128 = 0

\* From t to u a block was filled, or the n bytes are all in.
Moved(t, u, k, n) ==
    /\ u.at = n \/ (u.at > t.at /\ OnBlock(u, k))
    /\ OnBlock(t, k) /\ u.at # n => u.at = t.at + 128

\* A message with its mark, n zeros and what is behind them.
Filled(m, n, lb) == ((m \o <<128>>) \o Zeros(n)) \o lb

\* Where its bytes are, when m is l bytes long.
PaddedFrom(p, m, l, n, lb) ==
    /\ p \in Seq(Nat)
    /\ Len(p) = ((l + 1) + n) + Len(lb)
    /\ \A i \in 1..l : p[i] = m[i]
    /\ p[l + 1] = 128
    /\ \A i \in 1..n : p[(l + 1) + i] = 0
    /\ \A i \in 1..Len(lb) : p[((l + 1) + n) + i] = lb[i]

\* The hash has taken what was given to it.
HashInv ==
  job.kind = "digest" =>
    /\ job.message \in Seq(Nat) /\ job.pieces \subseteq Nat
    /\ sent \in Nat /\ sent <= Len(job.message)
    /\ rx \in ShaAt(job.message, sent, 8 * sent)

-----------------------------------------------------------------------------
(* Pieces of a sequence. *)

\* t is in s, behind its first k elements.
Lies(s, k, t) ==
    /\ k \in Nat /\ k + Len(t) <= Len(s)
    /\ \A h \in 1..Len(t) : s[k + h] = t[h]

-----------------------------------------------------------------------------
(* The frames of the screen. *)

\* How much of the stream of counter mode the first n frames take.
MaskedFirst(fs, n) ==
    Iterate(LAMBDA m, k : m + (IF fs[k].type = 0 THEN Len(Plain(fs[k])) ELSE 0), 0, n)

\* What four bytes hold, the number out of the provers' sight.
Word32(n) == n < 4294967296

\* What stands behind four bytes.
Past32(r) == 4294967296 * r

\* b has four bytes of n from byte e on, and r is left.
FourOf(b, n, e, r) ==
    /\ r = Shifted(n, e + 4)
    /\ b[1] = Shifted(n, e) % 256 /\ b[2] = Shifted(n, e + 1) % 256
    /\ b[3] = Shifted(n, e + 2) % 256 /\ b[4] = Shifted(n, e + 3) % 256

\* The record of two parameter sets.
SetsText(n1, n2) ==
    <<1, 100, 0, 32, 255, 225>> \o Unit(n1, 2) \o <<1>> \o Unit(n2, 2)

\* Its length is at least 1 and has two bytes.
Short(nal) == nal # <<>> /\ Len(nal) < 65536

\* A NAL unit with its length lies behind o, and ends at e.
UnitAt(plain, o, nal, e) ==
    /\ nal # <<>> /\ Word32(Len(nal))
    /\ Lies(plain, o, Unit(nal, 4)) /\ e = (o + 4) + Len(nal)

\* The NAL units of frames, each behind its length.
Units(nals) == [i \in DOMAIN nals |-> Unit(nals[i], 4)]

\* A frame called back.
CallBacks(codec) ==
    [codec : {codec}, pts_us : Nat, annex_b : Seq(Byte), is_key : BOOLEAN]

\* A frame called back and its time, counted from the first picture.
Told(f, sentFrame, base, first) ==
    /\ FrameAgrees(f, sentFrame)
    /\ sentFrame.type = 0 => f.pts_us = base + ((sentFrame.ntp - first) \div 1000)

\* Number q of the frames shown is the first picture.
FirstPicture(fs, s, q, first) ==
    /\ fs[s[q]].type = 0 /\ fs[s[q]].ntp = first
    /\ \A m \in 1..(q - 1) : fs[s[m]].type # 0

\* After n frames.
Seen(j, n, frames, base, first) ==
    LET s == Shown(j.frames, n)
    IN  /\ s \in Seq(1..n) /\ frames \in Seq(CallBacks(j.codec)) /\ Len(frames) = Len(s)
        /\ base \in Nat /\ first \in Nat
        /\ \A k \in 1..Len(s) : Told(frames[k], j.frames[s[k]], base, first)
        /\ base = 0 => \A k \in 1..Len(s) : j.frames[s[k]].type # 0
        /\ base # 0 => \E q \in 1..Len(s) : FirstPicture(j.frames, s, q, first)

\* The receiver behind n frames, whatever has arrived of the next.
PushRx(j, n) ==
    [open : BOOLEAN, hdr : Seq(Byte), payload : Seq(Byte), codec : {j.codec},
     aes : CtrState(KeyExpansion(j.key), j.iv, MaskedFirst(j.frames, n)),
     base_clk : Nat, first_ntp : Nat, frames : Seq(CallBacks(j.codec))]

\* It has seen n frames.
Behind(j, n, r) ==
    r \in PushRx(j, n) /\ Seen(j, n, r.frames, r.base_clk, r.first_ntp)

\* The call back of parameter sets.
SetsBack(r, nals, time) == CallBack(r, nals, time, FALSE)

\* The receiver with another state of its cipher.
WithCtr(r, a) == [r EXCEPT !.aes = a]

\* The header of frame i.
Header(j, i) == FrameHeader(j.frames[i], Len(Plain(j.frames[i])))

\* What has arrived of frame i: its first `at' bytes.
Cut(j, i, at, r) ==
    \/ at = 0 /\ r.hdr = <<>> /\ r.payload = <<>>
    \/ /\ i \in 1..Len(j.frames) /\ at < HeaderLen
       /\ r.hdr = SubSeq(Header(j, i), 1, at) /\ r.payload = <<>>
    \/ /\ i \in 1..Len(j.frames) /\ at >= HeaderLen /\ at - HeaderLen < Len(Payload(j, i))
       /\ r.hdr = Header(j, i) /\ r.payload = SubSeq(Payload(j, i), 1, at - HeaderLen)

\* A cut in frame i, or frame i is complete.
Reached(j, i, at, x) ==
    IF at < Len(FrameBytes(j, i)) THEN Behind(j, i - 1, x) /\ Cut(j, i, at, x)
    ELSE Behind(j, i, x) /\ Cut(j, i + 1, 0, x)

\* The receiver with another header, payload or connection.
SetHdr(r, v)     == [r EXCEPT !.hdr = v]
SetPayload(r, v) == [r EXCEPT !.payload = v]
SetOpen(r, v)    == [r EXCEPT !.open = v]

\* m1 elements of t and those of b from y to e are m2 elements of t.
Grown(t, m1, b, y, e, m2) == SubSeq(t, 1, m1) \o SubSeq(b, y, e) = SubSeq(t, 1, m2)

\* No byte of the payload has arrived.
NoPayload(r) == r.payload = <<>>

\* What a piece, from y to e of frame i, makes of r.
Goes(j, i, r, x, now, h, m, b, y, e) == Reached(j, i, e, x) /\ x.open = r.open

\* Between the frames that are complete and the one in work, or without a
\* connection and in front of it.
PushInv ==
  job.kind = "push" =>
    /\ WellFormedScreen(job)
    /\ bytes = [i \in DOMAIN job.frames |-> FrameBytes(job, i)]
    /\ sent \in [frame : 1..(Len(job.frames) + 1), at : Nat, hangups : Nat]
    /\ Behind(job, sent.frame - 1, rx)
    /\ Cut(job, sent.frame, sent.at, rx)
    /\ rx.open \/ sent.at = 0

-----------------------------------------------------------------------------
(* The text of a request. *)

\* What the parser looks into.
Token == STRING \cup {"CR", "LF", "SP", ":"}

\* seg is what is behind a, up to n.
SegOf(T, a, n, seg) ==
    /\ a \in Nat /\ n \in Nat /\ a < n /\ n <= Len(T) /\ seg = SubSeq(T, a + 1, n)

\* Two pieces are the same.
SamePiece(seg, x, m, T, y, k) == SubSeq(seg, x, m) = SubSeq(T, y, k)

\* w is at s and ends at a stop.
WordEnds(T, s, w, stops) ==
    /\ Lies(T, s, w) /\ s + Len(w) + 1 <= Len(T) /\ T[s + Len(w) + 1] \in stops
    /\ \A i \in 1..Len(w) : w[i] \notin stops

\* What a search from `at' on has found: the segment or the word ends at e.
Scanned(T, a, n, seg, at, s, w, k, stops, e) ==
    /\ e \in Nat /\ at <= e
    /\ \/ /\ e = Len(seg) + 1 /\ e > Len(seg) /\ at < e /\ n <= s + Len(w)
          /\ SubSeq(w, 1, k) \o SubSeq(seg, at, e - 1) = SubSeq(w, 1, n - s)
       \/ /\ e <= Len(seg) /\ a + e = s + Len(w) + 1 /\ seg[e] = T[s + Len(w) + 1]
          /\ seg[e] \in stops
          /\ SubSeq(w, 1, k) \o SubSeq(seg, at, e - 1) = w

\* A line end, a space, and what is behind the name of a header.
CrLf  == <<"CR", "LF">>
Space == <<"SP">>
Colon == <<":", "SP">>

\* A word with the token behind it, and one that ends a line.
EndsWith(T, s, w, c) ==
    /\ Lies(T, s, w) /\ s + Len(w) + 1 <= Len(T) /\ T[s + Len(w) + 1] = c

\* A word that ends a line.
EndsLine(T, s, w) ==
    /\ EndsWith(T, s, w, "CR") /\ s + Len(w) + 2 <= Len(T) /\ T[s + Len(w) + 2] = "LF"

\* c is a and then b, from k, n and up to m.
Both(T, a, b, c, k, n, m) ==
    /\ c \in Seq(Token) /\ k + Len(c) = m
    /\ Lies(T, k, c) => Lies(T, k, a) /\ Lies(T, n, b)

\* The first line is from k to sh.
FirstLineIn(T, r, k, su, sv, sh) ==
    /\ RequestLine(r) \in Seq(Token) /\ k + Len(RequestLine(r)) = sh
    /\ EndsWith(T, k, r.method, "SP") /\ EndsWith(T, su, r.uri, "SP")
    /\ EndsLine(T, sv, r.protocol)

\* z, which is n more than y, is d more than x.
Apart(x, y, n, z, d) == z = x + d

\* What stands behind a text.
OneAt(T, k, c, i, x) == x <= Len(T) /\ T[x] = c[i]

\* The line of header h is from k to sh, its words m and v from k to k1 and from k2 to k3.
HeaderIn(T, h, m, v, k, k1, sv, k2, k3, sh) ==
    /\ HeaderLine(h) \in Seq(Token) /\ k + Len(HeaderLine(h)) = sh
    /\ EndsWith(T, k, m, ":") /\ EndsLine(T, sv, Space \o v)
    /\ Space \o v \in Seq(Token) /\ Len(Space \o v) = Len(v) + 1

\* Chunk c is from k to se, its words m and v from k to k1 and from sd to k3.
ChunkIn(T, c, m, v, k, k1, sd, k3, se) ==
    /\ Chunk(c) \in Seq(Token) /\ k + Len(Chunk(c)) = se
    /\ EndsLine(T, k, m) /\ EndsLine(T, sd, v)

\* h, part i of what is joined behind R, is from x to y.
PartIn(R, parts, n, i, x, y, h) ==
    x \in Nat /\ y = x + Len(h) /\ Lies(R \o Joined(parts, n), x, h)

\* Where header i is, where chunk i is, and where the headers end.
LineAt(r, i)  == Len(RequestLine(r)) + Len(HeaderLines(r, i - 1))
ChunkAt(r, i) == Len(HeadText(r)) + Len(Chunks(r, i - 1))
HeadEnd(r)    == Len(HeadText(r))

-----------------------------------------------------------------------------
(* How far the parser is in a request. *)

\* Where the lines and the chunks of r are in its text, and where its body is.
TextFound(r, T) ==
    /\ T \in Seq(Token) /\ HeadEnd(r) \in Nat
    /\ Lies(T, 0, RequestLine(r)) /\ LineAt(r, 1) = Len(RequestLine(r))
    /\ \A i \in 1..Len(r.headers) :
         /\ LineAt(r, i) \in Nat /\ Lies(T, LineAt(r, i), HeaderLine(r.headers[i]))
         /\ LineAt(r, i + 1) = LineAt(r, i) + Len(HeaderLine(r.headers[i]))
    /\ LineAt(r, Len(r.headers) + 1) \in Nat
    /\ Lies(T, LineAt(r, Len(r.headers) + 1), CrLf)
    /\ HeadEnd(r) = LineAt(r, Len(r.headers) + 1) + 2
    /\ r.chunks = <<>> => Lies(T, HeadEnd(r), r.body) /\ Len(T) = HeadEnd(r) + Len(r.body)
    /\ r.chunks # <<>> =>
         /\ ChunkAt(r, 1) = HeadEnd(r) /\ Len(T) = ChunkAt(r, Len(r.chunks) + 1)
         /\ \A i \in 1..Len(r.chunks) :
              /\ ChunkAt(r, i) \in Nat /\ Lies(T, ChunkAt(r, i), Chunk(r.chunks[i]))
              /\ ChunkAt(r, i + 1) = ChunkAt(r, i) + Len(Chunk(r.chunks[i]))

\* The parser in one state; whether it waits for the LF of a CR is left open.
Stage(state, R, expected, left, name, line) ==
    [state : {state}, req : R, body_expected : {expected}, chunk_left : {left},
     skip_next_lf : BOOLEAN, cur_header_name : {name}, line_buffer : {line}]

\* A request of which these parts are there.
Part(method, uri, protocol, headers, body) ==
    [method : {method}, uri : {uri}, protocol : {protocol}, headers : {headers}, body : {body}]

\* The names of the first i headers, and the headers when they are there.
NamesOf(r, i) == {r.headers[m].name : m \in 1..i}
Hdrs(r, i)    == [h \in NamesOf(r, i) |-> Understood(r).headers[h]]

\* How many tokens stand before the parts of a request.
UriAt(r)      == Len(r.method) + 1
ProtoAt(r)    == UriAt(r) + Len(r.uri) + 1
ValueAt(r, i) == LineAt(r, i) + Len(r.headers[i].name) + 1
DataAt(r, i)  == ChunkAt(r, i) + Len(r.chunks[i].size) + 2

\* Where the words of the request line end.
FirstLineLaid(r, T) ==
    /\ UriAt(r) \in Nat /\ ProtoAt(r) \in Nat
    /\ EndsWith(T, 0, r.method, "SP") /\ EndsWith(T, UriAt(r), r.uri, "SP")
    /\ EndsLine(T, ProtoAt(r), r.protocol)
    /\ LineAt(r, 1) \in Nat /\ LineAt(r, 1) = ProtoAt(r) + Len(r.protocol) + 2

\* Where header i is in the text.
HeaderLaid(r, T, i) ==
    /\ LineAt(r, i) \in Nat /\ ValueAt(r, i) \in Nat /\ LineAt(r, i + 1) \in Nat
    /\ EndsWith(T, LineAt(r, i), r.headers[i].name, ":")
    /\ EndsLine(T, ValueAt(r, i), Space \o r.headers[i].value)
    /\ LineAt(r, i + 1) = ValueAt(r, i) + Len(Space \o r.headers[i].value) + 2

\* Where the empty line behind the headers is.
LastLineLaid(r, T) ==
    /\ LineAt(r, Len(r.headers) + 1) \in Nat /\ HeadEnd(r) \in Nat
    /\ EndsLine(T, LineAt(r, Len(r.headers) + 1), <<>>)
    /\ HeadEnd(r) = LineAt(r, Len(r.headers) + 1) + 2

\* Where the body is.
BodyLaid(r, T) ==
    r.chunks = <<>> => Lies(T, HeadEnd(r), r.body) /\ Len(T) = HeadEnd(r) + Len(r.body)

\* Where chunk i is.
ChunkLaid(r, T, i) ==
    /\ ChunkAt(r, i) \in Nat /\ DataAt(r, i) \in Nat /\ ChunkAt(r, i + 1) \in Nat
    /\ EndsLine(T, ChunkAt(r, i), r.chunks[i].size)
    /\ EndsLine(T, DataAt(r, i), r.chunks[i].data)
    /\ ChunkAt(r, i + 1) = DataAt(r, i) + Len(r.chunks[i].data) + 2

\* Where the chunks are, and the trailer behind them.
ChunksLaid(r, T) ==
    r.chunks # <<>> =>
      /\ ChunkAt(r, 1) = HeadEnd(r) /\ Len(T) = ChunkAt(r, Len(r.chunks) + 1)
      /\ \A i \in 1..Len(r.chunks) : ChunkLaid(r, T, i)

\* The whole text.
Laid(r, T) ==
    /\ T \in Seq(Token) /\ Len(T) \in Nat
    /\ FirstLineLaid(r, T)
    /\ \A i \in 1..Len(r.headers) : HeaderLaid(r, T, i)
    /\ LastLineLaid(r, T)
    /\ BodyLaid(r, T) /\ ChunksLaid(r, T)

\* The parser in a state before the body.
Reading(state, R, name, line) == Stage(state, R, 0, 0, name, line)

\* K tokens are read, the last of them the first of word w at s.
InWord(p, K, state, R, name, s, w) ==
    \E k \in Nat : k <= Len(w) /\ K = s + k
                   /\ p \in Reading(state, R, name, SubSeq(w, 1, k))

\* What is there of the request in the first line, behind i headers, and with
\* a piece of the body.
NoPart(r)     == Part(<<>>, <<>>, <<>>, Http!NoHeaders, <<>>)
MethodPart(r) == Part(r.method, <<>>, <<>>, Http!NoHeaders, <<>>)
UriPart(r)    == Part(r.method, r.uri, <<>>, Http!NoHeaders, <<>>)
HeadPart(r, i) == Part(r.method, r.uri, r.protocol, Hdrs(r, i), <<>>)
BodyPart(r, b) == Part(r.method, r.uri, r.protocol, Hdrs(r, Len(r.headers)), b)

\* In the words of the request line.
InMethod(r, K, p) == InWord(p, K, "S_METHOD", NoPart(r), <<>>, 0, r.method)
InUri(r, K, p)    == InWord(p, K, "S_URI", MethodPart(r), <<>>, UriAt(r), r.uri)
InProto(r, K, p)  == InWord(p, K, "S_PROTO", UriPart(r), <<>>, ProtoAt(r), r.protocol)

\* In the name of header i.
InName(r, i, K, p) ==
    InWord(p, K, "S_HEADER_NAME", HeadPart(r, i - 1), <<>>, LineAt(r, i), r.headers[i].name)

\* In its value, the space before it included.
InValue(r, i, K, p) ==
    InWord(p, K, "S_HEADER_VALUE", HeadPart(r, i - 1), r.headers[i].name, ValueAt(r, i),
           Space \o r.headers[i].value)

\* In the empty line behind the headers.
InLastLine(r, K, p) ==
    InWord(p, K, "S_HEADER_NAME", HeadPart(r, Len(r.headers)), <<>>,
           LineAt(r, Len(r.headers) + 1), <<>>)

\* Behind the headers, before the turn that takes no token.
AtHeadersDone(r, K, p) ==
    /\ K = HeadEnd(r)
    /\ p \in Reading("S_HEADERS_DONE", HeadPart(r, Len(r.headers)), <<>>, <<>>)

\* What the headers name as the length of the body.
Expected(r) == Http!ContentLength(Understood(r))

\* The parser in a state behind the headers, with b of the body.
Framed(state, r, b, line) == Stage(state, BodyPart(r, b), Expected(r), 0, <<>>, line)

\* In a body that is not chunked.
InBody(r, K, p) ==
    /\ r.chunks = <<>>
    /\ \E k \in Nat : k < Len(r.body) /\ K = HeadEnd(r) + k
          /\ p \in Framed("S_BODY", r, SubSeq(r.body, 1, k), <<>>)

\* The parser in the data of a chunk, of which `left' are to come.
Filling(r, b, left) == Stage("S_CHUNK_DATA", BodyPart(r, b), Expected(r), left, <<>>, <<>>)

\* The data of the first i chunks.
Data(r, i) == Joined([m \in DOMAIN r.chunks |-> r.chunks[m].data], i)

\* In front of the line of a chunk's size.
AtSize(r, i, K, p) ==
    /\ K = ChunkAt(r, i)
    /\ p \in Framed("S_CHUNK_SIZE", r, Data(r, i - 1), <<>>)

\* At the LF of that line.
AtSizeLf(r, i, K, p) ==
    /\ K + 1 = DataAt(r, i)
    /\ p \in Framed("S_CHUNK_SIZE_CR", r, Data(r, i - 1), r.chunks[i].size)

\* In the data of chunk i.
InData(r, i, K, p) ==
    \E k \in Nat, l \in Nat :
       /\ k + l = Len(r.chunks[i].data) /\ l # 0 /\ K = DataAt(r, i) + k
       /\ p \in Filling(r, Data(r, i - 1) \o SubSeq(r.chunks[i].data, 1, k), l)

\* At the CR behind them.
AtDataCr(r, i, K, p) ==
    /\ K = DataAt(r, i) + Len(r.chunks[i].data) /\ r.chunks[i].data # <<>>
    /\ p \in Framed("S_CHUNK_DATA_CR", r, Data(r, i), <<>>)

\* At the LF behind them.
AtDataLf(r, i, K, p) ==
    /\ K + 1 = ChunkAt(r, i + 1) /\ r.chunks[i].data # <<>>
    /\ p \in Framed("S_CHUNK_DATA_LF", r, Data(r, i), <<>>)

\* Somewhere in chunk i.
InChunk(r, i, K, p) ==
    AtSize(r, i, K, p) \/ AtSizeLf(r, i, K, p) \/ InData(r, i, K, p)
    \/ AtDataCr(r, i, K, p) \/ AtDataLf(r, i, K, p)

\* In front of the empty trailer.
AtTrailer(r, T, K, p) ==
    /\ r.chunks # <<>> /\ K + 2 = Len(T)
    /\ p \in Framed("S_CHUNK_TRAILER", r, r.body, <<>>)

\* At the end, with the whole request.
AtEnd(r, T, K, p) ==
    /\ K = Len(T) /\ ~p.skip_next_lf
    /\ p \in Framed("S_COMPLETE", r, r.body, <<>>)

\* Of request r, whose text is T, the parser has read the first K tokens.
Reads(r, T, K, p) ==
    \/ InMethod(r, K, p) \/ InUri(r, K, p) \/ InProto(r, K, p)
    \/ \E i \in 1..Len(r.headers) : InName(r, i, K, p) \/ InValue(r, i, K, p)
    \/ InLastLine(r, K, p) \/ AtHeadersDone(r, K, p)
    \/ InBody(r, K, p)
    \/ r.chunks # <<>> /\ \E i \in 1..Len(r.chunks) : InChunk(r, i, K, p)
    \/ AtTrailer(r, T, K, p)
    \/ AtEnd(r, T, K, p)

-----------------------------------------------------------------------------
(* The turns of the parser. *)

\* What a turn u is about: request r, its text T, of which a are read and n are here.
About(r, T, a, n, seg) ==
    WellFormedRequest(r) /\ T = RequestText(r) /\ SegOf(T, a, n, seg) /\ n \notin Fragile(r)

\* What follows about a request of which a segment is there.
Known(r, T, a, n, seg) ==
    /\ T \in Seq(Token) /\ Len(T) \in Nat /\ seg \in Seq(Token) /\ Len(seg) \in Nat
    /\ a \in Nat /\ n \in Nat /\ a < n /\ n <= Len(T) /\ Len(seg) = n - a
    /\ SegOf(T, a, n, seg) /\ \A i \in 1..Len(seg) : seg[i] = T[a + i]
    /\ WellFormedRequest(r) /\ Laid(r, T) /\ n \notin Fragile(r) /\ T = RequestText(r)

\* K is where u stands in the text; it is one further than the segment when the
\* LF of a line end is still to come.
Stands(T, a, n, seg, K, u) ==
    /\ u.at \in Nat /\ 1 <= u.at /\ u.at <= Len(seg) + 1
    /\ u.p.skip_next_lf = FALSE => K = a + u.at - 1
    /\ u.p.skip_next_lf # FALSE => u.at = Len(seg) + 1 /\ K = n + 1 /\ K <= Len(T) /\ T[K] = "LF"

\* The states before the body.
Early == {"S_METHOD", "S_URI", "S_PROTO", "S_HEADER_NAME", "S_HEADER_VALUE", "S_HEADERS_DONE"}

\* A turn from u to v is one forward.
Turned(r, T, a, n, seg, u, v) ==
    /\ \E K \in Nat : Reads(r, T, K, v.p) /\ Stands(T, a, n, seg, K, v)
    /\ u.p.state # "S_HEADERS_DONE" => u.at < v.at
    /\ u.p.state = "S_HEADERS_DONE" => u.at = v.at /\ v.p.state \notin Early
    /\ u.p.state \notin Early => v.p.state \notin Early
    /\ v.left => v.at = Len(seg) + 1 /\ v.p.state # "S_HEADERS_DONE" /\ v.p.state # "S_COMPLETE"
    /\ v.left \in BOOLEAN

\* What was read of a word in a turn of the loop: all that is here, or all of it.
WordRead(T, a, n, seg, u, s, w, e, word) ==
    /\ u.p.skip_next_lf = FALSE /\ e \in Nat /\ u.at <= e
    /\ \/ /\ e = Len(seg) + 1 /\ e > Len(seg) /\ u.at < e /\ s <= n /\ n <= s + Len(w)
          /\ word = SubSeq(w, 1, n - s)
       \/ /\ e <= Len(seg) /\ a + e = s + Len(w) + 1 /\ seg[e] = T[s + Len(w) + 1] /\ word = w

\* What a turn leaves when the segment ends in a word.
CutShort(p, word, e) == Http!Leave([p EXCEPT !.line_buffer = word], e)

\* What is left of a word that the segment cut.
WordKept(T, a, n, seg, u, state, R, c, s, w, v) ==
    /\ n \in Nat /\ InWord(v.p, n, state, R, c, s, w) /\ Stands(T, a, n, seg, n, v)
    /\ v.left = TRUE /\ v.at = Len(seg) + 1 /\ u.at < v.at
    /\ v.p.state = state /\ u.p.state = state

\* The line end at e is passed.
LineLeft(T, a, n, seg, K, e, v) ==
    Stands(T, a, n, seg, K, v) /\ v.left = FALSE /\ e < v.at /\ v.at \in Nat

\* What ends a word of the request line, and the name of a header.
FirstStops == {"SP"} \cup Http!LineEnds
NameStops  == {":"} \cup Http!LineEnds

\* What the parser is when it has read the method, the URI and the protocol.
WithMethod(p, z)   == [[p EXCEPT !.line_buffer = <<>>] EXCEPT !.req.method = z, !.state = "S_URI"]
WithUri(p, z)      == [[p EXCEPT !.line_buffer = <<>>] EXCEPT !.req.uri = z, !.state = "S_PROTO"]
WithProtocol(p, z) == [[p EXCEPT !.line_buffer = <<>>] EXCEPT !.req.protocol = z,
                                                             !.state = "S_HEADER_NAME"]

\* One turn in the first line.
FirstLineGoes(p, seg, e, word, v) ==
    /\ e > Len(seg) => v = CutShort(p, word, e)
    /\ e <= Len(seg) /\ seg[e] = "SP" /\ p.state = "S_METHOD" =>
          v = Http!Go(WithMethod(p, word), e + 1)
    /\ e <= Len(seg) /\ seg[e] = "SP" /\ p.state = "S_URI" =>
          v = Http!Go(WithUri(p, word), e + 1)
    /\ e <= Len(seg) /\ seg[e] = "CR" /\ p.state = "S_PROTO" =>
          v = Http!PastLineEnd(WithProtocol(p, word), seg, e)

\* What the parser is when it has read a name, the line that ends the headers, and a value.
WithName(p, z) == [[p EXCEPT !.line_buffer = <<>>] EXCEPT !.cur_header_name = Http!Trim(z),
                                                         !.state = "S_HEADER_VALUE"]
WithLine(p)    == [[p EXCEPT !.line_buffer = <<>>] EXCEPT !.state = "S_HEADERS_DONE"]
WithValue(p, z) ==
    [p EXCEPT !.req = IF p.cur_header_name = <<>> THEN @
                      ELSE Http!SetHeader(@, p.cur_header_name, Http!Trim(z)),
              !.line_buffer = <<>>, !.cur_header_name = <<>>, !.state = "S_HEADER_NAME"]

\* The parser q after p has taken value x of header i.
ValueTaken(r, i, n, x, p, w, z, q) ==
    /\ q \in Reading("S_HEADER_NAME", HeadPart(r, i), <<>>, <<>>)
    /\ q.skip_next_lf = p.skip_next_lf

\* One turn in a line of the headers, before and behind its colon.
NameGoes(p, seg, e, word, v) ==
    /\ e > Len(seg) => v = CutShort(p, word, e)
    /\ e <= Len(seg) /\ seg[e] = ":" => v = Http!Go(WithName(p, word), e + 1)
    /\ e <= Len(seg) /\ seg[e] = "CR" => v = Http!PastLineEnd(WithLine(p), seg, e)

\* Where a turn in a value leads.
ValueGoes(p, seg, e, word, v) ==
    /\ e > Len(seg) => v = CutShort(p, word, e)
    /\ e <= Len(seg) => v = Http!PastLineEnd(WithValue(p, word), seg, e)

\* A turn takes what is here of t, of which m are read and l to come.
Taken(T, a, n, seg, at, s, t, m, l, take) ==
    /\ take \in Nat /\ 1 <= take /\ take <= l /\ at + take <= Len(seg) + 1
    /\ take = l \/ at + take = Len(seg) + 1
    /\ SubSeq(t, 1, m) \o SubSeq(seg, at, at + take - 1) = SubSeq(t, 1, m + take)

\* What the parser becomes when the headers are done.
Unframed(p, x, chunked, z) ==
    [p EXCEPT !.body_expected = x, !.line_buffer = IF chunked THEN <<>> ELSE @,
              !.chunk_left = IF chunked THEN 0 ELSE @, !.state = z]

\* A turn that has a token to read stands before it.
Here(T, a, n, seg, K, u, at) ==
    at \in Nat /\ 1 <= at /\ u.p.skip_next_lf = FALSE /\ K = a + at - 1 /\ K + 1 = a + at

\* What has come of a body, or of the data of a chunk.
WithBody(p, b) ==
    [p EXCEPT !.req.body = b,
              !.state = IF Len(b) = p.body_expected THEN "S_COMPLETE" ELSE @]

\* Where a turn in the body leads.
BodyGone(p, seg, at, take, b, v) == v = Http!Go(WithBody(p, b), at + take)

\* What the parser is when it has read the line of a size, and what it stands for.
WithSize(p, line) == [p EXCEPT !.line_buffer = line, !.state = "S_CHUNK_SIZE_CR"]
WithLength(p, k) ==
    [p EXCEPT !.line_buffer = <<>>, !.chunk_left = k,
              !.state = IF k = 0 THEN "S_CHUNK_TRAILER" ELSE "S_CHUNK_DATA"]
WithState(p, z)    == [p EXCEPT !.state = z]
WithNextChunk(p)   == [p EXCEPT !.state = "S_CHUNK_SIZE", !.line_buffer = <<>>]

\* What is done with the line of a size when it is complete.
SizeTaken(p, line, at, k, v) == v = Http!Go(WithLength(p, k), at)

\* What the parser is behind `take' more of the data of a chunk.
WithData(p, b, k, z) == [p EXCEPT !.req.body = b, !.chunk_left = k, !.state = z]

\* Where a turn in the data of a chunk leads.
DataGone(p, seg, at, take, b, k, z, v) == v = Http!Go(WithData(p, b, k, z), at + take)

\* The empty line behind the chunks.
WithEnd(p) == [p EXCEPT !.line_buffer = <<>>, !.state = "S_COMPLETE"]

\* Where a turn at the trailer leads.
TrailerGone(p, seg, at, v) == v = Http!Go(WithEnd(p), at + 2)

\* A turn of the loop is one of a parser that reads request r.
OnItsWay(r, T, a, n, seg, t) ==
    /\ \E K \in Nat : Reads(r, T, K, t.p) /\ Stands(T, a, n, seg, K, t)
    /\ t.left \in BOOLEAN
    /\ t.left => t.at = Len(seg) + 1 /\ t.p.state # "S_HEADERS_DONE" /\ t.p.state # "S_COMPLETE"

\* By turn i the loop has come as far as token i, or has ended.
Farther(seg, t, i) ==
    \/ Http!Ended(t, seg)
    \/ t.at >= i + 1
    \/ t.p.state \notin Early /\ t.at >= i

\* The note of an LF is taken off, and nothing else changes.
Unnoted(p) == [p EXCEPT !.skip_next_lf = FALSE]

\* Between two segments the parser has read the first n tokens, and knows of
\* an LF that comes next.
Between(r, T, n, p) ==
    \E K \in Nat :
       /\ Reads(r, T, K, p) /\ p.state # "S_COMPLETE" /\ p.state # "S_HEADERS_DONE"
       /\ p.skip_next_lf = FALSE => K = n
       /\ p.skip_next_lf # FALSE => K = n + 1 /\ K <= Len(T) /\ T[K] = "LF"

\* What a segment leaves: the request is complete and the parser holds it, or
\* neither.
Parsed(r, T, n, p) ==
    \/ n = Len(T) /\ p \in Framed("S_COMPLETE", r, r.body, <<>>)
    \/ n # Len(T) /\ p.state # "S_ERROR" /\ Between(r, T, n, p)

\* The worker has answered the requests that are complete, and its parser is
\* somewhere in the one that is on its way.
HttpInv ==
  job.kind = "http" =>
    /\ DOMAIN job.requests = 1..Len(job.requests)
    /\ \A i \in DOMAIN job.requests : WellFormedRequest(job.requests[i])
    /\ bytes = [i \in DOMAIN job.requests |-> RequestText(job.requests[i])]
    /\ sent \in [request : 1..(Len(job.requests) + 1), at : Nat]
    /\ DOMAIN rx = {"parser", "answered", "closed"}
    /\ ~rx.closed
    /\ rx = [parser |-> rx.parser, answered |-> rx.answered, closed |-> FALSE]
    /\ rx.answered = [i \in 1..(sent.request - 1) |-> Understood(job.requests[i])]
    /\ sent.request <= Len(job.requests) =>
          Between(job.requests[sent.request], RequestText(job.requests[sent.request]),
                  sent.at, rx.parser)

\* What the connection is when it has got to the end of a request or of a
\* segment within one.
Held(p, answered) == [parser |-> p, answered |-> answered, closed |-> FALSE]

=============================================================================
