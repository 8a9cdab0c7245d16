--------------------------------- MODULE Dns ---------------------------------
(***************************************************************************)
(* The packets of service discovery, byte for byte: what the publisher     *)
(* announces and which questions it answers (mdns_publisher.cpp), what the *)
(* browser asks and what it reads from an answer (mdns_browser.cpp).       *)
(*                                                                         *)
(* A text is a sequence of bytes.  The words that the code looks for are   *)
(* one letter long here, and the values of _raop that no one reads are one *)
(* letter; an address is its four bytes; the keys of a TXT record are      *)
(* their places in the order of the map that holds them.                   *)
(***************************************************************************)
EXTENDS Integers, Sequences, SequencesExt

Dot    == 46
Airplay == <<97, Dot, 116>>          \* "_airplay._tcp"
Raop    == <<114, Dot, 116>>         \* "_raop._tcp"
Local   == <<108>>                   \* "local"
Target  == <<103, Dot>> \o Local     \* "target.local"
Under(type) == type \o <<Dot>> \o Local

PTR == 12
SRV == 33
TXT == 16
A   == 1
Flush == 32769
Ttl   == 4500

U16(v) == <<v \div 256, v % 256>>
Rd16(pkt, p) == 256 * pkt[p + 1] + pkt[p + 2]

Lower(text) == [i \in DOMAIN text |-> IF text[i] \in 65..90 THEN text[i] + 32 ELSE text[i]]
Find(text, part) == \E i \in 0..(Len(text) - Len(part)) :
                       SubSeq(text, i + 1, i + Len(part)) = part

\* The length of the first label of a dotted name, the name behind it.
LabelLen(name) ==
    LET dots == {i \in DOMAIN name : name[i] = Dot}
    IN  IF dots = {} THEN Len(name) ELSE Min(dots) - 1
Behind(name) == SubSeq(name, LabelLen(name) + 2, Len(name))

RECURSIVE AppendName(_), QueryName(_)
AppendName(name) ==
    LET n == LabelLen(name)
    IN  IF n = 0 \/ n > 63 THEN <<0>>
        ELSE <<n>> \o SubSeq(name, 1, n) \o AppendName(Behind(name))

QueryName(name) ==
    IF name = <<>> THEN <<0>>
    ELSE <<LabelLen(name)>> \o SubSeq(name, 1, LabelLen(name)) \o QueryName(Behind(name))

\* A name read at `offset', through at most `depth' labels and pointers:
\* the text and the bytes it takes there, 0 if it cannot be read.
RECURSIVE Follow(_, _, _, _, _)
Follow(pkt, offset, cur, depth, r) ==
    IF cur >= Len(pkt) \/ depth = 0 THEN [r EXCEPT !.consumed = 0]
    ELSE LET len == pkt[cur + 1]
             here(n) == [r EXCEPT !.consumed = IF @ = 0 THEN cur - offset + n ELSE @]
         IN  IF len = 0 THEN here(1)
             ELSE IF len >= 192 /\ cur + 1 < Len(pkt)
             THEN Follow(pkt, offset, 256 * (len % 64) + pkt[cur + 2], depth - 1, here(2))
             ELSE IF len >= 64 \/ cur + 1 + len > Len(pkt) THEN [r EXCEPT !.consumed = 0]
             ELSE Follow(pkt, offset, cur + 1 + len, depth - 1,
                         [r EXCEPT !.name = (IF @ = <<>> THEN @ ELSE Append(@, Dot))
                                            \o SubSeq(pkt, cur + 2, cur + 1 + len)])

NoName == [consumed |-> 0, name |-> <<>>]
ParseName(pkt, offset) == Follow(pkt, offset, offset, 16, NoName)
BrowserParseName(pkt, offset) == Follow(pkt, offset, offset, 20, NoName)

-----------------------------------------------------------------------------
(* The publisher. *)

\* Keys in the order of std::map.
Keys == <<"am", "ch", "cn", "da", "deviceid", "ek", "et", "features", "flags",
          "ft", "md", "model", "pi", "pk", "pw", "rhd", "rn", "sf", "sm", "sr",
          "srcvers", "ss", "sv", "tp", "txtvers", "vn", "vs", "vv">>
KeyByte(k) == CHOOSE i \in DOMAIN Keys : Keys[i] = k

TxtItem(k, value) ==
    LET s == <<KeyByte(k)>> \o (IF value = <<>> THEN <<>> ELSE <<61>> \o value)
        n == Min({Len(s), 255})
    IN  <<n>> \o SubSeq(s, 1, n)
TxtData(txt) == FlattenSeq([i \in DOMAIN Keys |->
                               IF Keys[i] \in DOMAIN txt
                               THEN TxtItem(Keys[i], txt[Keys[i]]) ELSE <<>>])

Record(name, type, class, ttl, data) ==
    AppendName(name) \o U16(type) \o U16(class) \o <<0, 0>> \o U16(ttl)
    \o U16(Len(data)) \o data

BuildServiceRecord(inst, type, port, txt, goodbye, ip) ==
    LET qname == inst \o <<Dot>> \o Under(type)
        ttl   == IF goodbye THEN 0 ELSE Ttl
    IN  <<0, 0, 132, 0, 0, 0, 0, 4, 0, 0, 0, 0>>
        \o Record(Under(type), PTR, 1, ttl, AppendName(qname))
        \o Record(qname, SRV, Flush, ttl,
                  <<0, 0, 0, 0>> \o U16(port) \o AppendName(Target))
        \o Record(qname, TXT, Flush, ttl, TxtData(txt))
        \o Record(Target, A, Flush, ttl, ip)

HexDigit(n) == IF n < 10 THEN 48 + n ELSE 55 + n
FormatFeatures(f) == <<48, 120>> \o [i \in 1..8 |-> HexDigit((f \div 16 ^ (8 - i)) % 16)]
FeaturesText(f)   == FormatFeatures(f) \o <<44, 48, 120, 48>>
Word(b)   == IF b THEN <<116>> ELSE <<102>>                \* "true", "false"
OrElse(model, default) == IF model = <<>> THEN default ELSE model

AirplayTxt(d) ==
    [deviceid |-> d.device_id, features |-> FeaturesText(d.features),
     model    |-> OrElse(d.model, IF d.supports_video THEN <<84, 86, 54>> ELSE <<65, 65, 49>>),
     srcvers  |-> <<50>>, vv |-> IF d.supports_video THEN <<50>> ELSE <<49>>,
     pk |-> d.public_key_b64, pi |-> d.device_id,
     pw |-> Word(d.requires_encryption), flags |-> <<52>>]

RaopTxt(d) ==
    [k \in {"cn", "da", "et", "vn", "tp", "sm", "ek", "rn", "md", "sr", "ss", "ch",
            "txtvers", "sf", "sv", "vs", "rhd"} |-> <<120>>]
    @@ [vv |-> <<50>>, pw |-> Word(d.requires_encryption),
        am |-> OrElse(d.model, <<84, 86, 51>>), ft |-> FeaturesText(d.features),
        pk |-> d.public_key_b64]

\* The two packets of an announcement, or of the goodbye.
Announcements(d, ip, goodbye) ==
    LET devid == SelectSeq(d.device_id, LAMBDA c : c # 58)
    IN  <<BuildServiceRecord(d.name, Airplay, d.port, AirplayTxt(d), goodbye, ip),
          BuildServiceRecord(devid \o <<64>> \o d.name, Raop, d.port, RaopTxt(d),
                             goodbye, ip)>>

\* Whether a datagram is answered: it asks for one of our names.
Interested(name) ==
    Find(Lower(name), Airplay) \/ Find(Lower(name), Raop) \/ Lower(name) = Target

RECURSIVE AsksForUs(_, _, _)
AsksForUs(pkt, p, questions) ==
    LET r    == ParseName(pkt, p)
        next == p + r.consumed + 4
    IN  /\ questions > 0
        /\ r.consumed # 0 /\ next <= Len(pkt)
        /\ Interested(r.name) \/ AsksForUs(pkt, next, questions - 1)

HandleQuery(pkt) ==
    /\ Len(pkt) >= 12
    /\ Rd16(pkt, 2) < 32768
    /\ AsksForUs(pkt, 12, Rd16(pkt, 4))

-----------------------------------------------------------------------------
(* The browser. *)

BuildQuery(type, id) ==
    U16(id) \o <<1, 0, 0, 1, 0, 0, 0, 0, 0, 0>> \o QueryName(Under(type))
    \o <<0, PTR, 0, 1>>

\* std::stoul with base 0, std::stoi: the number that a text starts with.
Digit(c) == IF c \in 48..57 THEN c - 48
            ELSE IF c \in 65..70 THEN c - 55 ELSE IF c \in 97..102 THEN c - 87 ELSE 99
RECURSIVE Leading(_, _, _)
Leading(text, base, n) ==
    IF text = <<>> \/ Digit(text[1]) >= base THEN n
    ELSE Leading(Tail(text), base, base * n + Digit(text[1]))
Stoul(text) ==
    IF Len(text) > 2 /\ text[1] = 48 /\ text[2] = 120
    THEN Leading(SubSeq(text, 3, Len(text)), 16, 0)
    ELSE Leading(text, IF text # <<>> /\ text[1] = 48 THEN 8 ELSE 10, 0)
Stoi(text) == Leading(text, 10, 0)

\* The items of a TXT record, up to the first that its length cuts; an item
\* of a key that was there replaces it.
RECURSIVE TxtItems(_)
TxtItems(data) ==
    IF data = <<>> \/ 1 + data[1] > Len(data) THEN [k \in {} |-> <<>>]
    ELSE LET s  == SubSeq(data, 2, 1 + data[1])
             eq == {i \in DOMAIN s : s[i] = 61}
             n  == IF eq = {} THEN Len(s) + 1 ELSE Min(eq)
         IN  TxtItems(SubSeq(data, 2 + data[1], Len(data)))
             @@ (SubSeq(s, 1, n - 1) :> SubSeq(s, n + 1, Len(s)))

\* One record: [ok, p] is whether and where to go on, the rest what is found.
Nothing == [x \in {} |-> <<>>]
ReadRecord(pkt, acc) ==
    LET r     == BrowserParseName(pkt, acc.p)
        p     == acc.p + r.consumed
        rdlen == Rd16(pkt, p + 8)
        type  == Rd16(pkt, p)
        data  == SubSeq(pkt, p + 11, p + 10 + rdlen)
        found == [acc EXCEPT !.p = p + 10 + rdlen]
    IN  IF ~acc.ok \/ r.consumed = 0 \/ p + 10 > Len(pkt) THEN [acc EXCEPT !.ok = FALSE]
        ELSE IF p + 10 + rdlen > Len(pkt) THEN [acc EXCEPT !.ok = FALSE]
        ELSE CASE type = PTR ->
                    [found EXCEPT !.ptr = (r.name :> BrowserParseName(pkt, p + 10).name) @@ @]
               [] type = SRV /\ rdlen >= 7 ->
                    [found EXCEPT !.srv = (r.name :>
                        [port |-> Rd16(data, 4),
                         host |-> BrowserParseName(pkt, p + 16).name]) @@ @]
               [] type = TXT -> [found EXCEPT !.txt = (r.name :> TxtItems(data)) @@ @]
               [] type = A /\ rdlen = 4 -> [found EXCEPT !.a = (r.name :> data) @@ @]
               [] OTHER -> found

SkipQuestion(pkt, acc) ==
    LET c == BrowserParseName(pkt, acc.p).consumed
    IN  [acc EXCEPT !.ok = @ /\ c # 0 /\ acc.p + c + 4 <= Len(pkt), !.p = @ + c + 4]

Times(n) == [i \in 1..n |-> i]
ReadAnswers(pkt) ==
    LET start == [ok |-> TRUE, p |-> 12, ptr |-> Nothing, srv |-> Nothing,
                  txt |-> Nothing, a |-> Nothing]
        qd == FoldLeft(LAMBDA acc, i : SkipQuestion(pkt, acc), start, Times(Rd16(pkt, 4)))
    IN  FoldLeft(LAMBDA acc, i : ReadRecord(pkt, acc), qd, Times(Rd16(pkt, 6)))

\* The device that an instance's records describe.
At(f, k, default) == IF k \in DOMAIN f THEN f[k] ELSE default
Described(r, inst) ==
    LET srv == At(r.srv, inst, [port |-> 0, host |-> <<>>])
        txt == At(r.txt, inst, Nothing)
        value(k) == At(txt, <<KeyByte(k)>>, <<>>)
    IN  [name |-> SubSeq(inst, 1, LabelLen(inst)), port |-> srv.port,
         ip |-> IF inst \in DOMAIN r.srv THEN At(r.a, srv.host, <<>>) ELSE <<>>,
         device_id |-> value("deviceid"), model |-> value("model"),
         features |-> Stoul(value("features")), vv |-> Stoi(value("vv"))]

\* The devices and the callbacks (device, new) after the instances of a type;
\* their order matters only when two of them share an address.
Assemble(br, r, type) ==
    FoldLeft(LAMBDA b, name :
                LET d == Described(r, r.ptr[name])
                    key == <<d.ip, d.port>>
                IN  IF ~Find(Lower(name), type) \/ d.port = 0 \/ d.ip = <<>> THEN b
                    ELSE [devices |-> (key :> d) @@ b.devices,
                          told |-> Append(b.told, <<d, key \notin DOMAIN b.devices>>)],
             br, SetToSeq(DOMAIN r.ptr))

ParseResponse(br, pkt) ==
    IF Len(pkt) <= 12 THEN br
    ELSE LET r == ReadAnswers(pkt)
         IN  IF Rd16(pkt, 2) < 32768 \/ ~r.ok THEN br
             ELSE Assemble(Assemble(br, r, Airplay), r, Raop)
NewBrowser == [devices |-> Nothing, told |-> <<>>]
=============================================================================
