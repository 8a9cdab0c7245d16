-------------------------------- MODULE Plist --------------------------------
(***************************************************************************)
(* util/plist.cpp: property lists, read and written as XML and as binary   *)
(* bplist00, and the base64 of their <data>.                               *)
(*                                                                         *)
(* A PlistValue is a record of its type and of the member in use; a string *)
(* and a block of data are sequences of bytes, a dictionary is a function  *)
(* on strings.  A binary file is a sequence of bytes; offsets count from   *)
(* 0, as in the code.  Numbers are 32-bit, written in the 1, 2, 4 or 8     *)
(* bytes of the code, and a double or a float is a whole number in 8 or 4. *)
(***************************************************************************)
EXTENDS Integers, Sequences, SequencesExt

None       == [type |-> "NONE"]
MakeString(s)  == [type |-> "STRING", str |-> s]
MakeInt(n)     == [type |-> "INT", int |-> n]
MakeReal(r)    == [type |-> "REAL", real |-> r]
MakeBool(b)    == [type |-> "BOOL", bool |-> b]
MakeData(d)    == [type |-> "DATA", data |-> d]
MakeDate(t)    == [type |-> "DATE", real |-> t]
MakeArray(a)   == [type |-> "ARRAY", array |-> a]
MakeDict(d)    == [type |-> "DICT", dict |-> d]

NoEntries == [k \in {} |-> None]

\* The as_ accessors: what another type converts to, else the default.
AsString(v) == IF v.type = "STRING" THEN v.str ELSE <<>>
AsData(v)   == IF v.type = "DATA" THEN v.data ELSE <<>>
AsDate(v)   == IF v.type = "DATE" THEN v.real ELSE 0
AsInt(v)    == CASE v.type = "INT"  -> v.int
                 [] v.type = "REAL" -> v.real
                 [] v.type = "BOOL" -> IF v.bool THEN 1 ELSE 0
                 [] OTHER           -> 0
AsReal(v)   == AsInt(v)
AsBool(v)   == AsInt(v) # 0

Get(v, key) == IF v.type = "DICT" /\ key \in DOMAIN v.dict THEN v.dict[key]
               ELSE None

\* dict()[k] = x
Put(d, k, x) == [j \in DOMAIN d \cup {k} |-> IF j = k THEN x ELSE d[j]]

\* std::map goes through its keys in the order of their bytes.
Before(a, b) == \E i \in 1..Len(b) :
                    /\ i <= Len(a) + 1
                    /\ \A j \in 1..(i - 1) : a[j] = b[j]
                    /\ i = Len(a) + 1 \/ a[i] < b[i]
Keys(d) == [i \in 1..Cardinality(DOMAIN d) |->
              CHOOSE k \in DOMAIN d :
                 Cardinality({j \in DOMAIN d : j # k /\ Before(j, k)}) = i - 1]

-----------------------------------------------------------------------------
(* Big-endian integers. *)

\* The low `bytes' bytes of n in two's complement; n has at most 32 bits.
WriteInt(n, bytes) ==
    LET byte(i) == IF i > 3 THEN (IF n < 0 THEN 255 ELSE 0)
                   ELSE (n \div (256 ^ i)) % 256
    IN  [i \in 1..bytes |-> byte(bytes - i)]

ReadUnsigned(b) == FoldLeft(LAMBDA n, x : 256 * n + x, 0, b)

ReadSigned(b) ==
    IF b[1] >= 128 THEN -ReadUnsigned([i \in DOMAIN b |-> 255 - b[i]]) - 1
    ELSE ReadUnsigned(b)

\* be_read_varint cast to int64_t: only 8 bytes can be negative.
ReadInt(b) == IF Len(b) = 8 THEN ReadSigned(b) ELSE ReadUnsigned(b)

Bytes(file, at, n) == SubSeq(file, at + 1, at + n)

-----------------------------------------------------------------------------
(* Writing bplist00. *)

AppleEpoch == 978307200

\* bplist_count_objects: every key and every value is an object.
RECURSIVE CountObjects(_)
CountObjects(v) ==
    CASE v.type = "ARRAY" ->
            FoldLeft(LAMBDA n, c : n + CountObjects(c), 1, v.array)
      [] v.type = "DICT" ->
            FoldLeft(LAMBDA n, k : n + 1 + CountObjects(v.dict[k]), 1,
                     Keys(v.dict))
      [] OTHER -> 1

\* The marker and, from 15 on, the length behind it.
Marker(high, n) ==
    IF n < 15 THEN <<16 * high + n>>
    ELSE LET power == IF n < 256 THEN 0 ELSE IF n < 65536 THEN 1 ELSE 2
         IN  <<16 * high + 15, 16 + power>> \o WriteInt(n, 2 ^ power)

\* (Mutant: a small negative number in few bytes.)
IntPowerSigned(n) == CASE n >= -128 /\ n <= 127 -> 0
                       [] n < -128 \/ (n > 127 /\ n <= 32767) -> 1
                       [] OTHER -> 2

\* Negative numbers take 8 bytes: the shorter forms are read as unsigned.
IntPower(n) == CASE n < 0 -> 3
                 [] n >= 0 /\ n <= 127 -> 0
                 [] n > 127 /\ n <= 32767 -> 1
                 [] OTHER -> 2

\* The seconds of a DATE, which as_real() does not know.
DateWritten(v) == AsReal(v) - AppleEpoch

Leaf(v) ==
    CASE v.type = "BOOL"   -> <<IF v.bool THEN 9 ELSE 8>>
      [] v.type = "INT"    -> <<16 + IntPower(v.int)>>
                              \o WriteInt(v.int, 2 ^ IntPower(v.int))
      [] v.type = "REAL"   -> <<35>> \o WriteInt(AsReal(v), 8)
      [] v.type = "DATE"   -> <<51>> \o WriteInt(DateWritten(v), 8)
      [] v.type = "DATA"   -> Marker(4, Len(v.data)) \o v.data
      [] v.type = "STRING" -> Marker(5, Len(v.str)) \o v.str
      [] OTHER             -> <<0>>

\* What a container holds, in the order it is encoded.
Children(v) ==
    IF v.type = "ARRAY" THEN v.array
    ELSE FoldLeft(LAMBDA s, k : s \o <<MakeString(k), v.dict[k]>>, <<>>,
                  Keys(v.dict))

\* The references as they are laid out: keys first in a dictionary.
RefOrder(v, refs) ==
    IF v.type = "ARRAY" THEN refs
    ELSE LET n == Len(refs) \div 2
         IN  [i \in 1..(2 * n) |->
                IF i <= n THEN refs[2 * i - 1] ELSE refs[2 * (i - n)]]

\* Each number in `size' bytes.
RefBytes(refs, size) ==
    [i \in 1..(size * Len(refs)) |->
        WriteInt(refs[((i - 1) \div size) + 1], size)[((i - 1) % size) + 1]]

\* bplist_encode: w is the body and the offsets so far.  A container leaves
\* room for its references and fills it when its children are written.
RECURSIVE Encode(_, _, _)
RECURSIVE EncodeAll(_, _, _, _)

Encode(v, w, size) ==
    LET at    == [w EXCEPT !.offsets = Append(@, Len(w.body))]
        kids  == Children(v)
        head  == at.body \o Marker(IF v.type = "ARRAY" THEN 10 ELSE 13,
                                   IF v.type = "ARRAY" THEN Len(kids)
                                   ELSE Len(kids) \div 2)
        room  == [i \in 1..(Len(kids) * size) |-> 0]
        done  == EncodeAll(kids, [at EXCEPT !.body = head \o room], <<>>, size)
        refs  == RefBytes(RefOrder(v, done.refs), size)
    IN  IF v.type \notin {"ARRAY", "DICT"}
        THEN [at EXCEPT !.body = @ \o Leaf(v)]
        ELSE [done.w EXCEPT !.body =
                head \o refs \o SubSeq(@, Len(head) + Len(refs) + 1, Len(@))]

\* The children one by one, the reference of each is its number.
EncodeAll(kids, w, refs, size) ==
    IF Len(refs) = Len(kids) THEN [w |-> w, refs |-> refs]
    ELSE EncodeAll(kids, Encode(kids[Len(refs) + 1], w, size),
                   Append(refs, Len(w.offsets)), size)

SizeFor(n) == IF n < 256 THEN 1 ELSE IF n < 65536 THEN 2 ELSE 4

Magic == <<98, 112, 108, 105, 115, 116, 48, 48>>

\* The body w, the offsets of its `count' objects, and the trailer.
File(w, count, tableAt, width) ==
    Magic \o w.body
    \o RefBytes([i \in DOMAIN w.offsets |-> 8 + w.offsets[i]], width)
    \o <<0, 0, 0, 0, 0, 0, width, SizeFor(count)>>
    \o WriteInt(count, 8) \o WriteInt(0, 8) \o WriteInt(tableAt, 8)

FileOf(w, count) == File(w, count, 8 + Len(w.body), SizeFor(8 + Len(w.body)))

Encoded(v, count) ==
    FileOf(Encode(v, [body |-> <<>>, offsets |-> <<>>], SizeFor(count)), count)

SerializeBinary(v) == Encoded(v, CountObjects(v))

-----------------------------------------------------------------------------
(* Reading bplist00.  f is the file and what its trailer says of it;       *)
(* table[r] is the value of object r, NONE until it is known.              *)

Failed(table) == [ok |-> FALSE, table |-> table]
Known(table, ref, v) == [ok |-> TRUE, table |-> [table EXCEPT ![ref] = v]]

Utf8(c) == CASE c < 128 -> <<c>>
             [] c >= 128 /\ c < 2048 -> <<192 + (c \div 64), 128 + (c % 64)>>
             [] OTHER -> <<224 + (c \div 4096), 128 + ((c \div 64) % 64),
                           128 + (c % 64)>>

Utf16(b) == FlattenSeq([i \in 1..(Len(b) \div 2) |->
                           Utf8(256 * b[2 * i - 1] + b[2 * i])])

\* The count of a marker at `at' and where the object's bytes begin.
CountAt(file, at) ==
    LET tok == file[at + 1]
        n   == 2 ^ (file[at + 2] % 16)
    IN  IF tok % 16 = 15 /\ tok \div 16 \notin {0, 3}
        THEN [count |-> ReadUnsigned(Bytes(file, at + 2, n)), at |-> at + 2 + n]
        ELSE [count |-> tok % 16, at |-> at + 1]

\* The bytes an object needs behind its marker.
Needs(high, low, count, size) ==
    CASE high \in {1, 2}   -> 2 ^ low
      [] high = 3          -> 8
      [] high \in {4, 5}   -> count
      [] high = 6          -> 2 * count
      [] high = 8          -> low + 1
      [] high = 10         -> count * size
      [] high = 13         -> 2 * count * size
      [] OTHER             -> 0

LeafRead(high, low, b) ==
    CASE high = 0         -> IF low = 8 THEN MakeBool(FALSE)
                             ELSE IF low = 9 THEN MakeBool(TRUE) ELSE None
      [] high \in {1, 8}  -> MakeInt(ReadInt(b))
      [] high = 2         -> MakeReal(IF low \in {2, 3} THEN ReadSigned(b) ELSE 0)
      [] high = 3         -> MakeDate(ReadSigned(b) + AppleEpoch)
      [] high = 4         -> MakeData(b)
      [] high = 5         -> MakeString(b)
      [] high = 6         -> MakeString(Utf16(b))

RECURSIVE ParseObject(_, _, _, _)

\* An object that is known is not read again.
Resolve(f, ref, table) ==
    LET at == f.tableAt + ref * f.width
    IN  CASE ref \notin DOMAIN table -> Failed(table)
          [] ref \in DOMAIN table /\ table[ref] # None ->
                [ok |-> TRUE, table |-> table]
          [] OTHER ->
                IF at + f.width > Len(f.file) THEN Failed(table)
                ELSE ParseObject(f, ReadUnsigned(Bytes(f.file, at, f.width)),
                                 table, ref)

\* The references in turn, until one fails.
ResolveAll(f, refs, table) ==
    FoldLeft(LAMBDA r, ref : IF r.ok THEN Resolve(f, ref, r.table) ELSE r,
             [ok |-> TRUE, table |-> table], refs)

ParseObject(f, offset, table, ref) ==
    LET tok   == f.file[offset + 1]
        high  == tok \div 16
        low   == tok % 16
        c     == CountAt(f.file, offset)
        need  == Needs(high, low, c.count, f.size)
        b     == Bytes(f.file, c.at, need)
        refs  == [i \in 1..(need \div f.size) |->
                     ReadUnsigned(SubSeq(b, (i - 1) * f.size + 1, i * f.size))]
        n     == c.count
        \* key, value, key, value: the order they are resolved in
        order == IF high = 10 THEN refs
                 ELSE [i \in 1..(2 * n) |-> IF i % 2 = 1 THEN refs[(i + 1) \div 2]
                                            ELSE refs[n + (i \div 2)]]
        r     == ResolveAll(f, order, table)
        entry(d, i) == Put(d, AsString(r.table[refs[i]]), r.table[refs[n + i]])
    IN  IF offset >= Len(f.file) THEN Failed(table)
        ELSE IF c.at + need > Len(f.file) \/ high \in {7, 9, 11, 12, 14, 15}
        THEN Failed(table)
        ELSE IF high \notin {10, 13}
        THEN Known(table, ref, LeafRead(high, low, b))
        ELSE IF ~r.ok THEN r
        ELSE Known(r.table, ref,
                   IF high = 10
                   THEN MakeArray([i \in 1..n |-> r.table[refs[i]]])
                   ELSE MakeDict(FoldLeft(entry, NoEntries, [i \in 1..n |-> i])))

Top(r, top) == [ok |-> r.ok, value |-> IF r.ok THEN r.table[top] ELSE None]

\* f is the file with its trailer.
ParseFile(f) ==
    IF f.count = 0 THEN [ok |-> TRUE, value |-> None]
    ELSE IF \/ f.count > 2 ^ 24 \/ f.tableAt + f.count * f.width > Len(f.file)
            \/ f.width = 0 \/ f.top >= f.count
    THEN [ok |-> FALSE, value |-> None]
    ELSE Top(Resolve(f, f.top, [i \in 0..(f.count - 1) |-> None]), f.top)

\* parse_binary_plist: Failed, or the value of the top object.
ParseBinary(file) ==
    LET t         == Len(file) - 32
        number(i) == ReadUnsigned(Bytes(file, t + i, 8))
    IN  IF Len(file) < 40 \/ SubSeq(file, 1, 8) # Magic
        THEN [ok |-> FALSE, value |-> None]
        ELSE ParseFile([file |-> file, width |-> file[t + 7], size |-> file[t + 8],
                        count |-> number(8), top |-> number(16), tableAt |-> number(24)])

-----------------------------------------------------------------------------
(* Base64.  A character is its value, 64 is the '='.                       *)

Group(b) ==
    CASE Len(b) = 3 -> <<b[1] \div 4, 16 * (b[1] % 4) + (b[2] \div 16),
                         4 * (b[2] % 16) + (b[3] \div 64), b[3] % 64>>
      [] Len(b) = 2 -> <<b[1] \div 4, 16 * (b[1] % 4) + (b[2] \div 16),
                         4 * (b[2] % 16), 64>>
      [] Len(b) = 1 -> <<b[1] \div 4, 16 * (b[1] % 4), 64, 64>>

Base64Encode(d) ==
    FlattenSeq([g \in 1..((Len(d) + 2) \div 3) |->
                   Group(SubSeq(d, 3 * g - 2,
                                IF 3 * g < Len(d) THEN 3 * g ELSE Len(d)))])

\* The characters of the next block: four, or up to a '=' and with it.
BlockLength(s) ==
    LET pads == {i \in 1..4 : i <= Len(s) /\ s[i] = 64}
    IN  IF pads # {} THEN Min(pads) ELSE Min({4, Len(s)})

\* The bytes of a block; a '=' counts as -2, and what the block before left
\* in val[2] is read when the block is a lone '='.
BlockBytes(v, left) ==
    LET val(i) == IF i > Len(v) THEN left ELSE IF v[i] = 64 THEN -2 ELSE v[i]
    IN  <<(4 * val(1) + (val(2) \div 16)) % 256>>
        \o (IF Len(v) > 2
            THEN <<IF v[3] = 64 THEN 255
                   ELSE 16 * (val(2) % 16) + (val(3) \div 4)>> ELSE <<>>)
        \o (IF Len(v) > 3 /\ v[4] # 64
            THEN <<64 * (val(3) % 4) + v[4]>> ELSE <<>>)

RECURSIVE Blocks(_, _, _)
Blocks(s, left, out) ==
    LET n == BlockLength(s)
        v == SubSeq(s, 1, n)
    IN  IF s = <<>> THEN out
        ELSE IF n < 2 /\ v[1] # 64 THEN out       \* a lone character: fails
        ELSE Blocks(SubSeq(s, n + 1, Len(s)), IF n > 1 THEN v[2] ELSE left,
                    out \o BlockBytes(v, left))

Base64Decode(s) == Blocks(s, 0, <<>>)

-----------------------------------------------------------------------------
(* XML.  A document is a sequence of tags, characters and numbers; <x/> is *)
(* the same tag as <x>, for find_next_tag forgets the slash.               *)

Tag(name)    == [tag |-> name, close |-> FALSE]
EndTag(name) == [tag |-> name, close |-> TRUE]
Char(c)      == [char |-> c]
Num(n)       == [num |-> n]
IsTag(x)     == "tag" \in DOMAIN x

\* < > & "  and what is written for them
Entity == [c \in {60, 62, 38, 34} |->
             CASE c = 60 -> <<38, 108, 116, 59>>
               [] c = 62 -> <<38, 103, 116, 59>>
               [] c = 38 -> <<38, 97, 109, 112, 59>>
               [] c = 34 -> <<38, 113, 117, 111, 116, 59>>]

Escape(s) ==
    FlattenSeq([i \in DOMAIN s |->
                  IF s[i] \in DOMAIN Entity THEN Entity[s[i]] ELSE <<s[i]>>])

\* &apos; is read and not written.
EntityRead == [c \in DOMAIN Entity \cup {39} |->
                 IF c = 39 THEN <<38, 97, 112, 111, 115, 59>> ELSE Entity[c]]

RECURSIVE Unescape(_)
Unescape(s) ==
    LET found == {c \in DOMAIN EntityRead : IsPrefix(EntityRead[c], s)}
        c     == CHOOSE x \in found : TRUE
    IN  IF s = <<>> THEN <<>>
        ELSE IF found = {} THEN <<s[1]>> \o Unescape(Tail(s))
        ELSE <<c>> \o Unescape(SubSeq(s, Len(EntityRead[c]) + 1, Len(s)))

Chars(s) == [i \in DOMAIN s |-> Char(s[i])]
Element(name, content) == <<Tag(name)>> \o content \o <<EndTag(name)>>

\* A value of no type is written as nothing.
RECURSIVE SerializeValue(_)
SerializeValue(v) ==
    CASE v.type = "STRING" -> Element("string", Chars(Escape(v.str)))
      [] v.type = "INT"    -> Element("integer", <<Num(v.int)>>)
      [] v.type = "REAL"   -> Element("real", <<Num(AsReal(v))>>)
      [] v.type = "BOOL"   -> <<Tag(IF v.bool THEN "true" ELSE "false")>>
      [] v.type = "DATA"   -> Element("data", Chars(Base64Encode(v.data)))
      [] v.type = "DATE"   -> Element("date", <<Num(AsDate(v) - AppleEpoch)>>)
      [] v.type = "ARRAY"  ->
            Element("array", FlattenSeq([i \in DOMAIN v.array |->
                                            SerializeValue(v.array[i])]))
      [] v.type = "DICT"   ->
            Element("dict", FoldLeft(LAMBDA s, k :
                        s \o Element("key", Chars(Escape(k)))
                          \o SerializeValue(v.dict[k]),
                    <<>>, Keys(v.dict)))
      [] OTHER             -> <<>>

SerializeXml(v) ==
    <<Tag("?xml"), Tag("!DOCTYPE")>> \o Element("plist", SerializeValue(v))

\* find_next_tag: the position of the next tag, or 0.
NextTag(doc, at) == LET tags == {i \in at..Len(doc) : IsTag(doc[i])}
                    IN  IF tags = {} THEN 0 ELSE Min(tags)

\* The close of a scalar is looked for by name, past any other tag.
CloseOf(doc, at, name) ==
    LET ends == {i \in at..Len(doc) :
                    IsTag(doc[i]) /\ doc[i].tag = name /\ doc[i].close}
    IN  IF ends = {} THEN 0 ELSE Min(ends)

Read(end, v) == [ok |-> TRUE, end |-> end, value |-> v]
Unread == [ok |-> FALSE, end |-> 0, value |-> None]

\* stoll, stod: a number at the front, else 0.
NumberIn(content) ==
    IF content # <<>> /\ "num" \in DOMAIN content[1] THEN content[1].num ELSE 0

Scalars == {"string", "integer", "real", "date", "data", "key"}

ScalarRead(name, content) ==
    LET text == [i \in DOMAIN content |->
                    IF "char" \in DOMAIN content[i] THEN content[i].char ELSE 0]
    IN  CASE name \in {"string", "key"} -> MakeString(Unescape(text))
          [] name = "integer" -> MakeInt(NumberIn(content))
          [] name = "real"    -> MakeReal(NumberIn(content))
          [] name = "date"    ->
                MakeDate(IF content # <<>> /\ "num" \in DOMAIN content[1]
                     THEN content[1].num + AppleEpoch ELSE 0)
          [] name = "data"    -> MakeData(Base64Decode(text))

RECURSIVE ParseValue(_, _)
RECURSIVE ParseElements(_, _, _)
RECURSIVE ParseEntries(_, _, _)

ParseValue(doc, at) ==
    LET i    == NextTag(doc, at)
        name == doc[i].tag
        e    == CloseOf(doc, i + 1, name)
    IN  IF i = 0 \/ (i > 0 /\ doc[i].close) THEN Unread
        ELSE IF name \in {"true", "false"} THEN Read(i + 1, MakeBool(name = "true"))
        ELSE IF name \in Scalars
        THEN IF e = 0 THEN Unread
             ELSE Read(e + 1, ScalarRead(name, SubSeq(doc, i + 1, e - 1)))
        ELSE IF name = "array" THEN ParseElements(doc, i + 1, <<>>)
        ELSE IF name = "dict" THEN ParseEntries(doc, i + 1, NoEntries)
        ELSE Unread

ParseElements(doc, at, a) ==
    LET i == NextTag(doc, at)
        r == ParseValue(doc, i)
    IN  IF i = 0 THEN Unread
        ELSE IF doc[i].close
        THEN IF doc[i].tag = "array" THEN Read(i + 1, MakeArray(a)) ELSE Unread
        ELSE IF r.ok THEN ParseElements(doc, r.end, Append(a, r.value))
        ELSE Unread

ParseEntries(doc, at, d) ==
    LET i == NextTag(doc, at)
        k == ParseValue(doc, i)
        j == NextTag(doc, k.end)
        v == ParseValue(doc, j)
    IN  IF i = 0 THEN Unread
        ELSE IF doc[i].close
        THEN IF doc[i].tag = "dict" THEN Read(i + 1, MakeDict(d)) ELSE Unread
        ELSE IF doc[i].tag # "key" \/ ~k.ok THEN Unread
        ELSE IF j = 0 \/ (j > 0 /\ doc[j].close) \/ ~v.ok THEN Unread
        ELSE ParseEntries(doc, v.end, Put(d, AsString(k.value), v.value))

\* parse_xml_plist: the first value behind <plist>, or the first of all.
ParseXml(doc) ==
    LET roots == {i \in DOMAIN doc :
                    IsTag(doc[i]) /\ doc[i].tag = "plist" /\ ~doc[i].close}
    IN  ParseValue(doc, IF roots = {} THEN 1 ELSE Min(roots) + 1)

=============================================================================
