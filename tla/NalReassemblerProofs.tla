------------------------ MODULE NalReassemblerProofs ------------------------
(* What the frames handed out are, for any number of packets.               *)
EXTENDS NalReassembler, TLAPS

FrameType ==
    [ts : 0 .. MaxPackets, loss : BOOLEAN, key : BOOLEAN, fu : BOOLEAN,
     pieces : Seq(PieceType)]
OutType ==
    [ts : 1 .. MaxPackets, loss : BOOLEAN, key : BOOLEAN,
     pieces : Seq(PieceType), params : Seq(KindsOfAny)]

(* The packets push() gets.                                                 *)
Pushed == {p \in PacketType : p.seq > 0 /\ p.ts > 0}

(* The pieces of a frame are all of its timestamp.                          *)
Mine(f) == \A i \in DOMAIN f.pieces : f.pieces[i].ts = f.ts

(* Pieces that follow one another from a whole beginning, with nothing      *)
(* between them but the packets h.                                          *)
Follows(piece, next, h) ==
    /\ piece.seq < next
    /\ piece.seq + 1 .. next - 1 \subseteq h

Solid(pieces, h) ==
    /\ pieces[1].form # "more"
    /\ \A i \in DOMAIN pieces : i > 1 => Follows(pieces[i - 1], pieces[i].seq, h)

(* A frame to which the packet numbered next can be added: if it is not     *)
(* marked it has no hole, and a packet that does not come next is noticed.  *)
Sound(f, next, h) ==
    /\ f.fu => f.pieces # <<>>
    /\ Mine(f)
    /\ \/ f.loss
       \/ f.pieces = <<>>
       \/ (Solid(f.pieces, h) /\ Follows(f.pieces[Len(f.pieces)], next, h))

FrameInv ==
    /\ Sound(frame, expected, hollow)
    /\ frame.ts = 0 => frame.pieces = <<>>

(* The sender numbers its frames no faster than its packets, and what is in *)
(* the frame under way was sent before, or is the last packet it sent.      *)
SentInv ==
    /\ sent.ts <= sent.seq
    /\ sent.ts = 0 => sent.marker /\ expected = 0
    /\ expected <= sent.seq + 1
    /\ \A i \in DOMAIN frame.pieces :
          \/ frame.pieces[i].seq < sent.seq
          \/ frame.pieces[i].seq = sent.seq /\ frame.pieces[i].ts = sent.ts

(* What a call may return.                                                  *)
Good(o, h) ==
    o = None \/ (o \in OutType /\ Mine(o) /\ (o.loss \/ Solid(o.pieces, h)))
-----------------------------------------------------------------------------
(* A packet that push() drops unmarked may be missing too.                  *)
LEMMA MoreMissing ==
    ASSUME NEW h, NEW g, h \subseteq g, NEW pieces, NEW piece, NEW next
    PROVE  /\ Solid(pieces, h) => Solid(pieces, g)
           /\ Follows(piece, next, h) => Follows(piece, next, g)
  BY DEF Solid, Follows

LEMMA NoFrameType == NoFrame \in FrameType
<1>1. <<>> \in Seq(PieceType) /\ 0 \in 0 .. MaxPackets
  BY MaxPacketsNat
<1>. QED
  BY <1>1 DEF NoFrame, FrameType

(* The frame a packet is added to is of its timestamp, and marked if the    *)
(* packet does not come next.                                               *)
LEMMA TimedSound ==
    ASSUME TypeInv, FrameInv, NEW p \in Pushed,
           NEW f, f = Timed(IF NewTs(p) THEN NoFrame ELSE Marked(p), p.ts)
    PROVE  f \in FrameType /\ f.ts = p.ts /\ Sound(f, p.seq, hollow)
<1>0. /\ frame \in FrameType /\ expected \in Nat
      /\ p.ts \in 1 .. MaxPackets /\ p.seq \in 1 .. MaxPackets
  BY MaxPacketsNat DEF TypeInv, FrameType, Pushed, PacketType
<1>1. CASE NewTs(p)
  <2>1. f = [NoFrame EXCEPT !.ts = p.ts]
    BY <1>1 DEF Timed, NoFrame
  <2>2. f = [ts |-> p.ts, loss |-> FALSE, key |-> FALSE, fu |-> FALSE,
             pieces |-> <<>>]
    BY <2>1 DEF NoFrame
  <2>3. f \in FrameType
    <3>1. NoFrame \in FrameType /\ p.ts \in 0 .. MaxPackets
      BY <1>0, NoFrameType, MaxPacketsNat
    <3>. QED
      BY <2>1, <3>1 DEF FrameType
  <2>4. f.fu = FALSE /\ f.pieces = <<>> /\ f.ts = p.ts
    BY <2>2
  <2>5. Mine(f)
    BY <2>4 DEF Mine
  <2>. QED
    BY <2>3, <2>4, <2>5 DEF Sound
<1>2. CASE ~NewTs(p)
  <2>. DEFINE m == Marked(p)
  <2>1. /\ m \in FrameType /\ m.ts = frame.ts /\ m.fu = frame.fu
        /\ m.pieces = frame.pieces
        /\ m.loss \/ (expected \in {0, p.seq} /\ ~frame.loss) \/ frame.pieces = <<>>
    BY <1>0 DEF Marked, FrameType
  <2>2. f = Timed(m, p.ts)
    BY <1>2
  <2>3. /\ f \in FrameType /\ f.ts = p.ts /\ f.fu = frame.fu
        /\ f.pieces = frame.pieces /\ f.loss = m.loss
    BY <1>0, <1>2, <2>1, <2>2 DEF Timed, NewTs, FrameType
  <2>4. Mine(f)
    BY <1>0, <1>2, <2>3 DEF Mine, FrameInv, Sound, NewTs
  <2>5. \/ f.loss \/ f.pieces = <<>>
        \/ (Solid(f.pieces, hollow) /\ Follows(f.pieces[Len(f.pieces)], p.seq, hollow))
    <3>. SUFFICES ASSUME ~f.loss, frame.pieces # <<>>
                  PROVE  Solid(frame.pieces, hollow)
                         /\ Follows(frame.pieces[Len(frame.pieces)], p.seq, hollow)
      BY <2>3
    <3>. DEFINE tail == frame.pieces[Len(frame.pieces)]
    <3>1. expected \in {0, p.seq} /\ ~frame.loss
      BY <2>1, <2>3
    <3>2. Follows(tail, expected, hollow) /\ Solid(frame.pieces, hollow)
      BY <3>1 DEF FrameInv, Sound
    <3>3. tail \in PieceType
      BY <1>0 DEF FrameType
    <3>4. tail.seq \in Nat /\ tail.seq < expected
      BY <3>2, <3>3, MaxPacketsNat DEF PieceType, Follows
    <3>5. expected = p.seq
      BY <3>1, <3>4
    <3>. QED
      BY <3>2, <3>5
  <2>. QED
    BY <2>3, <2>4, <2>5 DEF Sound, FrameInv
<1>. QED
  BY <1>1, <1>2

(* A piece appended to a sound frame leaves it sound.                       *)
LEMMA AppendSound ==
    ASSUME NEW gone, NEW p \in Pushed, NEW f \in FrameType, f.ts = p.ts,
           Sound(f, p.seq, gone), NEW h \in FrameType, h.ts = f.ts, h.loss = f.loss,
           h.pieces = Append(f.pieces, Piece(p)),
           f.pieces = <<>> => p.form # "more"
    PROVE  Sound(h, p.seq + 1, gone)
<1>. DEFINE n == Len(f.pieces)
<1>1. /\ Piece(p) \in PieceType /\ Piece(p).ts = p.ts /\ Piece(p).seq = p.seq
      /\ Piece(p).form = p.form
  BY MaxPacketsNat DEF Pushed, PacketType, Piece, PieceType
<1>2. /\ f.pieces \in Seq(PieceType) /\ n \in Nat /\ Len(h.pieces) = n + 1
      /\ h.pieces # <<>> /\ DOMAIN h.pieces = 1 .. n + 1
      /\ h.pieces[n + 1] = Piece(p)
      /\ \A i \in 1 .. n : h.pieces[i] = f.pieces[i]
  BY <1>1 DEF FrameType
<1>3. Mine(h)
  BY <1>1, <1>2 DEF Mine, Sound
<1>a. Follows(h.pieces[Len(h.pieces)], p.seq + 1, gone)
  <2>1. p.seq \in Nat
    BY MaxPacketsNat DEF Pushed, PacketType
  <2>2. h.pieces[Len(h.pieces)].seq = p.seq
    BY <1>1, <1>2
  <2>3. p.seq < p.seq + 1 /\ p.seq + 1 .. (p.seq + 1) - 1 = {}
    BY <2>1
  <2>. QED
    BY <2>2, <2>3 DEF Follows
<1>4. CASE f.pieces = <<>>
  <2>1. n = 0 /\ h.pieces[1] = Piece(p) /\ p.form # "more"
    BY <1>2, <1>4
  <2>2. Solid(h.pieces, gone)
    BY <1>1, <1>2, <2>1 DEF Solid
  <2>. QED
    BY <1>2, <1>3, <1>a, <2>2 DEF Sound
<1>5. CASE f.pieces # <<>> /\ ~f.loss
  <2>1. n > 0 /\ Solid(f.pieces, gone) /\ Follows(f.pieces[n], p.seq, gone)
    BY <1>2, <1>5 DEF Sound
  <2>2. Solid(h.pieces, gone)
    <3>1. h.pieces[1].form # "more"
      BY <1>2, <2>1 DEF Solid
    <3>2. ASSUME NEW i \in 1 .. n + 1, i > 1
          PROVE  Follows(h.pieces[i - 1], h.pieces[i].seq, gone)
      <4>1. CASE i \in 1 .. n
        <5>1. i - 1 \in 1 .. n /\ DOMAIN f.pieces = 1 .. n
          BY <1>2, <3>2, <4>1
        <5>2. Follows(f.pieces[i - 1], f.pieces[i].seq, gone)
          BY <2>1, <3>2, <4>1, <5>1 DEF Solid
        <5>3. h.pieces[i] = f.pieces[i] /\ h.pieces[i - 1] = f.pieces[i - 1]
          BY <1>2, <4>1, <5>1
        <5>. QED
          BY <5>2, <5>3
      <4>2. CASE i = n + 1
        <5>1. h.pieces[i - 1] = f.pieces[n] /\ h.pieces[i] = Piece(p)
          BY <1>2, <2>1, <4>2
        <5>. QED
          BY <1>1, <2>1, <5>1
      <4>. QED
        BY <1>2, <3>2, <4>1, <4>2
    <3>. QED
      BY <1>2, <3>1, <3>2 DEF Solid
  <2>. QED
    BY <1>2, <1>3, <1>a, <2>2 DEF Sound
<1>6. CASE f.loss
  BY <1>2, <1>3, <1>6 DEF Sound
<1>. QED
  BY <1>4, <1>5, <1>6 DEF FrameType

(* Adding a packet keeps the frame sound, for the packet after it.          *)
LEMMA AddedSound ==
    ASSUME codec \in {"h264", "h265"}, NEW p \in Pushed, NEW f \in FrameType,
           f.ts = p.ts, NEW h, Sound(f, p.seq, h), NEW g, h \subseteq g,
           p.form \in Hollow => p.seq \in g
    PROVE  /\ Added(f, p) \in FrameType /\ Added(f, p).ts = p.ts
           /\ Sound(Added(f, p), p.seq + 1, g)
<1>0. Piece(p) \in PieceType /\ p.form \in Forms /\ p.last \in BOOLEAN
  BY MaxPacketsNat DEF Pushed, PacketType, Piece, PieceType
<1>a. /\ f.pieces \in Seq(PieceType) /\ Append(f.pieces, Piece(p)) \in Seq(PieceType)
      /\ Append(f.pieces, Piece(p)) # <<>>
  BY <1>0 DEF FrameType
<1>b. \A k : IsKey(k) \in BOOLEAN
  BY DEF IsKey
<1>c. Sound(f, p.seq, g)
  BY MoreMissing DEF Sound
<1>1. CASE p.form \in {"nal", "ap"}
  <2>1. Added(f, p) = Whole(f, p)
    BY <1>1 DEF Added, Hollow
  <2>2. /\ Whole(f, p) \in FrameType /\ Whole(f, p).ts = f.ts
        /\ Whole(f, p).loss = f.loss /\ Whole(f, p).fu = f.fu
        /\ Whole(f, p).pieces = Append(f.pieces, Piece(p))
    BY <1>a, <1>b DEF Whole, FrameType
  <2>. QED
    BY <1>1, <1>c, <2>1, <2>2, AppendSound
<1>2. CASE p.form \in {"start", "more"} /\ (p.form = "start" \/ f.fu)
  <2>1. Added(f, p) = Fragment(f, p)
    BY <1>2 DEF Added, Hollow
  <2>2. /\ Fragment(f, p) \in FrameType /\ Fragment(f, p).ts = f.ts
        /\ Fragment(f, p).loss = f.loss
        /\ Fragment(f, p).pieces = Append(f.pieces, Piece(p))
    BY <1>0, <1>2, <1>a, <1>b DEF Fragment, FrameType
  <2>3. f.pieces = <<>> => p.form # "more"
    BY <1>2 DEF Sound
  <2>. QED
    BY <1>c, <2>1, <2>2, <2>3, AppendSound
<1>3. CASE p.form = "bad" \/ (p.form = "more" /\ ~f.fu)
  <2>1. Added(f, p) = [f EXCEPT !.loss = TRUE]
    BY <1>3 DEF Added, Fragment, Hollow
  <2>. QED
    BY <2>1 DEF FrameType, Sound, Mine
<1>4. CASE p.form \in Hollow
  <2>1. Added(f, p) = f
    BY <1>4 DEF Added, Hollow
  <2>2. CASE f.loss \/ f.pieces = <<>>
    BY <2>1, <2>2 DEF Sound
  <2>3. CASE ~f.loss /\ f.pieces # <<>>
    <3>. DEFINE tail == f.pieces[Len(f.pieces)]
    <3>1. Follows(tail, p.seq, g) /\ Solid(f.pieces, g)
      BY <1>c, <2>3 DEF Sound
    <3>2. tail \in PieceType
      BY <2>3 DEF FrameType
    <3>3. tail.seq \in Nat /\ p.seq \in Nat /\ p.seq \in g
      BY <1>4, <3>2, MaxPacketsNat DEF PieceType, Pushed, PacketType
    <3>4. Follows(tail, p.seq + 1, g)
      <4>1. tail.seq < p.seq + 1
        BY <3>1, <3>3 DEF Follows
      <4>2. ASSUME NEW k \in tail.seq + 1 .. (p.seq + 1) - 1
            PROVE  k \in g
        <5>1. k = p.seq \/ k \in tail.seq + 1 .. p.seq - 1
          BY <3>3
        <5>. QED
          BY <3>1, <3>3, <5>1 DEF Follows
      <4>. QED
        BY <4>1, <4>2 DEF Follows
    <3>. QED
      BY <1>c, <2>1, <3>1, <3>4 DEF Sound
  <2>. QED
    BY <2>2, <2>3
<1>. QED
  BY <1>0, <1>1, <1>2, <1>3, <1>4 DEF Forms, Useless

(* What close_frame makes of a sound frame may be returned.                 *)
LEMMA ClosedGood ==
    ASSUME NEW f \in FrameType, f.pieces # <<>> => f.ts # 0, NEW n, NEW h, Sound(f, n, h),
           NEW params \in Seq(KindsOfAny)
    PROVE  Good(Closed(f, params), h)
<1>1. CASE f.pieces = <<>>
  BY <1>1 DEF Closed, Good
<1>2. CASE f.pieces # <<>>
  <2>. DEFINE o == Closed(f, params)
  <2>1. o = [ts |-> f.ts, loss |-> f.loss, key |-> f.key, pieces |-> f.pieces,
             params |-> IF f.key THEN params ELSE <<>>]
    BY <1>2 DEF Closed
  <2>2. o \in OutType
    BY <1>2, <2>1, MaxPacketsNat DEF OutType, FrameType
  <2>3. Mine(o) /\ (o.loss \/ Solid(o.pieces, h))
    BY <1>2, <2>1 DEF Sound, Mine
  <2>. QED
    BY <2>2, <2>3 DEF Good
<1>. QED
  BY <1>1, <1>2

(* The parameter sets are of the kinds there are.                           *)
LEMMA ExtraType ==
    ASSUME TypeInv, NEW p \in Pushed
    PROVE  ExtraAfter(p) \in Seq(KindsOfAny)
<1>1. ParamKinds \in Seq(KindsOfAny)
  <2>1. <<"sps", "pps">> \in Seq(KindsOfAny)
    BY DEF KindsOfAny
  <2>2. <<"vps", "sps", "pps">> \in Seq(KindsOfAny)
    BY DEF KindsOfAny
  <2>. QED
    BY <2>1, <2>2 DEF ParamKinds
<1>2. extra \o ParamKinds \in Seq(KindsOfAny) /\ extra \in Seq(KindsOfAny)
  BY <1>1 DEF TypeInv
<1>3. p.kind \in KindsOfAny
  BY DEF Pushed, PacketType
<1>4. Append(extra, p.kind) \in Seq(KindsOfAny)
      /\ Append(<<>>, p.kind) \in Seq(KindsOfAny)
  BY <1>2, <1>3
<1>5. CASE p.form = "ap"
  BY <1>2, <1>5 DEF ExtraAfter
<1>6. CASE p.form \in {"nal", "start"} /\ IsParam(p.kind)
  BY <1>4, <1>6 DEF ExtraAfter
<1>7. CASE p.form # "ap" /\ ~(p.form \in {"nal", "start"} /\ IsParam(p.kind))
  BY <1>2, <1>7 DEF ExtraAfter
<1>. QED
  BY <1>5, <1>6, <1>7
(* A packet adds one piece at most.                                         *)
LEMMA AddedPieces ==
    ASSUME NEW p \in Pushed, NEW f \in FrameType
    PROVE  Added(f, p).pieces \in {f.pieces, Append(f.pieces, Piece(p))}
<1>0. p.form \in Forms
  BY DEF Pushed, PacketType
<1>1. CASE p.form \in {"nal", "ap"}
  BY <1>1 DEF Added, Whole, FrameType
<1>2. CASE p.form \in {"start", "more"}
  BY <1>2 DEF Added, Fragment, FrameType
<1>3. CASE p.form \in Useless
  BY <1>3 DEF Added, FrameType, Useless, Hollow
<1>. QED
  BY <1>0, <1>1, <1>2, <1>3 DEF Forms

(* The pieces of the frame under way are those it had, or none, and perhaps *)
(* the one that is new.                                                     *)
LEMMA PushPieces ==
    ASSUME TypeInv, FrameInv, NEW p \in Pushed, Push(p)
    PROVE  \E pieces \in {<<>>, frame.pieces} :
               frame'.pieces \in {<<>>, pieces, Append(pieces, Piece(p))}
<1>. DEFINE f == Timed(IF NewTs(p) THEN NoFrame ELSE Marked(p), p.ts)
            filled == Added(f, p)
            ends == p.marker /\ p.form # "short" /\ filled.pieces # <<>>
<1>1. frame' = IF ends THEN NoFrame ELSE filled
  BY DEF Push
<1>2. frame \in FrameType /\ f \in FrameType
  BY TimedSound DEF TypeInv, FrameType
<1>3. f.pieces \in {<<>>, frame.pieces}
  BY <1>2 DEF Timed, Marked, NoFrame, FrameType
<1>4. filled.pieces \in {f.pieces, Append(f.pieces, Piece(p))}
  BY <1>2, AddedPieces
<1>5. NoFrame.pieces = <<>>
  BY DEF NoFrame
<1>. QED
  BY <1>1, <1>3, <1>4, <1>5
-----------------------------------------------------------------------------
(* push() keeps the frame under way sound and returns a good frame, or none.*)
LEMMA PushKeeps ==
    ASSUME TypeInv, FrameInv, NEW p \in Pushed, Push(p)
    PROVE  /\ frame' \in FrameType /\ FrameInv'
           /\ Good(out, hollow)' /\ extra' \in Seq(KindsOfAny)
           /\ expected' = p.seq + 1 /\ hollow' \subseteq 1 .. MaxPackets
<1>. DEFINE first == IF NewTs(p) THEN Closed(Marked(p), extra) ELSE None
            f == Timed(IF NewTs(p) THEN NoFrame ELSE Marked(p), p.ts)
            filled == Added(f, p)
            ends == p.marker /\ p.form # "short" /\ filled.pieces # <<>>
<1>1. /\ extra' = ExtraAfter(p)
      /\ out' = Returned(first, IF ends THEN Closed(filled, extra') ELSE None)
      /\ frame' = IF ends THEN NoFrame ELSE filled
      /\ expected' = p.seq + 1
      /\ hollow' = IF p.form \in Hollow THEN hollow \cup {p.seq} ELSE hollow
  BY DEF Push
<1>a. hollow \subseteq hollow' /\ (p.form \in Hollow => p.seq \in hollow')
  BY <1>1
<1>2. extra' \in Seq(KindsOfAny) /\ extra \in Seq(KindsOfAny)
  BY <1>1, ExtraType DEF TypeInv
<1>3. f \in FrameType /\ f.ts = p.ts /\ Sound(f, p.seq, hollow)
  BY TimedSound
<1>4. filled \in FrameType /\ filled.ts = p.ts /\ Sound(filled, p.seq + 1, hollow')
  <2>1. codec \in {"h264", "h265"}
    BY DEF TypeInv
  <2>. QED
    BY <1>3, <1>a, <2>1, AddedSound
<1>5. /\ p.ts # 0 /\ p.seq \in 1 .. MaxPackets
      /\ hollow' \subseteq 1 .. MaxPackets
  <2>1. p.ts # 0 /\ p.seq \in 1 .. MaxPackets
    BY MaxPacketsNat DEF Pushed, PacketType
  <2>2. hollow \subseteq 1 .. MaxPackets
    BY DEF TypeInv
  <2>. QED
    BY <1>1, <2>1, <2>2
<1>6. Good(first, hollow')
  <2>1. CASE ~NewTs(p)
    BY <2>1 DEF Good
  <2>2. CASE NewTs(p)
    <3>. DEFINE m == Marked(p)
    <3>1. frame \in FrameType /\ frame.ts # 0
      BY <2>2 DEF TypeInv, FrameType, NewTs
    <3>2. /\ m \in FrameType /\ m.ts = frame.ts /\ m.fu = frame.fu
          /\ m.pieces = frame.pieces /\ (m.loss \/ m.loss = frame.loss)
      BY <3>1 DEF Marked, FrameType
    <3>3. Sound(m, expected, hollow')
      <4>1. Sound(m, expected, hollow)
        BY <3>2 DEF FrameInv, Sound, Mine
      <4>. QED
        BY <1>a, <4>1, MoreMissing DEF Sound
    <3>4. Good(Closed(m, extra), hollow')
      BY <1>2, <3>1, <3>2, <3>3, ClosedGood
    <3>. QED
      BY <2>2, <3>4
  <2>. QED
    BY <2>1, <2>2
<1>7. Good(Closed(filled, extra'), hollow')
  BY <1>2, <1>4, <1>5, ClosedGood
<1>8. Good(None, hollow')
  BY DEF Good
<1>9. Good(out, hollow)'
  <2>1. Good(out', hollow')
    BY <1>1, <1>6, <1>7, <1>8 DEF Returned
  <2>. QED
    BY <2>1 DEF Good, Mine, Solid
<1>10. frame' \in FrameType /\ FrameInv'
  <2>1. CASE ends
    <3>1. frame' = NoFrame
      BY <1>1, <2>1
    <3>2. /\ frame'.ts = 0 /\ frame'.fu = FALSE /\ frame'.pieces = <<>>
          /\ frame' = [ts |-> 0, loss |-> FALSE, key |-> FALSE, fu |-> FALSE,
                       pieces |-> <<>>]
      BY <3>1 DEF NoFrame
    <3>3. <<>> \in Seq(PieceType) /\ 0 \in 0 .. MaxPackets
      BY MaxPacketsNat
    <3>4. Mine(frame)'
      BY <3>2 DEF Mine
    <3>. QED
      BY <3>2, <3>3, <3>4 DEF FrameType, FrameInv, Sound
  <2>2. CASE ~ends
    <3>1. frame' = filled
      BY <1>1, <2>2
    <3>2. Sound(frame, expected, hollow)'
      <4>1. Sound(frame', expected', hollow')
        BY <1>1, <1>4, <3>1
      <4>. QED
        BY <4>1 DEF Sound, Mine, Solid, Follows
    <3>. QED
      BY <1>4, <1>5, <3>1, <3>2 DEF FrameInv
  <2>. QED
    BY <2>1, <2>2
<1>. QED
  BY <1>1, <1>2, <1>5, <1>9, <1>10

LEMMA GoodOut == Good(out, hollow) => OneFrame /\ CleanHasNoHole
<1>1. Good(out, hollow) => OneFrame
  BY DEF Good, OneFrame, Mine
<1>2. Good(out, hollow) => CleanHasNoHole
  BY DEF Good, CleanHasNoHole, Solid, Follows
<1>. QED
  BY <1>1, <1>2

(* The inductive invariant.                                                *)
IInv == TypeInv /\ FrameInv /\ SentInv /\ Good(out, hollow)

LEMMA Begins == Init => IInv
<1>. SUFFICES ASSUME Init PROVE IInv
  OBVIOUS
<1>1. <<>> \in Seq(PieceType) /\ <<>> \in Seq(KindsOfAny) /\ 0 \in 0 .. MaxPackets
      /\ 0 \in 0 .. MaxPackets + 1
  BY MaxPacketsNat
<1>2. frame \in FrameType /\ FrameInv
  BY <1>1 DEF Init, NoFrame, FrameType, FrameInv, Sound, Mine
<1>3. sent \in PacketType
  BY <1>1 DEF Init, PacketType, Forms, Useless, KindsOfAny
<1>4. SentInv /\ Good(out, hollow)
  BY DEF Init, SentInv, Good, NoFrame
<1>5. TypeInv
  BY <1>1, <1>2, <1>3 DEF Init, TypeInv, FrameType
<1>. QED
  BY <1>2, <1>4, <1>5 DEF IInv

(* The sender's next packet.                                                *)
LEMMA SendsKeeps ==
    ASSUME IInv, NEW form \in Forms, NEW kind \in Kinds, NEW marker \in BOOLEAN,
           NEW last \in BOOLEAN, NEW p, p = Outgoing(form, kind, marker, last),
           Sends(p)
    PROVE  /\ p \in Pushed /\ sent' = p /\ sent' \in PacketType
           /\ p.ts <= p.seq /\ p.ts # 0 /\ p.seq = sent.seq + 1
           /\ open' \in KindsOfAny \cup {None} /\ doubled' \in BOOLEAN
           /\ codec' = codec
<1>1. kind \in KindsOfAny
  BY DEF Kinds, KindsOfAny, ParamKinds
<1>2. /\ sent.seq \in 0 .. MaxPackets /\ sent.ts \in 0 .. MaxPackets
      /\ sent.marker \in BOOLEAN /\ sent.ts <= sent.seq
      /\ sent.ts = 0 => sent.marker
  BY DEF IInv, TypeInv, PacketType, SentInv
<1>3. p = [seq |-> sent.seq + 1, ts |-> IF sent.marker THEN sent.ts + 1 ELSE sent.ts,
           form |-> form, kind |-> kind, marker |-> marker, last |-> last]
  BY DEF Outgoing
<1>4. sent.seq < MaxPackets /\ sent' = p /\ doubled' = FALSE /\ codec' = codec
      /\ open' = IF p.last THEN None ELSE p.kind
  BY DEF Sends
<1>5. /\ p.seq \in 1 .. MaxPackets /\ p.ts \in 1 .. MaxPackets /\ p.ts <= p.seq
      /\ p.kind = kind /\ p.seq = sent.seq + 1
  BY <1>2, <1>3, <1>4, MaxPacketsNat
<1>6. p \in PacketType
  BY <1>1, <1>3, <1>5, MaxPacketsNat DEF PacketType
<1>7. p \in Pushed
  BY <1>5, <1>6, MaxPacketsNat DEF Pushed
<1>8. open' \in KindsOfAny \cup {None} /\ doubled' \in BOOLEAN
  BY <1>1, <1>4, <1>5
<1>. QED
  BY <1>4, <1>5, <1>6, <1>7, <1>8, MaxPacketsNat

(* The numbers of the pieces under way are numbers.                          *)
LEMMA PieceNumbers ==
    ASSUME NEW f \in FrameType
    PROVE  \A i \in DOMAIN f.pieces : f.pieces[i].seq \in Nat /\ f.pieces[i].ts \in Nat
<1>1. \A i \in DOMAIN f.pieces : f.pieces[i] \in PieceType
  BY DEF FrameType
<1>2. 1 .. MaxPackets \subseteq Nat
  BY MaxPacketsNat
<1>. QED
  BY <1>1, <1>2 DEF PieceType

(* What is in the frame under way after a push was sent before the packet   *)
(* pushed, or is that packet.                                               *)
LastIsNew(p) ==
    \A i \in DOMAIN frame'.pieces :
        \/ frame'.pieces[i].seq < p.seq
        \/ frame'.pieces[i].seq = p.seq /\ frame'.pieces[i].ts = p.ts

LEMMA PushedIsNew ==
    ASSUME TypeInv, FrameInv, NEW p \in Pushed, Push(p),
           \A i \in DOMAIN frame.pieces :
               \/ frame.pieces[i].seq < p.seq
               \/ frame.pieces[i].seq = p.seq /\ frame.pieces[i].ts = p.ts
    PROVE  LastIsNew(p)
<1>1. PICK pieces \in {<<>>, frame.pieces} :
          frame'.pieces \in {<<>>, pieces, Append(pieces, Piece(p))}
  BY PushPieces
<1>2. frame.pieces \in Seq(PieceType) /\ pieces \in Seq(PieceType)
  <2>1. frame.pieces \in Seq(PieceType)
    BY DEF TypeInv
  <2>2. <<>> \in Seq(PieceType)
    OBVIOUS
  <2>. QED
    BY <1>1, <2>1, <2>2
<1>3. Piece(p).seq = p.seq /\ Piece(p).ts = p.ts
  BY DEF Piece
<1>. SUFFICES ASSUME NEW i \in DOMAIN frame'.pieces
              PROVE  \/ frame'.pieces[i] = Piece(p)
                     \/ i \in DOMAIN frame.pieces /\ frame'.pieces[i] = frame.pieces[i]
  BY <1>3 DEF LastIsNew
<1>4. CASE frame'.pieces \in {<<>>, pieces}
  BY <1>1, <1>4
<1>5. CASE frame'.pieces = Append(pieces, Piece(p))
  <2>1. Len(pieces) \in Nat /\ DOMAIN pieces = 1 .. Len(pieces)
        /\ i \in 1 .. Len(pieces) + 1
    BY <1>2, <1>5
  <2>. QED
    BY <1>1, <1>2, <1>5, <2>1
<1>. QED
  BY <1>1, <1>4, <1>5

LEMMA Keeps == IInv /\ [Next]_vars => IInv'
<1>. SUFFICES ASSUME IInv, [Next]_vars PROVE IInv'
  OBVIOUS
<1>0. TypeInv /\ FrameInv /\ SentInv /\ Good(out, hollow)
  BY DEF IInv
<1>1. ASSUME NEW form \in Forms, NEW kind \in Kinds, NEW marker \in BOOLEAN,
             NEW last \in BOOLEAN, NEW p, p = Outgoing(form, kind, marker, last),
             Send(p) \/ Lose(p)
      PROVE  IInv'
  <2>1. /\ p \in Pushed /\ sent' = p /\ sent' \in PacketType
        /\ p.ts <= p.seq /\ p.ts # 0 /\ p.seq = sent.seq + 1
        /\ open' \in KindsOfAny \cup {None} /\ doubled' \in BOOLEAN
        /\ codec' = codec
    BY <1>1, SendsKeeps DEF Send, Lose
  <2>2. /\ sent.seq \in Nat /\ p.seq \in Nat /\ p.seq <= MaxPackets
        /\ expected \in Nat /\ frame \in FrameType
    BY <1>0, <2>1, MaxPacketsNat DEF TypeInv, FrameType, Pushed, PacketType
  <2>3. CASE Send(p)
    <3>1. /\ frame' \in FrameType /\ FrameInv'
          /\ Good(out, hollow)' /\ extra' \in Seq(KindsOfAny)
          /\ expected' = p.seq + 1 /\ hollow' \subseteq 1 .. MaxPackets
      BY <1>0, <2>1, <2>3, PushKeeps DEF Send
    <3>2. expected' \in 0 .. MaxPackets + 1
      BY <2>2, <3>1, MaxPacketsNat
    <3>5. SentInv'
      <4>1. Push(p)
        BY <2>3 DEF Send
      <4>2. /\ \A i \in DOMAIN frame.pieces : frame.pieces[i].seq < p.seq
        BY <1>0, <2>1, <2>2, PieceNumbers DEF SentInv
      <4>3. LastIsNew(p)
        BY <1>0, <2>1, <4>1, <4>2, PushedIsNew DEF IInv
      <4>. QED
        BY <2>1, <2>2, <3>1, <4>3 DEF SentInv, LastIsNew
    <3>3. Good(out, hollow)' /\ (out \in OutType \cup {None})'
      BY <3>1 DEF Good, OutType
    <3>4. TypeInv'
      BY <1>0, <2>1, <3>1, <3>2, <3>3 DEF TypeInv, FrameType, OutType
    <3>. QED
      BY <3>1, <3>3, <3>4, <3>5 DEF IInv
  <2>4. CASE Lose(p)
    <3>1. UNCHANGED <<frame, extra, expected, out, codec, hollow>>
      BY <2>1, <2>4 DEF Lose
    <3>2. TypeInv' /\ FrameInv'
      BY <1>0, <2>1, <3>1 DEF TypeInv, FrameInv, Sound, Mine
    <3>3. Good(out, hollow)'
      BY <1>0, <3>1 DEF Good
    <3>4. SentInv'
      <4>1. \A i \in DOMAIN frame.pieces : frame.pieces[i].seq < p.seq
        BY <1>0, <2>1, <2>2, PieceNumbers DEF SentInv
      <4>2. expected <= p.seq + 1
        BY <1>0, <2>1, <2>2 DEF SentInv
      <4>. QED
        BY <2>1, <3>1, <4>1, <4>2 DEF SentInv
    <3>. QED
      BY <3>2, <3>3, <3>4 DEF IInv
  <2>. QED
    BY <1>1, <2>3, <2>4
<1>2. CASE Again
  <2>1. /\ expected = sent.seq + 1 /\ Push(sent) /\ doubled' = TRUE
        /\ UNCHANGED <<codec, sent, open>>
    BY <1>2 DEF Again
  <2>2. sent \in PacketType /\ sent.seq \in 0 .. MaxPackets /\ sent.ts \in 0 .. MaxPackets
    BY <1>0 DEF TypeInv, PacketType
  <2>3. sent \in Pushed /\ sent.ts # 0
    BY <1>0, <2>1, <2>2 DEF SentInv, Pushed
  <2>4. /\ frame' \in FrameType /\ FrameInv'
        /\ Good(out, hollow)' /\ extra' \in Seq(KindsOfAny)
        /\ expected' = sent.seq + 1 /\ hollow' \subseteq 1 .. MaxPackets
    BY <1>0, <2>1, <2>3, PushKeeps
  <2>8. LastIsNew(sent)
    BY <1>0, <2>1, <2>3, PushedIsNew DEF SentInv
  <2>5. SentInv' /\ expected' \in 0 .. MaxPackets + 1
    BY <1>0, <2>1, <2>2, <2>3, <2>4, <2>8, MaxPacketsNat DEF SentInv, LastIsNew
  <2>6. Good(out, hollow)' /\ (out \in OutType \cup {None})'
    BY <2>4 DEF Good, OutType
  <2>7. TypeInv'
    BY <1>0, <2>1, <2>4, <2>5, <2>6 DEF TypeInv, FrameType, OutType
  <2>. QED
    BY <2>4, <2>5, <2>6, <2>7 DEF IInv
<1>3. CASE Flush
  <2>1. /\ frame' = NoFrame /\ out' = None
        /\ UNCHANGED <<codec, extra, expected, sent, open, doubled, hollow>>
    BY <1>3 DEF Flush
  <2>2. <<>> \in Seq(PieceType) /\ 0 \in 0 .. MaxPackets
    BY MaxPacketsNat
  <2>3. (frame \in FrameType)' /\ FrameInv'
    BY <2>1, <2>2 DEF NoFrame, FrameType, FrameInv, Sound, Mine
  <2>4. TypeInv'
    BY <1>0, <2>1, <2>3 DEF TypeInv, FrameType
  <2>5. SentInv' /\ Good(out, hollow)'
    BY <1>0, <2>1 DEF SentInv, Good, NoFrame
  <2>. QED
    BY <2>3, <2>4, <2>5 DEF IInv
<1>4. CASE UNCHANGED vars
  BY <1>0, <1>4 DEF vars, IInv, TypeInv, FrameInv, Sound, SentInv, Good, Mine
<1>. QED
  BY <1>1, <1>2, <1>3, <1>4 DEF Next

LEMMA Always == Spec => []IInv
  BY Begins, Keeps, PTL DEF Spec

(* The variables keep their types.                                          *)
THEOREM TypeCorrect == Spec => []TypeInv
<1>1. IInv => TypeInv
  BY DEF IInv
<1>. QED
  BY Always, <1>1, PTL

(* A frame handed out never mixes the data of two frames of the sender.     *)
THEOREM FramesAreNotMixed == Spec => []OneFrame
<1>1. IInv => OneFrame
  BY GoodOut DEF IInv
<1>. QED
  BY Always, <1>1, PTL

(* A frame handed out without has_loss has no hole, whatever is lost or     *)
(* doubled.                                                                 *)
THEOREM CleanFramesAreSolid == Spec => []CleanHasNoHole
<1>1. IInv => CleanHasNoHole
  BY GoodOut DEF IInv
<1>. QED
  BY Always, <1>1, PTL

-----------------------------------------------------------------------------
(* A frame with the pieces of another and perhaps one more holds the same   *)
(* packets at least.                                                        *)
LEMMA MoreHolds ==
    ASSUME NEW f, NEW g, NEW p, f.pieces \in Seq(PieceType), p \in PieceType,
           g.pieces \in {f.pieces, Append(f.pieces, p)}
    PROVE  Seqs(f) \subseteq Seqs(g)
<1>. SUFFICES ASSUME NEW i \in DOMAIN f.pieces
              PROVE  i \in DOMAIN g.pieces /\ g.pieces[i] = f.pieces[i]
  BY DEF Seqs
<1>1. CASE g.pieces = f.pieces
  BY <1>1
<1>2. CASE g.pieces = Append(f.pieces, p)
  <2>1. Len(f.pieces) \in Nat /\ i \in 1 .. Len(f.pieces)
    OBVIOUS
  <2>. QED
    BY <1>2, <2>1
<1>. QED
  BY <1>1, <1>2

(* close_frame hands out all the pieces there are.                          *)
LEMMA ClosedHolds ==
    ASSUME NEW f \in FrameType, f.pieces # <<>>, f.ts # 0,
           NEW params \in Seq(KindsOfAny)
    PROVE  Closed(f, params) # None /\ Seqs(Closed(f, params)) = Seqs(f)
<1>. DEFINE o == Closed(f, params)
<1>1. o = [ts |-> f.ts, loss |-> f.loss, key |-> f.key, pieces |-> f.pieces,
           params |-> IF f.key THEN params ELSE <<>>]
  BY DEF Closed
<1>2. o \in OutType
  BY <1>1, MaxPacketsNat DEF OutType, FrameType
<1>3. None \notin OutType
  BY NoneIsNoFrame, Zenon DEF OutType
<1>4. o # None
  BY <1>2, <1>3
<1>5. o.pieces = f.pieces
  BY <1>1
<1>6. Seqs(o) = Seqs(f)
  BY <1>5 DEF Seqs
<1>. QED
  BY <1>4, <1>6

(* What a step leaves in the frame under way or hands out.                  *)
Kept == Seqs(frame') \cup (IF out' = None THEN {} ELSE Seqs(out'))

HandsOn == Seqs(frame) \subseteq Kept

(* The new packet is kept just if it does not close two frames.             *)
HandsOnNew(p) == Usable(p) => (p.seq \in Kept <=> ~ClosesTwo(p))

(* A usable packet is in the frame it was added to.                         *)
LEMMA UsableIsAdded ==
    ASSUME NEW p \in Pushed, Usable(p), frame \in FrameType, NEW f \in FrameType,
           ~NewTs(p) => f.fu = frame.fu
    PROVE  /\ Added(f, p).pieces = Append(f.pieces, Piece(p))
           /\ p.form # "short"
<1>1. CASE p.form \in {"nal", "ap"}
  <2>1. Added(f, p) = Whole(f, p) /\ p.form # "short"
    BY <1>1 DEF Added, Hollow
  <2>. QED
    BY <2>1 DEF Whole, FrameType
<1>2. CASE p.form = "start" \/ (p.form = "more" /\ frame.fu /\ ~NewTs(p))
  <2>1. Added(f, p) = Fragment(f, p) /\ p.form # "short"
    BY <1>2 DEF Added, Hollow
  <2>2. p.form = "start" \/ f.fu
    BY <1>2
  <2>. QED
    BY <2>1, <2>2 DEF Fragment, FrameType
<1>. QED
  BY <1>1, <1>2 DEF Usable

LEMMA AppendHolds ==
    ASSUME NEW f, NEW g, NEW p \in Pushed, f.pieces \in Seq(PieceType),
           g.pieces = Append(f.pieces, Piece(p))
    PROVE  p.seq \in Seqs(g) /\ g.pieces # <<>>
<1>1. Piece(p) \in PieceType /\ Piece(p).seq = p.seq
  BY MaxPacketsNat DEF Pushed, PacketType, Piece, PieceType
<1>2. /\ Len(f.pieces) \in Nat /\ Len(f.pieces) + 1 \in DOMAIN g.pieces
      /\ g.pieces[Len(f.pieces) + 1] = Piece(p) /\ g.pieces # <<>>
  BY <1>1
<1>. QED
  BY <1>1, <1>2 DEF Seqs

LEMMA PushHandsOn ==
    ASSUME TypeInv, FrameInv, NEW p \in Pushed, Push(p),
           \A i \in DOMAIN frame.pieces :
               \/ frame.pieces[i].seq < p.seq
               \/ frame.pieces[i].seq = p.seq /\ frame.pieces[i].ts = p.ts
    PROVE  HandsOn /\ HandsOnNew(p)
<1>. DEFINE first == IF NewTs(p) THEN Closed(Marked(p), extra) ELSE None
            f == Timed(IF NewTs(p) THEN NoFrame ELSE Marked(p), p.ts)
            filled == Added(f, p)
            ends == p.marker /\ p.form # "short" /\ filled.pieces # <<>>
<1>1. /\ extra' = ExtraAfter(p)
      /\ out' = Returned(first, IF ends THEN Closed(filled, extra') ELSE None)
      /\ frame' = IF ends THEN NoFrame ELSE filled
  BY DEF Push
<1>2. extra' \in Seq(KindsOfAny) /\ extra \in Seq(KindsOfAny)
  BY <1>1, ExtraType DEF TypeInv
<1>3. /\ frame \in FrameType /\ Marked(p) \in FrameType
      /\ Marked(p).pieces = frame.pieces /\ Marked(p).ts = frame.ts
      /\ Marked(p).fu = frame.fu
  <2>1. frame \in FrameType
    BY DEF TypeInv, FrameType
  <2>. QED
    BY <2>1 DEF Marked, FrameType
<1>4. /\ f \in FrameType /\ f.pieces \in Seq(PieceType)
      /\ filled \in FrameType /\ filled.ts = p.ts /\ p.ts # 0
  <2>1. f \in FrameType /\ f.ts = p.ts /\ Sound(f, p.seq, hollow)
    BY TimedSound
  <2>2. codec \in {"h264", "h265"}
    BY DEF TypeInv
  <2>3. /\ hollow \subseteq hollow \cup {p.seq}
        /\ p.form \in Hollow => p.seq \in hollow \cup {p.seq}
    OBVIOUS
  <2>4. filled \in FrameType /\ filled.ts = p.ts
    BY <2>1, <2>2, <2>3, AddedSound
  <2>. QED
    BY <2>1, <2>4, MaxPacketsNat DEF FrameType, Pushed, PacketType
<1>5. ~NewTs(p) => f.pieces = frame.pieces /\ f.fu = frame.fu
  BY <1>3 DEF Timed, FrameType
<1>6. Usable(p) =>
          /\ filled.pieces = Append(f.pieces, Piece(p)) /\ p.form # "short"
          /\ p.seq \in Seqs(filled) /\ filled.pieces # <<>>
  BY <1>3, <1>4, <1>5, UsableIsAdded, AppendHolds
<1>7. CASE NewTs(p) /\ frame.pieces # <<>>
  <2>1. first # None /\ Seqs(first) = Seqs(Marked(p))
    <3>1. Marked(p).ts # 0 /\ Marked(p).pieces # <<>>
      BY <1>3, <1>7 DEF NewTs
    <3>. QED
      BY <1>2, <1>3, <1>7, <3>1, ClosedHolds
  <2>2. out' = first /\ Seqs(first) = Seqs(frame)
    <3>1. Seqs(Marked(p)) = Seqs(frame)
      BY <1>3 DEF Seqs
    <3>. QED
      BY <1>1, <2>1, <3>1 DEF Returned
  <2>3. Kept = Seqs(frame') \cup Seqs(frame)
    <3>1. Seqs(out') = Seqs(frame) /\ out' # None
      BY <2>1, <2>2
    <3>. QED
      BY <3>1 DEF Kept
  <2>4. p.seq \notin Seqs(frame)
    <3>1. \A i \in DOMAIN frame.pieces : frame.pieces[i].ts # p.ts
      BY <1>7 DEF FrameInv, Sound, Mine, NewTs
    <3>2. \A i \in DOMAIN frame.pieces : frame.pieces[i].seq < p.seq
      BY <3>1
    <3>3. \A i \in DOMAIN frame.pieces : frame.pieces[i].seq \in Nat
      BY <1>3, PieceNumbers
    <3>4. p.seq \in Nat
      BY MaxPacketsNat DEF Pushed, PacketType
    <3>. QED
      BY <3>2, <3>3, <3>4 DEF Seqs
  <2>5. ASSUME Usable(p) PROVE p.seq \in Kept <=> ~ClosesTwo(p)
    <3>1. CASE p.marker
      <4>1. frame' = NoFrame /\ ClosesTwo(p)
        BY <1>1, <1>6, <1>7, <2>5, <3>1 DEF ClosesTwo
      <4>2. Seqs(frame') = {}
        BY <4>1 DEF NoFrame, Seqs
      <4>. QED
        BY <2>3, <2>4, <4>1, <4>2
    <3>2. CASE ~p.marker
      <4>1. frame' = filled /\ ~ClosesTwo(p)
        BY <1>1, <3>2 DEF ClosesTwo
      <4>. QED
        BY <1>6, <2>3, <2>5, <4>1
    <3>. QED
      BY <3>1, <3>2
  <2>. QED
    BY <2>3, <2>5 DEF HandsOn, HandsOnNew
<1>8. CASE ~(NewTs(p) /\ frame.pieces # <<>>)
  <2>1. first = None /\ ~ClosesTwo(p)
    BY <1>3, <1>8 DEF Closed, ClosesTwo
  <2>2. Seqs(frame) \subseteq Seqs(filled)
    <3>1. CASE frame.pieces = <<>>
      BY <3>1 DEF Seqs
    <3>2. CASE ~NewTs(p)
      <4>1. filled.pieces \in {f.pieces, Append(f.pieces, Piece(p))}
        BY <1>4, AddedPieces
      <4>2. Piece(p) \in PieceType
        BY MaxPacketsNat DEF Pushed, PacketType, Piece, PieceType
      <4>3. f.pieces \in Seq(PieceType) /\ f.pieces = frame.pieces
        BY <1>4, <1>5, <3>2
      <4>4. Seqs(f) = Seqs(frame)
        BY ONLY <4>3 DEF Seqs
      <4>. HIDE DEF f, filled
      <4>5. Seqs(f) \subseteq Seqs(filled)
        BY ONLY <4>1, <4>2, <4>3, MoreHolds
      <4>. QED
        BY <4>4, <4>5
    <3>. QED
      BY <1>8, <3>1, <3>2
  <2>3. Kept = Seqs(filled)
    <3>1. CASE ends
      <4>1. /\ Closed(filled, extra') # None
            /\ Seqs(Closed(filled, extra')) = Seqs(filled)
        BY <1>2, <1>4, <3>1, ClosedHolds
      <4>2. out' = Closed(filled, extra') /\ frame' = NoFrame
        BY <1>1, <2>1, <3>1 DEF Returned
      <4>3. Seqs(NoFrame) = {}
        BY DEF NoFrame, Seqs
      <4>4. out' # None /\ Seqs(out') = Seqs(filled) /\ Seqs(frame') = {}
        BY <4>1, <4>2, <4>3
      <4>. QED
        BY <4>4 DEF Kept
    <3>2. CASE ~ends
      <4>1. frame' = filled /\ out' = None
        BY <1>1, <2>1, <3>2 DEF Returned
      <4>. QED
        BY <4>1 DEF Kept
    <3>. QED
      BY <3>1, <3>2
  <2>. QED
    BY <1>6, <2>1, <2>2, <2>3 DEF HandsOn, HandsOnNew
<1>. QED
  BY <1>7, <1>8

(* Outside a flush what has been put together stays or goes out, and a      *)
(* packet push() can use does so just if it does not close two frames.      *)
THEOREM OlderFrameGoesOut == Spec => TakenGoesOut
<1>. DEFINE Holds == HandsOn /\ (Delivers /\ Usable(sent') =>
                                   (sent'.seq \in Kept <=> ~ClosesTwo(sent')))
<1>1. IInv /\ [Next]_vars => [~Flush => Holds]_vars
  <2>. SUFFICES ASSUME IInv, Next, ~Flush PROVE Holds
    OBVIOUS
  <2>0. TypeInv /\ FrameInv /\ SentInv /\ sent.seq \in Nat /\ expected \in Nat
        /\ frame \in FrameType
    BY MaxPacketsNat DEF IInv, TypeInv, PacketType, FrameType
  <2>1. ASSUME NEW form \in Forms, NEW kind \in Kinds, NEW marker \in BOOLEAN,
               NEW last \in BOOLEAN, NEW p, p = Outgoing(form, kind, marker, last),
               Send(p) \/ Lose(p)
        PROVE  Holds
    <3>0. sent' = p /\ p \in Pushed /\ p.seq = sent.seq + 1
      BY <2>1, SendsKeeps DEF Send, Lose
    <3>1. CASE Send(p)
      <4>1. \A i \in DOMAIN frame.pieces : frame.pieces[i].seq < p.seq
        BY <2>0, <3>0, PieceNumbers DEF SentInv
      <4>2. HandsOn /\ HandsOnNew(p)
        BY <2>0, <3>0, <3>1, <4>1, PushHandsOn DEF Send
      <4>. QED
        BY <3>0, <4>2 DEF HandsOnNew
    <3>2. CASE Lose(p)
      <4>1. HandsOn
        BY <3>2 DEF Lose, HandsOn, Kept, Seqs
      <4>2. ~Delivers
        BY <2>0, <3>0, <3>2 DEF Lose, Delivers, SentInv
      <4>. QED
        BY <4>1, <4>2
    <3>. QED
      BY <2>1, <3>1, <3>2
  <2>2. CASE Again
    <3>1. /\ sent \in PacketType /\ expected = sent.seq + 1 /\ Push(sent)
          /\ sent' = sent
      BY <2>0, <2>2 DEF Again, TypeInv
    <3>2. sent \in Pushed
      BY <2>0, <3>1 DEF SentInv, Pushed, PacketType
    <3>3. HandsOn /\ HandsOnNew(sent)
      BY <2>0, <3>1, <3>2, PushHandsOn DEF SentInv
    <3>. QED
      BY <3>1, <3>3 DEF HandsOnNew
  <2>. QED
    BY <2>1, <2>2 DEF Next
<1>2. [~Flush => Holds]_vars =>
          [~Flush =>
              LET kept == Seqs(frame') \cup (IF out' = None THEN {} ELSE Seqs(out'))
              IN  /\ Seqs(frame) \subseteq kept
                  /\ Delivers /\ Usable(sent') =>
                         (sent'.seq \in kept <=> ~ClosesTwo(sent'))]_vars
  BY DEF HandsOn, Kept
<1>. QED
  BY <1>1, <1>2, Always, PTL DEF Spec, TakenGoesOut
=============================================================================
