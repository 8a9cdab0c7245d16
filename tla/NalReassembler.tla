--------------------------- MODULE NalReassembler ---------------------------
(* The video frames put together from RTP packets                           *)
(* (codec/nal_reassembler.cpp), for H.264 and H.265, under a network that   *)
(* loses packets and delivers one twice.  Bytes are abstracted to pieces:   *)
(* which packet they came from, of which frame, and how they continue.      *)
EXTENDS Naturals, Sequences

CONSTANTS
    MaxPackets,   \* bound: the packets the sender sends
    None          \* no frame is returned

ASSUME MaxPacketsNat == MaxPackets \in Nat

VARIABLES
    codec,        \* codec_
    frame,        \* frame_, the frame being put together
    extra,        \* codec_extra_, the kinds of the parameter sets in it
    expected,     \* next_expected_seq_, 0 before the first packet
    out,          \* the frame the last push() returned
    sent,         \* the last packet the sender sent
    open,         \* the kind of NAL the sender is sending in fragments
    doubled,      \* bound: the last packet has been delivered twice
    hollow        \* history: the packets that push() dropped unmarked

vars == <<codec, frame, extra, expected, out, sent, open, doubled, hollow>>

(* A packet holds one NAL, several ("ap": STAP-A or AP; here the parameter  *)
(* sets, as senders use it), a fragment ("start", "more"), or what push()   *)
(* cannot use.  That is "bad" (an unknown type, a first length that does    *)
(* not fit, a fragment of H.264 without its header) and is marked, or it is *)
(* dropped unmarked: "cut" is a STAP-A, AP or fragment of H.265 of less     *)
(* than three bytes, "short" a payload without a NAL header, for which      *)
(* push() returns before it has looked at the marker.                       *)
Hollow == {"cut", "short"}
Useless == Hollow \cup {"bad"}
Forms == {"nal", "ap", "start", "more"} \cup Useless
ParamKinds == IF codec = "h264" THEN <<"sps", "pps">> ELSE <<"vps", "sps", "pps">>
IsParam(k) == k \in {"vps", "sps", "pps"}
Kinds == {"slice", "idr"} \cup {ParamKinds[i] : i \in DOMAIN ParamKinds}

NoFrame == [ts |-> 0, loss |-> FALSE, key |-> FALSE, fu |-> FALSE, pieces |-> <<>>]
Piece(p) == [seq |-> p.seq, ts |-> p.ts, form |-> p.form]

(* In H.264 a parameter set sent whole makes a frame a key frame too.        *)
IsKey(k) == k = "idr" \/ (codec = "h264" /\ IsParam(k))

(* The parameter set that makes the ones before it obsolete.                *)
Restarts(k) == k = ParamKinds[1]
-----------------------------------------------------------------------------
(* A packet added to the frame.  A fragment whose start is missing is left  *)
(* out and the frame marked.                                                *)
Fragment(f, p) ==
    IF p.form = "start" \/ f.fu
    THEN [f EXCEPT !.fu = ~p.last,
                   !.key = @ \/ (p.form = "start" /\ p.kind = "idr"),
                   !.pieces = Append(@, Piece(p))]
    ELSE [f EXCEPT !.loss = TRUE]

Whole(f, p) ==
    [f EXCEPT !.key = @ \/ IsKey(p.kind) \/ (p.form = "ap" /\ codec = "h264"),
              !.pieces = Append(@, Piece(p))]

Added(f, p) ==
    CASE p.form \in {"nal", "ap"}    -> Whole(f, p)
      [] p.form \in {"start", "more"} -> Fragment(f, p)
      [] p.form = "bad"              -> [f EXCEPT !.loss = TRUE]
      [] p.form \in Hollow           -> f

(* push_h264_stap_a and push_h265_ap add parameter sets without clearing    *)
(* the ones that are there.                                                 *)
ExtraAfter(p) ==
    CASE p.form = "ap" -> extra \o ParamKinds
      [] p.form \in {"nal", "start"} /\ IsParam(p.kind) ->
            Append(IF Restarts(p.kind) THEN <<>> ELSE extra, p.kind)
      [] OTHER -> extra

(* close_frame: the frame as it is handed out, the parameter sets in front  *)
(* of a key frame; nothing if it is empty.                                  *)
Closed(f, params) ==
    IF f.pieces = <<>> THEN None
    ELSE [ts |-> f.ts, loss |-> f.loss, key |-> f.key, pieces |-> f.pieces,
          params |-> IF f.key THEN params ELSE <<>>]

(* Variant: a gap is marked only in the middle of a fragmented NAL.         *)
MarkedInFragments(p) ==
    IF expected \notin {0, p.seq} /\ frame.fu
    THEN [frame EXCEPT !.loss = TRUE] ELSE frame

(* The frame under way when a gap is seen is marked, if it has a content.   *)
Marked(p) ==
    IF expected \notin {0, p.seq} /\ (frame.fu \/ frame.pieces # <<>>)
    THEN [frame EXCEPT !.loss = TRUE] ELSE frame

(* Variant: frames end at the marker only.                                  *)
NewTsNever(p) == FALSE

NewTs(p) == frame.ts # 0 /\ p.ts # frame.ts

(* Variant: of two frames closed by one packet the second is returned.      *)
ReturnedLast(first, second) == IF second # None THEN second ELSE first

Returned(first, second) == IF first # None THEN first ELSE second

Timed(f, ts) == IF f.ts = 0 THEN [f EXCEPT !.ts = ts] ELSE f

(* Another timestamp closes the frame under way, then the packet is added,  *)
(* then a marker closes the frame it is in.  When one packet closes two     *)
(* frames the second is destroyed: the comment there means to keep it, but  *)
(* close_frame has taken it out of frame_.                                  *)
Push(p) ==
    LET first  == IF NewTs(p) THEN Closed(Marked(p), extra) ELSE None
        filled == Added(Timed(IF NewTs(p) THEN NoFrame ELSE Marked(p), p.ts), p)
        ends   == p.marker /\ p.form # "short" /\ filled.pieces # <<>>
    IN  /\ extra' = ExtraAfter(p)
        /\ out' = Returned(first, IF ends THEN Closed(filled, extra') ELSE None)
        /\ frame' = IF ends THEN NoFrame ELSE filled
        /\ expected' = p.seq + 1
        /\ hollow' = IF p.form \in Hollow THEN hollow \cup {p.seq} ELSE hollow

(* VideoRtpReceiver::flush throws the frame under way away.                 *)
Flush ==
    /\ frame' = NoFrame
    /\ out' = None
    /\ UNCHANGED <<codec, extra, expected, sent, open, doubled, hollow>>
-----------------------------------------------------------------------------
(* The sender: packets in sequence, a marker on the last packet of each     *)
(* frame, the fragments of a NAL in a row.                                  *)
Outgoing(form, kind, marker, last) ==
    [seq |-> sent.seq + 1, ts |-> IF sent.marker THEN sent.ts + 1 ELSE sent.ts,
     form |-> form, kind |-> kind, marker |-> marker, last |-> last]

Legal(p) ==
    /\ p.marker => p.last
    /\ p.form \in {"nal", "ap"} => p.last
    /\ p.form = "start" => ~p.last
    /\ p.form = "cut" /\ codec = "h264" => open = None /\ p.last
    /\ IF open # None THEN p.form \in {"more"} \cup Useless /\ p.kind = open
       ELSE p.form # "more" /\ (p.form \in {"ap"} \cup Useless => p.kind = "slice")

Sends(p) ==
    /\ sent.seq < MaxPackets
    /\ Legal(p)
    /\ sent' = p
    /\ open' = IF p.last THEN None ELSE p.kind
    /\ doubled' = FALSE
    /\ UNCHANGED codec

Send(p) == Sends(p) /\ Push(p)

Lose(p) == Sends(p) /\ UNCHANGED <<frame, extra, expected, out, hollow>>

(* The network delivers a packet a second time.                             *)
Again ==
    /\ expected = sent.seq + 1 /\ ~doubled
    /\ doubled' = TRUE
    /\ Push(sent)
    /\ UNCHANGED <<codec, sent, open>>

Init ==
    /\ codec \in {"h264", "h265"}
    /\ frame = NoFrame /\ extra = <<>> /\ expected = 0 /\ out = None
    /\ sent = [seq |-> 0, ts |-> 0, form |-> "nal", kind |-> "slice",
               marker |-> TRUE, last |-> TRUE]
    /\ open = None /\ doubled = FALSE /\ hollow = {}

Next ==
    \/ \E form \in Forms, kind \in Kinds, marker, last \in BOOLEAN :
          LET p == Outgoing(form, kind, marker, last) IN Send(p) \/ Lose(p)
    \/ Again
    \/ Flush

Spec == Init /\ [][Next]_vars
-----------------------------------------------------------------------------
PieceType == [seq : 1 .. MaxPackets, ts : 1 .. MaxPackets, form : Forms]
KindsOfAny == {"slice", "idr", "vps", "sps", "pps"}
PacketType ==
    [seq : 0 .. MaxPackets, ts : 0 .. MaxPackets, form : Forms,
     kind : KindsOfAny, marker : BOOLEAN, last : BOOLEAN]

(* Type invariant.                                                          *)
TypeInv ==
    /\ codec \in {"h264", "h265"}
    /\ frame \in [ts : 0 .. MaxPackets, loss : BOOLEAN, key : BOOLEAN,
                  fu : BOOLEAN, pieces : Seq(PieceType)]
    /\ extra \in Seq(KindsOfAny)
    /\ expected \in 0 .. MaxPackets + 1
    /\ out \in [ts : 1 .. MaxPackets, loss : BOOLEAN, key : BOOLEAN,
                pieces : Seq(PieceType), params : Seq(KindsOfAny)] \cup {None}
    /\ sent \in PacketType
    /\ open \in KindsOfAny \cup {None} /\ doubled \in BOOLEAN
    /\ hollow \subseteq 1 .. MaxPackets

(* What no frame is told by is not a frame.                                 *)
ASSUME NoneIsNoFrame ==
    None \notin [ts : 1 .. MaxPackets, loss : BOOLEAN, key : BOOLEAN,
                 pieces : Seq(PieceType), params : Seq(KindsOfAny)]

Seqs(f) == {f.pieces[i].seq : i \in DOMAIN f.pieces}

(* A frame handed to the renderer holds the data of one frame of the        *)
(* sender, the one of its timestamp, whatever packets are lost or doubled.  *)
OneFrame ==
    out # None => \A i \in DOMAIN out.pieces : out.pieces[i].ts = out.ts

(* A frame not marked with has_loss does not begin in the middle of a       *)
(* fragmented NAL, has no piece twice, and between its first packet and its *)
(* last nothing is missing but packets that came and were too short to hold *)
(* anything, which push() drops without marking the frame.                  *)
CleanHasNoHole ==
    out # None /\ ~out.loss =>
        /\ out.pieces[1].form # "more"
        /\ \A i \in DOMAIN out.pieces : i > 1 =>
               LET before == out.pieces[i - 1].seq
               IN  /\ before < out.pieces[i].seq
                   /\ before + 1 .. out.pieces[i].seq - 1 \subseteq hollow

(* The packet of a step that delivers one, and whether push() has a use for *)
(* it; whether it is a frame of its own that comes while another frame is   *)
(* still open.                                                              *)
Delivers == expected' = sent'.seq + 1

Usable(p) ==
    p.form \in {"nal", "ap", "start"} \/ (p.form = "more" /\ frame.fu /\ ~NewTs(p))

ClosesTwo(p) == p.marker /\ NewTs(p) /\ frame.pieces # <<>>

(* What push() has put together stays in the frame under way until that     *)
(* frame goes out, and so does the packet that is new, unless it closes two *)
(* frames at once: a packet with a marker, alone in its frame, behind a     *)
(* frame whose own marker is lost.  Of those two the older goes out, and    *)
(* the younger is destroyed, which the comment at that place denies.        *)
TakenGoesOut ==
    [][~Flush =>
          LET kept == Seqs(frame') \cup (IF out' = None THEN {} ELSE Seqs(out'))
          IN  /\ Seqs(frame) \subseteq kept
              /\ Delivers /\ Usable(sent') => (sent'.seq \in kept <=> ~ClosesTwo(sent'))]_vars
=============================================================================
