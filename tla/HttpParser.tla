----------------------------- MODULE HttpParser -----------------------------
(***************************************************************************)
(* net/http_parser.cpp: the incremental parser of HTTP and RTSP requests   *)
(* that every connection owns, and the part of the connection's worker     *)
(* (http_server.cpp) that feeds it with what each recv() returned.         *)
(*                                                                         *)
(* A byte string is a sequence of tokens.  "CR", "LF", "SP", ":" and ";"   *)
(* are the bytes the parser looks for, the digits are themselves, and any  *)
(* other token is a byte, or a run of bytes, the parser never looks into.  *)
(* Positions count from 1: `at' is the next token, consumed + 1.           *)
(***************************************************************************)
EXTENDS Integers, Sequences, SequencesExt, Loops

LineEnds == {"CR", "LF"}

NoHeaders == [h \in {} |-> <<>>]

NewRequest == [method |-> <<>>, uri |-> <<>>, protocol |-> <<>>,
               headers |-> NoHeaders, body |-> <<>>]

\* The members of HttpRequestParser; body_is_chunked_ only names the state.
NewParser == [state |-> "S_METHOD", req |-> NewRequest, body_expected |-> 0,
              chunk_left |-> 0, skip_next_lf |-> FALSE,
              cur_header_name |-> <<>>, line_buffer |-> <<>>]

-----------------------------------------------------------------------------
(* Headers. *)

HexDigits == <<"0", "1", "2", "3", "4", "5", "6", "7", "8", "9",
               "a", "b", "c", "d", "e", "f">>
LargeDigits == <<"0", "1", "2", "3", "4", "5", "6", "7", "8", "9",
                 "A", "B", "C", "D", "E", "F">>

DigitValue(d) == (CHOOSE i \in 1..16 : d \in {HexDigits[i], LargeDigits[i]}) - 1

IsDigit(d, base) == \E i \in 1..base : d \in {HexDigits[i], LargeDigits[i]}

\* The first position from `at' on that holds one of `stops', or the end.
EndOf(seg, at, stops) ==
    Min({e \in at..Len(seg) : seg[e] \in stops} \cup {Len(seg) + 1})

\* trim_space: the spaces at both ends go.
Trim(s) ==
    LET solid == {i \in DOMAIN s : s[i] # "SP"}
    IN  IF solid = {} THEN <<>> ELSE SubSeq(s, Min(solid), Max(solid))

Header(req, key) ==
    IF key \in DOMAIN req.headers THEN req.headers[key] ELSE <<>>

Number(digits, base) ==
    FoldLeft(LAMBDA n, d : base * n + DigitValue(d), 0, digits)

\* stoll reads the leading digits; no digit at all throws, which is 0 here.
LeadingNumber(s) ==
    LET stop == {i \in DOMAIN s : ~IsDigit(s[i], 10)}
    IN  Number(IF stop = {} THEN s ELSE SubSeq(s, 1, Min(stop) - 1), 10)

ContentLength(req) == LeadingNumber(Header(req, <<"Content-Length">>))

CSeq(req) == LeadingNumber(Header(req, <<"CSeq">>))

SetHeader(req, name, value) ==
    [req EXCEPT !.headers =
        [h \in DOMAIN @ \cup {name} |-> IF h = name THEN value ELSE @[h]]]

-----------------------------------------------------------------------------
(* One turn of the loop in parse(), a definition for each state.  A turn   *)
(* goes on (Go), or leaves parse() at once (Leave).                        *)

Go(p, at) == [p |-> p, at |-> at, left |-> FALSE]
Leave(p, at) == [p |-> p, at |-> at, left |-> TRUE]
Fail(p, at) == Leave([p EXCEPT !.state = "S_ERROR"], at)

\* (Mutant: no note of a CR at the end of the segment.)
PastLineEndForgets(p, seg, e) ==
    IF seg[e] = "LF" THEN Go(p, e + 1)
    ELSE IF e < Len(seg) /\ seg[e + 1] = "LF" THEN Go(p, e + 2)
    ELSE Go(p, e + 1)

\* Behind a line end at e: a CR takes the LF with it when that is already
\* here, and leaves a note for the next parse() when it is not.
PastLineEnd(p, seg, e) ==
    IF seg[e] = "LF" THEN Go(p, e + 1)
    ELSE IF e < Len(seg) /\ seg[e + 1] = "LF" THEN Go(p, e + 2)
    ELSE Go([p EXCEPT !.skip_next_lf = TRUE], e + 1)

RequestLine(p, seg, at) ==
    LET e    == EndOf(seg, at, {"SP"} \cup LineEnds)
        word == p.line_buffer \o SubSeq(seg, at, e - 1)
        q    == [p EXCEPT !.line_buffer = <<>>]
    IN  CASE e > Len(seg) -> Leave([p EXCEPT !.line_buffer = word], e)
          [] e <= Len(seg) /\ seg[e] = "SP" /\ p.state = "S_METHOD" ->
                Go([q EXCEPT !.req.method = word, !.state = "S_URI"], e + 1)
          [] e <= Len(seg) /\ seg[e] = "SP" /\ p.state = "S_URI" ->
                Go([q EXCEPT !.req.uri = word, !.state = "S_PROTO"], e + 1)
          [] e <= Len(seg) /\ seg[e] \in LineEnds /\ p.state = "S_PROTO" ->
                PastLineEnd([q EXCEPT !.req.protocol = word,
                                      !.state = "S_HEADER_NAME"], seg, e)
          [] OTHER -> Fail([p EXCEPT !.line_buffer = word], e)

\* A line without a colon ends the headers, whatever it holds.
HeaderName(p, seg, at) ==
    LET e    == EndOf(seg, at, {":"} \cup LineEnds)
        name == p.line_buffer \o SubSeq(seg, at, e - 1)
        q    == [p EXCEPT !.line_buffer = <<>>]
    IN  IF e > Len(seg) THEN Leave([p EXCEPT !.line_buffer = name], e)
        ELSE IF seg[e] = ":"
        THEN Go([q EXCEPT !.cur_header_name = Trim(name),
                          !.state = "S_HEADER_VALUE"], e + 1)
        ELSE PastLineEnd([q EXCEPT !.state = "S_HEADERS_DONE"], seg, e)

HeaderValue(p, seg, at) ==
    LET e     == EndOf(seg, at, LineEnds)
        value == p.line_buffer \o SubSeq(seg, at, e - 1)
        name  == p.cur_header_name
    IN  IF e > Len(seg) THEN Leave([p EXCEPT !.line_buffer = value], e)
        ELSE PastLineEnd(
               [p EXCEPT !.req = IF name = <<>> THEN @
                                 ELSE SetHeader(@, name, Trim(value)),
                         !.line_buffer = <<>>, !.cur_header_name = <<>>,
                         !.state = "S_HEADER_NAME"], seg, e)

IsChunked(req) == "chunked" \in ToSet(Header(req, <<"Transfer-Encoding">>))

\* Takes no token: the body's length and framing are known now.
HeadersDone(p, at) ==
    LET expected == ContentLength(p.req)
        chunked  == IsChunked(p.req)
    IN  Go([p EXCEPT !.body_expected = expected,
                     !.line_buffer = IF chunked THEN <<>> ELSE @,
                     !.chunk_left = IF chunked THEN 0 ELSE @,
                     !.state = CASE chunked -> "S_CHUNK_SIZE"
                                 [] ~chunked /\ expected = 0 -> "S_COMPLETE"
                                 [] OTHER -> "S_BODY"], at)

Body(p, seg, at) ==
    LET take == Min({p.body_expected - Len(p.req.body), Len(seg) - at + 1})
        body == p.req.body \o SubSeq(seg, at, at + take - 1)
    IN  Go([p EXCEPT !.req.body = body,
                     !.state = IF Len(body) = p.body_expected
                               THEN "S_COMPLETE" ELSE @], at + take)

\* The digits before a ';' are the size.
HexPart(line) == SubSeq(line, 1, EndOf(line, 1, {";"}) - 1)

\* What follows a chunk-size line.
SizeLine(p, line, at) ==
    LET hex  == HexPart(line)
        size == Number(hex, 16)
    IN  IF \E i \in DOMAIN hex : ~IsDigit(hex[i], 16)
        THEN Fail([p EXCEPT !.line_buffer = line], at)
        ELSE Go([p EXCEPT !.line_buffer = <<>>, !.chunk_left = size,
                          !.state = IF size = 0 THEN "S_CHUNK_TRAILER"
                                    ELSE "S_CHUNK_DATA"], at)

\* The end of the segment ends the size line just as a line feed does.
ChunkSize(p, seg, at) ==
    LET e    == EndOf(seg, at, LineEnds)
        line == p.line_buffer \o SubSeq(seg, at, e - 1)
    IN  IF e <= Len(seg) /\ seg[e] = "CR"
        THEN Go([p EXCEPT !.line_buffer = line,
                          !.state = "S_CHUNK_SIZE_CR"], e + 1)
        ELSE SizeLine(p, line, Min({e, Len(seg)}) + 1)

ChunkSizeCr(p, seg, at) ==
    IF seg[at] = "LF" THEN SizeLine(p, p.line_buffer, at + 1) ELSE Fail(p, at)

ChunkData(p, seg, at) ==
    LET take == Min({p.chunk_left, Len(seg) - at + 1})
    IN  Go([p EXCEPT !.req.body = @ \o SubSeq(seg, at, at + take - 1),
                     !.chunk_left = @ - take,
                     !.state = IF p.chunk_left = take THEN "S_CHUNK_DATA_CR"
                               ELSE @], at + take)

ChunkDataEnd(p, seg, at) ==
    CASE p.state = "S_CHUNK_DATA_CR" /\ seg[at] = "CR" ->
            Go([p EXCEPT !.state = "S_CHUNK_DATA_LF"], at + 1)
      [] p.state = "S_CHUNK_DATA_LF" /\ seg[at] = "LF" ->
            Go([p EXCEPT !.state = "S_CHUNK_SIZE", !.line_buffer = <<>>], at + 1)
      [] OTHER -> Fail(p, at)

\* Lines are dropped until an empty one; no note is left for a cut CR LF.
ChunkTrailer(p, seg, at) ==
    LET e     == EndOf(seg, at, LineEnds)
        line  == p.line_buffer \o SubSeq(seg, at, e - 1)
        crlf  == e < Len(seg) /\ seg[e] = "CR" /\ seg[e + 1] = "LF"
    IN  IF e > Len(seg) THEN Go([p EXCEPT !.line_buffer = line], e)
        ELSE Go([p EXCEPT !.line_buffer = <<>>,
                          !.state = IF line = <<>> THEN "S_COMPLETE" ELSE @],
                IF crlf THEN e + 2 ELSE e + 1)

Turn(p, seg, at) ==
    CASE p.state \in {"S_METHOD", "S_URI", "S_PROTO"} -> RequestLine(p, seg, at)
      [] p.state = "S_HEADER_NAME"   -> HeaderName(p, seg, at)
      [] p.state = "S_HEADER_VALUE"  -> HeaderValue(p, seg, at)
      [] p.state = "S_HEADERS_DONE"  -> HeadersDone(p, at)
      [] p.state = "S_BODY"          -> Body(p, seg, at)
      [] p.state = "S_CHUNK_SIZE"    -> ChunkSize(p, seg, at)
      [] p.state = "S_CHUNK_SIZE_CR" -> ChunkSizeCr(p, seg, at)
      [] p.state = "S_CHUNK_DATA"    -> ChunkData(p, seg, at)
      [] p.state \in {"S_CHUNK_DATA_CR", "S_CHUNK_DATA_LF"} ->
            ChunkDataEnd(p, seg, at)
      [] p.state = "S_CHUNK_TRAILER" -> ChunkTrailer(p, seg, at)

Ended(t, seg) == \/ t.left
                 \/ t.p.state \in {"S_COMPLETE", "S_ERROR"}
                 \/ t.at > Len(seg) /\ t.p.state # "S_HEADERS_DONE"

NextTurn(t, seg) == IF Ended(t, seg) THEN t ELSE Turn(t.p, seg, t.at)

\* Every turn but one, in S_HEADERS_DONE, takes a token.
Loop(p, seg, at) ==
    Iterate(LAMBDA t, i : NextTurn(t, seg), Go(p, at), Len(seg) + 2).p

\* parse(): an LF whose CR ended the segment before is skipped first.
Parse(p, seg) ==
    LET skips == p.skip_next_lf /\ seg # <<>> /\ seg[1] = "LF"
    IN  Loop([p EXCEPT !.skip_next_lf = @ /\ ~skips], seg, IF skips THEN 2 ELSE 1)

\* take_request() starts the parser anew, its note of an LF included.
TakeRequest(p) == NewParser

-----------------------------------------------------------------------------
(* connection_worker: what one recv() returned goes to the parser, a       *)
(* request that is complete is answered, an error ends the connection.     *)
(* What the parser did not consume is dropped with the buffer.             *)

NewConnection == [parser |-> NewParser, answered |-> <<>>, closed |-> FALSE]

Parsed(c, p) ==
    CASE p.state = "S_COMPLETE" ->
            [c EXCEPT !.parser = TakeRequest(p), !.answered = Append(@, p.req)]
      [] p.state = "S_ERROR" -> [c EXCEPT !.parser = p, !.closed = TRUE]
      [] OTHER -> [c EXCEPT !.parser = p]

Receive(c, seg) == IF c.closed THEN c ELSE Parsed(c, Parse(c.parser, seg))

-----------------------------------------------------------------------------
(* Responses. *)

Digits10(n) == IF n < 10 THEN <<HexDigits[n + 1]>>
               ELSE <<HexDigits[(n \div 10) + 1], HexDigits[(n % 10) + 1]>>

\* make_rtsp_ok and set_body: a length is named when there is a body.
MakeOk(cseq, body) ==
    [code |-> "200", reason |-> "OK", body |-> body,
     headers |->
       <<[name |-> "CSeq", value |-> Digits10(cseq)]>>
       \o (IF body = <<>> THEN <<>>
           ELSE <<[name |-> "Content-Length", value |-> Digits10(Len(body))]>>)
       \o <<[name |-> "Server", value |-> <<"airplay2lib">>]>>]

Serialize(r) ==
    <<"RTSP/1.0", "SP", r.code, "SP", r.reason, "CR", "LF">>
    \o Joined([i \in DOMAIN r.headers |->
                   <<r.headers[i].name, ":", "SP">> \o r.headers[i].value \o <<"CR", "LF">>],
              Len(r.headers))
    \o <<"CR", "LF">> \o r.body

=============================================================================
