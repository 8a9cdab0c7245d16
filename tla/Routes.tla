------------------------------- MODULE Routes -------------------------------
(***************************************************************************)
(* net/rtsp_server.cpp: which handler a request reaches, with what, and    *)
(* what the routes answer by themselves: the binary plists of a SETUP, the *)
(* Transport header of an older one, the FairPlay hello and the device's   *)
(* description (/info).  What a handler does is in Session and Handshake.  *)
(*                                                                         *)
(* Requests are those of HttpParser, a URI the sequence of its parts.  The *)
(* strings of a plist are sequences of bytes; a word that is only ever     *)
(* compared is one byte of its own.                                        *)
(***************************************************************************)
EXTENDS Integers, Sequences, SequencesExt, Sdp

LOCAL Text == INSTANCE HttpParser
LOCAL Pl == INSTANCE Plist

-----------------------------------------------------------------------------
(* Dispatch. *)

Exact(method, uri, handler) ==
    [method |-> method, uri |-> uri, exact |-> TRUE, handler |-> handler]
Prefix(method, uri, handler) ==
    [method |-> method, uri |-> uri, exact |-> FALSE, handler |-> handler]

\* In the order in which install_routes adds them.
kRoutes ==
    <<Exact("GET", <<"/info">>, "on_info"),
      Exact("POST", <<"/pair-setup">>, "on_pair_setup"),
      Exact("POST", <<"/pair-verify">>, "on_pair_verify"),
      Exact("POST", <<"/auth-setup">>, "none"),
      Exact("POST", <<"/fp-setup">>, "on_fairplay_setup"),
      Exact("OPTIONS", <<"*">>, "public"),
      Exact("OPTIONS", <<"/">>, "public"),
      Prefix("ANNOUNCE", <<>>, "on_announce"),
      Prefix("SETUP", <<>>, "on_setup"),
      Prefix("RECORD", <<>>, "on_record"),
      Prefix("PAUSE", <<>>, "on_pause"),
      Prefix("FLUSH", <<>>, "on_teardown flush"),
      Prefix("TEARDOWN", <<>>, "on_teardown"),
      Prefix("GET_PARAMETER", <<>>, "on_get_param"),
      Prefix("SET_PARAMETER", <<>>, "on_set_param"),
      Exact("POST", <<"/action">>, "on_action"),
      Prefix("PUT", <<"/rate">>, "on_rate"),
      Exact("POST", <<"/feedback">>, "on_feedback"),
      Exact("POST", <<"/event">>, "on_event"),
      Exact("PUT", <<"/metadata">>, "on_metadata"),
      Exact("POST", <<"/metadata">>, "on_metadata"),
      Prefix("POST", <<"/play">>, "on_play_url"),
      Prefix("POST", <<"/stop">>, "on_stop"),
      Prefix("POST", <<"/scrub">>, "on_scrub"),
      Prefix("GET", <<"/scrub">>, "on_get_scrub_pos"),
      Prefix("PUT", <<"/reverse">>, "on_reverse"),
      Exact("PUT", <<"/setProperty">>, "on_set_property"),
      Exact("GET", <<"/getProperty">>, "on_get_property"),
      Prefix("PUT", <<"/photo">>, "on_photo_upload"),
      Prefix("POST", <<"/photo">>, "on_photo_upload")>>

\* Every start() adds the routes once more.
InstallRoutes(routes) == routes \o kRoutes

\* tolower of the methods.
LowerCase(m) ==
    LET known == [POST |-> "post", GET |-> "get", PUT |-> "put", SETUP |-> "setup",
                  Setup |-> "setup", Post |-> "post"]
    IN  IF m \in DOMAIN known THEN known[m] ELSE m

Matches(r, req) ==
    /\ LowerCase(r.method) = LowerCase(req.method)
    /\ IF r.exact THEN req.uri = r.uri ELSE IsPrefix(r.uri, req.uri)

\* The first route that matches, or the default handler.
Dispatch(routes, req) ==
    LET hits == {i \in DOMAIN routes : Matches(routes[i], req)}
    IN  IF hits = {} THEN "on_unknown" ELSE routes[Min(hits)].handler

-----------------------------------------------------------------------------
(* What the routes read from a request. *)

\* The first of some headers that is there.
FirstHeader(req, names) ==
    LET there == SelectSeq(names, LAMBDA n : Text!Header(req, <<n>>) # <<>>)
    IN  IF there = <<>> THEN <<>> ELSE Text!Header(req, <<there[1]>>)

NumberHeader(req, names, default) == Stoi(FirstHeader(req, names), default)

\* ?if=volume; the exact route is never asked with a query, see Matches.
PropertyName(req) ==
    LET h == FirstHeader(req, <<"if", "If">>)
        q == After(req.uri, Find(req.uri, "?", 1))
        i == Find(q, "if", 1)
    IN  IF h # <<>> \/ Find(req.uri, "?", 1) = 0 \/ i = 0 THEN h
        ELSE After(q, i + 1)

\* client_port=6002-6003 of the Transport header.
TransportPorts(req) ==
    LET tr   == Text!Header(req, <<"Transport">>)
        p    == Find(tr, "client_port", 1)
        pr   == Field(tr, p + 1, ";")
        dash == Find(pr, "-", 1)
    IN  IF p = 0 \/ dash = 0 THEN <<0, 0>> ELSE PairOf(pr, dash, <<0, 0>>)

Argument(handler, req) ==
    CASE handler = "on_rate"    -> NumberHeader(req, <<"x-apple-rate", "Rate">>, 1)
      [] handler = "on_scrub"   -> NumberHeader(req, <<"position", "Position">>, 0)
      [] handler = "on_reverse" -> NumberHeader(req, <<"value">>, 0)
      [] handler = "on_set_property" -> FirstHeader(req, <<"if", "If">>)
      [] handler = "on_get_property" -> PropertyName(req)
      [] handler = "on_setup"   -> TransportPorts(req)
      [] OTHER -> <<>>

Called(routes, req) ==
    LET h == Dispatch(routes, req) IN [handler |-> h, arg |-> Argument(h, req)]

-----------------------------------------------------------------------------
(* SETUP with a binary plist. *)

Words ==
    <<"ekey", "eiv", "timingPort", "timingProtocol", "isRemoteControlOnly",
      "streams", "type", "controlPort", "streamConnectionID", "ct", "spf", "sr",
      "dataPort", "eventPort",
      "deviceID", "macAddress", "name", "model", "features", "manufacturer",
      "serialNumber", "protocolVersion", "srcvers", "pi", "vv", "statusFlags",
      "pw", "pk", "acl", "displays", "widthPixels", "heightPixels", "rotation",
      "refreshRate", "maxFPS", "overscanned", "keepAliveLowPower",
      "keepAliveSendStatsAsBody", "sourceVersion", "initialVolume",
      "audioLatencies", "inputLatencyMicros", "audioType", "outputLatencyMicros",
      "audioFormats", "audioOutputFormats", "audioInputFormats",
      "uuid", "width", "height", "220.68", "1.1", "default",
      "Content-Location", "Location", "Start-Position", "rate",
      "widthPhysical", "heightPhysical">>

Word(w) == <<64 + (CHOOSE i \in DOMAIN Words : Words[i] = w)>>

NoRequest == [ekey |-> <<>>, eiv |-> <<>>, streams |-> <<>>, timing_port |-> 0,
              timing_protocol |-> <<>>, is_remote_control_only |-> FALSE]

StreamRequest(d) ==
    LET int(w) == Pl!AsInt(Pl!Get(d, Word(w)))
    IN  [type |-> int("type"), control_port |-> int("controlPort"),
         stream_connection_id |-> int("streamConnectionID"),
         ct |-> int("ct"), spf |-> int("spf"), sr |-> int("sr")]

SetupRequest(root) ==
    LET streams == Pl!Get(root, Word("streams"))
        dicts   == IF streams.type # "ARRAY" THEN <<>>
                   ELSE SelectSeq(streams.array, LAMBDA s : s.type = "DICT")
    IN  [ekey |-> Pl!AsData(Pl!Get(root, Word("ekey"))),
         eiv |-> Pl!AsData(Pl!Get(root, Word("eiv"))),
         timing_port |-> Pl!AsInt(Pl!Get(root, Word("timingPort"))),
         timing_protocol |-> Pl!AsString(Pl!Get(root, Word("timingProtocol"))),
         is_remote_control_only |-> Pl!AsBool(Pl!Get(root, Word("isRemoteControlOnly"))),
         streams |-> [i \in DOMAIN dicts |-> StreamRequest(dicts[i])]]

\* An entry of a dict.
Entry(w, v) == [k \in {Word(w)} |-> v]

StreamReply(s) ==
    Pl!MakeDict(Entry("dataPort", Pl!MakeInt(s.data_port))
            @@ (IF s.type = 96 /\ s.control_port > 0
                THEN Entry("controlPort", Pl!MakeInt(s.control_port)) ELSE Pl!NoEntries)
            @@ Entry("type", Pl!MakeInt(s.type)))

\* A refused SETUP is answered 200 with no body.
SetupReply(resp) ==
    IF ~resp.ok THEN <<>>
    ELSE Pl!SerializeBinary(Pl!MakeDict(
             Entry("timingPort", Pl!MakeInt(resp.timing_port))
             @@ Entry("eventPort", Pl!MakeInt(resp.event_port))
             @@ Entry("streams", Pl!MakeArray([i \in DOMAIN resp.streams |->
                                                StreamReply(resp.streams[i])]))))

\* The route, with the handler's response to SetupRequest of the body: the
\* handler is asked only with a dict.
SetupAp2(body, resp) ==
    IF Pl!ParseBinary(body).value.type # "DICT" THEN <<>> ELSE SetupReply(resp)

\* on_play_url_to: a Location stands in for a Content-Location, a rate must be
\* a real number, a position may be either.
PlayCommand(dict) ==
    LET get(w)  == Pl!Get(dict, Word(w))
        content == Pl!AsString(get("Content-Location"))
        at      == get("Start-Position")
        rate    == get("rate")
    IN  [content_url   |-> IF content # <<>> THEN content ELSE Pl!AsString(get("Location")),
         start_pos_sec |-> IF at.type \in {"REAL", "INT"} THEN Pl!AsReal(at) ELSE 0,
         rate          |-> IF rate.type = "REAL" THEN Pl!AsReal(rate) ELSE 1]

-----------------------------------------------------------------------------
(* The FairPlay hello; the table of the four replies stands behind its     *)
(* first 14 bytes as zeros.                                                *)

kFplyReply(mode) ==
    <<70, 80, 76, 89, 3, 1, 2, 0, 0, 0, 0, 130, 2, mode>> \o [i \in 1..128 |-> 0]
kFplyHeader == <<70, 80, 76, 89, 3, 1, 4, 0, 0, 0, 0, 20>>

HandleFairplaySetup(body) ==
    LET n    == Len(body)
        mode == IF n > 14 THEN body[15] ELSE 0
    IN  IF n < 12 THEN <<>>
        ELSE CASE body[5] # 3 -> <<>>
               [] body[7] = 1 -> IF mode > 3 THEN <<>> ELSE kFplyReply(mode)
               [] body[7] = 3 -> IF n < 20 THEN <<>>
                                 ELSE kFplyHeader \o SubSeq(body, n - 19, n)
               [] OTHER -> <<>>

-----------------------------------------------------------------------------
(* /info.  Fractions are rounded to whole numbers. *)

Kv(w, v)  == Pl!Element("key", Pl!Chars(Word(w)))
             \o Pl!Element("string", Pl!Chars(Pl!Escape(v)))
Kvi(w, n) == Pl!Element("key", Pl!Chars(Word(w))) \o Pl!Element("integer", <<Pl!Num(n)>>)
Kvb(w, b) == Pl!Element("key", Pl!Chars(Word(w))) \o <<Pl!Tag(IF b THEN "true" ELSE "false")>>
Kvr(w, n) == Pl!Element("key", Pl!Chars(Word(w))) \o Pl!Element("real", <<Pl!Num(n)>>)
KvArray(w, dicts) ==
    Pl!Element("key", Pl!Chars(Word(w)))
    \o Pl!Element("array", FlattenSeq([i \in DOMAIN dicts |->
                                          Pl!Element("dict", dicts[i])]))

Identity(dev) ==
    Kv("deviceID", dev.device_id) \o Kv("macAddress", dev.device_id)
    \o Kv("name", dev.name) \o Kv("model", dev.model)
    \o Kvi("features", dev.features) \o Kv("manufacturer", dev.manufacturer)
    \o (IF dev.serial_number = <<>> THEN <<>>
        ELSE Kv("serialNumber", dev.serial_number))
    \o Kv("protocolVersion", Word("1.1")) \o Kv("srcvers", Word("220.68"))
    \o Kv("pi", dev.device_id) \o Kvi("vv", 2) \o Kvi("statusFlags", 68)
    \o Kvi("pw", IF dev.requires_encryption THEN 1 ELSE 0)
    \o (IF dev.public_key_b64 = <<>> THEN Kvi("pk", 0)
        ELSE Pl!Element("key", Pl!Chars(Word("pk")))
             \o Pl!Element("data", Pl!Chars(dev.public_key_b64)))
    \o Kvi("acl", 0)

Display ==
    Kv("uuid", Word("uuid")) \o Kvi("widthPhysical", 0) \o Kvi("heightPhysical", 0)
    \o Kvi("width", 1920) \o Kvi("height", 1080)
    \o Kvi("widthPixels", 1920) \o Kvi("heightPixels", 1080)
    \o Kvb("rotation", FALSE) \o Kvr("refreshRate", 0) \o Kvi("maxFPS", 60)
    \o Kvb("overscanned", FALSE) \o Kvi("features", 14)

Latency(type) == Kvi("type", type) \o Kvi("inputLatencyMicros", 0)
                 \o Kv("audioType", Word("default")) \o Kvi("outputLatencyMicros", 0)
Format(type)  == Kvi("audioOutputFormats", 67108860) \o Kvi("type", type)
                 \o Kvi("audioInputFormats", 67108860)

BuildInfoPlist(dev) ==
    <<Pl!Tag("?xml"), Pl!Tag("!DOCTYPE")>>
    \o Pl!Element("plist", Pl!Element("dict",
           Identity(dev) \o KvArray("displays", <<Display>>)
           \o Kvi("keepAliveLowPower", 1) \o Kvb("keepAliveSendStatsAsBody", TRUE)
           \o Kv("sourceVersion", Word("220.68")) \o Kvr("initialVolume", 1)
           \o KvArray("audioLatencies", <<Latency(100), Latency(101)>>)
           \o KvArray("audioFormats", <<Format(100), Format(101)>>)))
=============================================================================
