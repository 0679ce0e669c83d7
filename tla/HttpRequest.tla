---------------------------- MODULE HttpRequest ----------------------------
(***************************************************************************)
(* One request on its way through the server: the bytes arrive in pieces,  *)
(* http_parse_message() cuts them into method, URI, headers and body,      *)
(* handle_http_message() and the handle_X_call() functions look the        *)
(* parameters up with http_get_var() and call the store, which is          *)
(* ImageDatabase here, and an answer goes back.                            *)
(*                                                                         *)
(* The stream is a sequence of tokens, the delimiters of the parser and    *)
(* the words between them, and then the bytes of the body; the query       *)
(* string is one word, whose parameters keep the shapes http_get_var()     *)
(* tells apart: what their key ends in, and whether the value is empty, or *)
(* as long as the buffer it is copied to.  The handlers keep nothing from  *)
(* one request to the next, so a behaviour is one request to a store with  *)
(* some images in it.  What a message leaves for the next, and a length    *)
(* below 0, are HttpConnection's subject; what other threads do is         *)
(* ImgfsServer's.  The short allocations of http_get_var() succeed.        *)
(***************************************************************************)
EXTENDS Integers, Sequences, SequencesExt, FiniteSetsExt

CONSTANTS
    Requests,  \* what clients send
    MaxHeaders,  \* MAX_HEADERS
    Stores,    \* what the store may hold when the request comes
    ImgIds, EmptyId, Images, NonImages, NoImage, Resolutions,  \* of ImageDatabase
    Garbled,   \* a name with the bytes that happen to follow it
    Padded     \* what a body may be whose last bytes are zeros instead of its own

VARIABLES
    phase,    \* "receiving", "dispatch", "in_call", "done", or "crashed" once an
              \* address that is none was used: the server dies, or anything
    request,  \* the request
    stream,   \* the tokens of it in rcvbuf
    reply,    \* the answer to it
    db, durable, call  \* the store

store == <<db, durable, call>>
vars == <<phase, request, stream, reply, store>>

Store == INSTANCE ImageDatabase
-----------------------------------------------------------------------------
(***************************************************************************)
(* What a client sends                                                     *)
(***************************************************************************)
Space == <<" ">>
Line == <<"CR", "LF">>
KeyEnd == <<":", " ">>
BlankLine == Line \o Line

\* A header may stand without a space after its colon; the value of
\* Content-Length is the length of the body.
HeaderText(h) == <<h.key, ":">> \o (IF h.spaced THEN Space ELSE <<>>) \o <<h.value>> \o Line
HeadText(r) ==
    <<r.method>> \o Space \o <<"URI">> \o Space \o <<r.protocol>> \o Line
        \o FlattenSeq([i \in DOMAIN r.headers |-> HeaderText(r.headers[i])]) \o Line
HasBody(r) == r.size > 0
BodyText(r) == [i \in 1 .. r.size |-> "byte"]
Text(r) == HeadText(r) \o BodyText(r)

\* The words hold no delimiter, or none the parser looks for where they stand.
Word == STRING \ {" ", ":", "CR", "LF"}
ASSUME RequestsAssumption ==
    \A r \in Requests :
        /\ r.method \in Word /\ r.protocol \in Word
        /\ r.headers \in Seq([key : Word, value : Word, spaced : BOOLEAN])
        /\ \A i \in DOMAIN r.headers :
            r.headers[i].key = "Content-Length" => r.headers[i].value = "length"
        /\ r.size \in Nat
        /\ r.params \in Seq([key : STRING, value : [text : Seq(STRING), len : Nat]])
ASSUME MaxHeadersAssumption == MaxHeaders \in Nat
ASSUME PaddedAssumption == Padded # {} /\ Padded \subseteq Images \cup NonImages
ASSUME StoresAssumption == \A images \in Stores : images \subseteq ImgIds \X Images
-----------------------------------------------------------------------------
(***************************************************************************)
(* http_parse_message()                                                    *)
(***************************************************************************)
\* strstr(): where d begins in s, at or after from; 0 if nowhere.
Find(s, d, from) ==
    LET places == {i \in from .. Len(s) - Len(d) + 1 : SubSeq(s, i, i + Len(d) - 1) = d}
    IN  IF places = {} THEN 0 ELSE Min(places)

\* get_next_token(): the text up to the delimiter, and where the next begins.
Token(s, d, from) ==
    LET i == IF from = 0 THEN 0 ELSE Find(s, d, from)
    IN  [val |-> IF i = 0 THEN <<>> ELSE SubSeq(s, from, i - 1),
         next |-> IF i = 0 THEN 0 ELSE i + Len(d)]

\* http_parse_headers(): next is 0 when a delimiter was not found, and the
\* parser went on at an address that is none.
ParseHeaders(s, start) ==
    LET parse[at \in 0 .. Len(s) + 1] ==
            IF at = 0 THEN [headers |-> <<>>, next |-> 0]
            ELSE IF Find(s, Line, at) = at THEN [headers |-> <<>>, next |-> at + Len(Line)]
            ELSE LET key == Token(s, KeyEnd, at)
                     value == Token(s, Line, key.next)
                     rest == parse[value.next]
                 IN  [rest EXCEPT !.headers = <<[key |-> key.val, value |-> value.val]>> \o @]
    IN  parse[start]

\* The first header whose key Content-Length begins with.
LengthKeys == {<<"Content-Length">>, <<"Content">>}
LengthHeaders(hs) == {i \in DOMAIN hs : hs[i].key \in LengthKeys}
ContentLength(hs) ==
    IF /\ LengthHeaders(hs) # {}
       /\ hs[Min(LengthHeaders(hs))].value = <<"length">>
    THEN request.size ELSE 0

\* (Mutant: the end of the first line is taken for the end of the head.)
HeadArrivedByLine(s) == Find(s, Line, 1) # 0
HeadArrived(s) == Find(s, BlankLine, 1) # 0

ParsedHead(s) ==
    LET method == Token(s, Space, 1)
        uri == Token(s, Space, method.next)
        protocol == Token(s, Line, uri.next)
        rest == ParseHeaders(s, protocol.next)
        length == ContentLength(rest.headers)
    IN  [method |-> method.val, uri |-> uri.val, protocol |-> protocol.val,
         headers |-> rest.headers, length |-> length, next |-> rest.next]

\* sizeof(HTTP_HDR_END_DELIM): four characters and the terminating zero.
Slack == 5

\* (Mutant: the length of the body is not looked at.)
CompleteAnyway(s, m) == TRUE
Complete(s, m) == Len(s) - m.next + 1 + Slack >= m.length
-----------------------------------------------------------------------------
(***************************************************************************)
(* http_get_var()                                                          *)
(***************************************************************************)
RES_SIZE == 10
MAX_IMGFS_NAME == 31
MAX_IMG_ID == 127

\* strstr() finds "name=" in the first key that ends in it, be it longer.
\* (Mutant: only right behind the "?".)
LongerKeys == {<<"thumb_res", "res">>, <<"old_img_id", "img_id">>, <<"nickname", "name">>}
EndsIn(key, name) == key = name \/ <<key, name>> \in LongerKeys
PlacesInFirst(params, name) == {i \in DOMAIN params \cap {1} : EndsIn(params[i].key, name)}
Places(params, name) == {i \in DOMAIN params : EndsIn(params[i].key, name)}
Place(params, name) == Min(Places(params, name))

\* strtok() skips the "&" behind an empty value, and returns the next
\* parameter, or NULL, of which the code asks the length.
Rest(params, i) ==
    LET p == params[i + 1]
    IN  [text |-> <<p.key>> \o p.value.text, len |-> Len(p.key) + 1 + p.value.len]
Value(params, i) ==
    IF params[i].value.len > 0 THEN params[i].value ELSE Rest(params, i)

Found(text) == [ret |-> "found", text |-> text]
Lookup(params, name, out_len) ==
    IF Places(params, name) = {} THEN [ret |-> "ERR_NONE", text |-> <<>>]
    ELSE LET i == Place(params, name)
         IN  IF params[i].value.len = 0 /\ i = Len(params) THEN [ret |-> "crash", text |-> <<>>]
             ELSE IF Value(params, i).len > out_len THEN [ret |-> "ERR_RUNTIME", text |-> <<>>]
             ELSE Found(Value(params, i).text)

\* A name as long as its buffer has no end: do_insert() copies what follows.
\* (An identifier as long as its own is compared up to that length only.)
NameLookups(params) ==
    LET v == Lookup(params, "name", MAX_IMGFS_NAME)
    IN  IF v.ret = "found" /\ Value(params, Place(params, "name")).len = MAX_IMGFS_NAME
        THEN {v, Found(Garbled)} ELSE {v}
-----------------------------------------------------------------------------
(***************************************************************************)
(* handle_http_message() and handle_X_call(): what a message leads to.     *)
(***************************************************************************)
Answer(status, ret) == [do |-> "reply", status |-> status, ret |-> ret, call |-> Store!NoCall]
Refusal(ret) == Answer("500", ret)
Crashes == [Answer("none", "ERR_NONE") EXCEPT !.do = "crash"]
Serve(c) == [Answer("none", "ERR_NONE") EXCEPT !.do = "call", !.call = c]

\* http_serve_file(): index.html is there, or is not, or cannot be read, and
\* then nothing is sent.
ServeFile == {Answer("200", "ERR_NONE"), Answer("404", "ERR_NONE"), Answer("none", "ERR_IO")}

\* The comparisons look at the first four, or five, characters; the fifth of a
\* value of four was never written.  (Mutant: the default is "orig".)
Begins(res, text) ==
    \/ res = "orig" /\ text \in {<<"orig">>, <<"original">>, <<"origin">>}
    \/ res = "small" /\ text \in {<<"small">>, <<"smaller">>, <<"smal">>}
    \/ res = "thumb" /\ text \in {<<"thumb">>, <<"thumbnail">>, <<"thum">>}
Unfinished == {<<"smal">>, <<"thum">>}
Matching(text) == {res \in Resolutions : Begins(res, text)}
RequestedResOrOrig(text) == Matching(text) \cup IF Matching(text) = {} THEN {"orig"} ELSE {}
RequestedRes(text) ==
    Matching(text) \cup IF Matching(text) = {} \/ text \in Unfinished THEN {"none"} ELSE {}

HandleList == {Serve([Store!NoCall EXCEPT !.op = "JSON"])}

HandleRead(params) ==
    LET r == Lookup(params, "res", RES_SIZE)
        v == Lookup(params, "img_id", MAX_IMG_ID)
    IN  IF r.ret = "crash" THEN {Crashes}
        ELSE IF r.ret # "found" THEN {Refusal("ERR_NOT_ENOUGH_ARGUMENTS")}
        ELSE {IF res = "none" THEN Refusal("ERR_RESOLUTIONS")
              ELSE IF v.ret = "crash" THEN Crashes
              ELSE IF v.ret # "found" THEN Refusal("ERR_NOT_ENOUGH_ARGUMENTS")
              ELSE Serve([Store!NoCall EXCEPT !.op = "read", !.id = v.text, !.res = res]) :
                res \in RequestedRes(r.text)}

HandleDelete(params) ==
    LET v == Lookup(params, "img_id", MAX_IMG_ID)
    IN  IF v.ret = "crash" THEN {Crashes}
        ELSE IF v.ret # "found" THEN {Refusal("ERR_NOT_ENOUGH_ARGUMENTS")}
        ELSE {Serve([Store!NoCall EXCEPT !.op = "delete", !.id = v.text])}

\* The bytes of the body that have not arrived are zeros.
BodyInHand == IF stream = Text(request) THEN {request.body} ELSE Padded

\* There may be no memory for the copy of the body, which is made all the same.
Insertions(id) ==
    {Crashes} \cup
        {Serve([Store!NoCall EXCEPT !.op = "insert", !.id = id, !.img = img]) : img \in BodyInHand}

HandleInsert(m, params) ==
    IF m.length = 0 THEN {Refusal("ERR_INVALID_COMMAND")}
    ELSE UNION {IF v.ret = "crash" THEN {Crashes}
                ELSE IF v.ret # "found" THEN {Refusal("ERR_NOT_ENOUGH_ARGUMENTS")}
                ELSE Insertions(v.text) : v \in NameLookups(params)}

\* http_match_uri(): the URI is the target, or begins with it.
LongerPaths == {<<"/index.html5", "/index.html">>, <<"/imgfs/listing", "/imgfs/list">>,
                <<"/imgfs/insertion", "/imgfs/insert">>, <<"/imgfs/reader", "/imgfs/read">>,
                <<"/imgfs/deleted", "/imgfs/delete">>}
MatchUri(r, target) == r.path = target \/ <<r.path, target>> \in LongerPaths

\* (Mutant: an insertion is one whatever its method.)
MayInsertAnyway(m) == TRUE
MayInsert(m) == m.method = <<"POST">>
HandleMessage(m) ==
    LET r == request
    IN  CASE (r.path = "/" /\ r.params = <<>>) \/ MatchUri(r, "/index.html") -> ServeFile
          [] MatchUri(r, "/imgfs/list") -> HandleList
          [] MatchUri(r, "/imgfs/insert") /\ MayInsert(m) -> HandleInsert(m, r.params)
          [] MatchUri(r, "/imgfs/read") -> HandleRead(r.params)
          [] MatchUri(r, "/imgfs/delete") -> HandleDelete(r.params)
          [] OTHER -> {Refusal("ERR_INVALID_COMMAND")}
-----------------------------------------------------------------------------
NoReply == [status |-> "none", ret |-> "ERR_NONE", data |-> NoImage, ids |-> {}]

Init ==
    /\ phase = "receiving"
    /\ request \in Requests
    /\ stream = <<>> /\ reply = NoReply
    /\ db \in Stores /\ durable = db /\ call = Store!NoCall

\* recv() gives some more of the text; what there is of it is parsed.
Parse(s) ==
    LET m == ParsedHead(s)
    IN  IF ~HeadArrived(s) THEN phase' = "receiving"
        ELSE IF m.protocol # <<"HTTP/1.1">> THEN phase' = "done"
        ELSE IF m.next = 0 \/ Len(m.headers) > MaxHeaders THEN phase' = "crashed"
        ELSE IF ~Complete(s, m) THEN phase' = "receiving"
        ELSE phase' = "dispatch"

Receive ==
    /\ phase = "receiving"
    /\ \E s \in {SubSeq(Text(request), 1, n) : n \in Len(stream) + 1 .. Len(Text(request))} :
        stream' = s /\ Parse(s)
    /\ UNCHANGED <<request, reply, store>>

\* The whole of what the handler does before and after its call of the store.
Dispatch ==
    /\ phase = "dispatch"
    /\ \E answer \in HandleMessage(ParsedHead(stream)) :
        \/ /\ answer.do = "crash"
           /\ phase' = "crashed"
           /\ UNCHANGED <<reply, store>>
        \/ /\ answer.do = "reply"
           /\ phase' = "done"
           /\ reply' = [NoReply EXCEPT !.status = answer.status, !.ret = answer.ret]
           /\ UNCHANGED store
        \/ /\ answer.do = "call"
           /\ phase' = "in_call"
           /\ call' = answer.call
           /\ Store!MaySync /\ UNCHANGED <<db, reply>>
    /\ UNCHANGED <<request, stream>>

CallStore ==
    /\ phase = "in_call" /\ call.ret = "pending"
    /\ Store!Insert \/ Store!Delete \/ Store!Read \/ Store!List \/ Store!Refuse
    /\ UNCHANGED <<phase, request, stream, reply>>

\* http_reply(): 302 for a change, 200 for what was read.
Reply ==
    /\ phase = "in_call" /\ call.ret # "pending"
    /\ phase' = "done"
    /\ reply' = [status |-> IF call.ret # "ERR_NONE" THEN "500"
                            ELSE IF call.op \in {"insert", "delete"} THEN "302" ELSE "200",
                 ret |-> call.ret, data |-> call.data, ids |-> call.ids]
    /\ Store!Return
    /\ UNCHANGED <<request, stream>>

\* What do_read() has freed after a failed access to the file is freed again.
FreeAgain ==
    /\ phase = "in_call" /\ call.op = "read" /\ call.ret = "ERR_IO"
    /\ phase' = "crashed"
    /\ UNCHANGED <<request, stream, reply, store>>

Next == Receive \/ Dispatch \/ CallStore \/ Reply \/ FreeAgain

Spec == Init /\ [][Next]_vars
-----------------------------------------------------------------------------
(***************************************************************************)
(* Properties                                                              *)
(***************************************************************************)
\* A message whose headers are written as the parser expects.
PlainHeaders(r) ==
    /\ Len(r.headers) <= MaxHeaders
    /\ \A i \in DOMAIN r.headers : r.headers[i].spaced /\ r.headers[i].key # "Content"
    /\ HasBody(r) => \E i \in DOMAIN r.headers : r.headers[i].key = "Content-Length"

\* The first key that ends in a parameter's name is that name, and its value is
\* neither empty nor as long as the buffer it is copied to.
Limits == [res |-> RES_SIZE, img_id |-> MAX_IMG_ID, name |-> MAX_IMGFS_NAME]
PlainParam(r, name) ==
    Places(r.params, name) # {} =>
        LET p == r.params[Place(r.params, name)]
        IN  p.key = name /\ p.value.len \in 1 .. Limits[name] - 1
PlainParams(r) == \A name \in DOMAIN Limits : PlainParam(r, name)

\* What the URI of such a request asks for.
Has(r, name) == \E i \in DOMAIN r.params : r.params[i].key = name
Asked(r, name) == r.params[Min({i \in DOMAIN r.params : r.params[i].key = name})].value.text

\* However it is cut into pieces, a message is handed over when it is whole, and
\* not later; then every part of its head is the part the client sent, and no
\* more than Slack bytes of its body are missing.
ParsedIsSent ==
    /\ stream = Text(request) => phase # "receiving"
    /\ phase = "dispatch" /\ PlainHeaders(request) =>
        LET m == ParsedHead(stream)
        IN  /\ m.method = <<request.method>> /\ m.uri = <<"URI">>
            /\ Len(m.headers) = Len(request.headers)
            /\ \A i \in DOMAIN m.headers : m.headers[i].key = <<request.headers[i].key>>
            /\ Len(stream) + Slack >= Len(Text(request))

\* A call of the store does what its request asks for, to the image it names;
\* only a POST inserts, and what it inserts is its body, if that has arrived.
CallIsAsked ==
    phase = "in_call" /\ PlainHeaders(request) /\ PlainParams(request) =>
        \/ /\ call.op = "JSON" /\ MatchUri(request, "/imgfs/list")
        \/ /\ call.op = "read" /\ MatchUri(request, "/imgfs/read")
           /\ call.id = Asked(request, "img_id")
           /\ Begins(call.res, Asked(request, "res"))
        \/ /\ call.op = "delete" /\ MatchUri(request, "/imgfs/delete")
           /\ call.id = Asked(request, "img_id")
        \/ /\ call.op = "insert" /\ MatchUri(request, "/imgfs/insert")
           /\ request.method = "POST" /\ HasBody(request)
           /\ call.id = Asked(request, "name")
           /\ stream = Text(request) => call.img = request.body

\* A request that has all its parts is not refused for want of them.
AskedIsServed ==
    phase = "done" /\ reply.ret = "ERR_NOT_ENOUGH_ARGUMENTS"
        /\ PlainHeaders(request) /\ PlainParams(request) =>
            ~\A name \in IF MatchUri(request, "/imgfs/insert") THEN {"name"}
                          ELSE IF MatchUri(request, "/imgfs/delete") THEN {"img_id"}
                          ELSE {"img_id", "res"} : Has(request, name)

\* The server dies of no request but one with a header the parser cannot cut, or
\* one header too many, or an empty parameter; of a read that failed in the file;
\* or of an image there is no memory to copy.
DiesOfARequest ==
    phase = "crashed" =>
        \/ \E i \in DOMAIN request.headers : ~request.headers[i].spaced
        \/ Len(request.headers) > MaxHeaders
        \/ \E i \in DOMAIN request.params : request.params[i].value.len = 0
        \/ call.op = "read" /\ call.ret = "ERR_IO"
        \/ MatchUri(request, "/imgfs/insert") /\ request.method = "POST" /\ HasBody(request)

\* What an answer says is so in the store: the image of a 302 is there, and is the
\* one sent if that had arrived, or is gone; the image of a 200 is the one asked
\* for, in that resolution.
ReplyTellsTruth ==
    phase = "done" /\ PlainHeaders(request) /\ PlainParams(request) =>
        /\ reply.status = "302" /\ MatchUri(request, "/imgfs/insert") =>
                \E p \in db : /\ p[1] = Asked(request, "name")
                               /\ stream = Text(request) => p[2] = request.body
        /\ reply.status = "302" /\ MatchUri(request, "/imgfs/delete") =>
                Asked(request, "img_id") \notin Store!Ids(db)
        /\ reply.status = "200" /\ MatchUri(request, "/imgfs/read") =>
                /\ <<Asked(request, "img_id"), reply.data.img>> \in db
                /\ Begins(reply.data.res, Asked(request, "res"))
        /\ reply.status = "200" /\ MatchUri(request, "/imgfs/list") =>
                reply.ids = Store!Ids(db)
=============================================================================
