---------------------------- MODULE MCHttpRequest ----------------------------
(* Requests for HttpRequest. *)
EXTENDS HttpRequest

CONSTANTS x, bad

GarbledName == <<"garbled">>

Val(text, len) == [text |-> <<text>>, len |-> len]
Param(key, value) == [key |-> key, value |-> value]
Hdr(key, value, spaced) == [key |-> key, value |-> value, spaced |-> spaced]

Empty == [text |-> <<>>, len |-> 0]
Ids == {Val("a", 1), Val("b", 31), Empty, Val("c", 127), Val("d", 128)}
ResValues == {Val("orig", 4), Val("original", 8), Val("smal", 4), Val("smaller", 7),
              Val("thumb", 5), Val("large", 5), Val("too long", 11), Empty}
ImageParams == {Param("img_id", v) : v \in Ids} \cup {Param("old_img_id", Val("b", 31))}
NameParams == {Param("name", v) : v \in Ids} \cup {Param("nickname", Val("b", 31))}
ResParams == {Param("res", v) : v \in ResValues} \cup {Param("thumb_res", Val("thumb", 5))}
Upto2(P) == {<<>>} \cup {<<p>> : p \in P} \cup {<<p, q>> : p, q \in P}

Length == Hdr("Content-Length", "length", TRUE)
Host(spaced) == Hdr("Host", "text", spaced)
Request(method, path, params, headers, body, size) ==
    [method |-> method, path |-> path, protocol |-> "HTTP/1.1", params |-> params,
     headers |-> headers, body |-> body, size |-> size]

\* Every shape of a query, with plain headers ...
Queries ==
    {Request("GET", "/imgfs/read", params, <<>>, NoImage, 0) : params \in Upto2(ImageParams \cup ResParams)}
    \cup {Request("GET", "/imgfs/delete", params, <<>>, NoImage, 0) : params \in Upto2(ImageParams)}
    \cup {Request("POST", "/imgfs/insert", params, <<Length>>, img, 6) :
            params \in Upto2(NameParams), img \in {x, bad}}

\* ... and every shape of the head, with plain parameters.
Name == <<Param("name", Val("a", 1))>>
HeaderLists == {<<>>} \cup {<<h>> : h \in {Length, Host(TRUE), Host(FALSE)}}
    \cup {<<g, h>> : g \in {Host(TRUE), Host(FALSE), Hdr("Content", "text", TRUE),
                            Hdr("content-length", "length", TRUE)},
                     h \in {Length, Host(TRUE)}}
    \cup {<<Length, Host(spaced)>> : spaced \in BOOLEAN}
    \cup {<<Host(TRUE), Length, Host(spaced)>> : spaced \in BOOLEAN}
Heads ==
    {Request(method, path, Name, headers, IF size = 0 THEN NoImage ELSE x, size) :
        method \in {"GET", "POST"},
        path \in {"/imgfs/list", "/imgfs/insert", "/imgfs/other"},
        headers \in HeaderLists, size \in {0, 3, 7}}
    \cup {[Request("GET", "/imgfs/list", <<>>, <<>>, NoImage, 0) EXCEPT !.protocol = "HTTP/1.0"]}

\* Paths that are, or begin with, one the server knows, and those that are not.
Paths ==
    {Request("POST", path, params, <<Length>>, x, 1) :
        path \in {"/", "/index.html"} \cup {p[1] : p \in LongerPaths},
        params \in {<<>>, Name, <<Param("img_id", Val("a", 1)), Param("res", Val("orig", 4))>>}}

AllRequests == Queries \cup Heads \cup Paths
AllStores == {{}, {<<<<"a">>, x>>}, {<<<<"a">>, x>>, <<<<"b">>, x>>}}
AllIds == {<<"a">>, <<"b">>, <<"c">>, Garbled}
    \cup {<<p.key>> \o p.value.text : p \in ImageParams \cup NameParams \cup ResParams}
=============================================================================
