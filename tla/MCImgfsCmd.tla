----------------------------- MODULE MCImgfsCmd -----------------------------
(* Command lines for ImgfsCmd. *)
EXTENDS ImgfsCmd

CONSTANTS x, bad

AllNames == {"db", "x.jpg", "a_orig.jpg", "a_thumb.jpg"}
AllNumbers == [n \in {"0", "1", "128", "129", "600", "65537", "70000"} |->
                CASE n = "0" -> 0 [] n = "1" -> 1 [] n = "128" -> 128 [] n = "129" -> 129
                  [] n = "600" -> 600 [] n = "65537" -> 65537 [] OTHER -> 70000]

\* Every command with every number of arguments.
Short == {<<>>, <<"help">>, <<"halp">>, <<"list">>, <<"list", "db">>, <<"list", "db", "db">>,
          <<"delete", "db">>, <<"delete", "db", "">>, <<"read", "db">>, <<"read", "db", "a", "large">>,
          <<"insert", "db", "a">>, <<"create">>}
Insertions == {<<"insert", f, "a", img>> : f \in {"db", "a_orig.jpg"}, img \in {"db", "x.jpg", "a_orig.jpg"}}
    \cup {<<"insert", "db", "", "x.jpg">>}
Others == {<<"delete", f, "a">> : f \in {"db", "a_orig.jpg"}}
    \cup {<<"read", f, "a">> : f \in {"db", "a_orig.jpg"}}
    \cup {<<"read", f, "a", "thumbnail">> : f \in {"db", "a_orig.jpg"}}

\* create with every sequence of two options, the last maybe cut short.
Sizes == {"0", "1", "129", "600", "65537"}
Options2 == {<<>>} \cup {<<"-max_files", n>> : n \in {"0", "1", "70000", "many"}}
    \cup {<<"-thumb_res", w, "1">> : w \in Sizes} \cup {<<"-small_res", "128", h>> : h \in Sizes}
CutShort == {<<"-max_files">>, <<"-thumb_res", "1">>, <<"-small_res">>, <<"-size", "1">>}
Creations == {<<"create", "db">> \o s \o t : s \in Options2, t \in Options2 \cup CutShort}
    \cup {<<"create", "a_orig.jpg", "-max_files", "1">>}

AllCommandLines == Short \cup Insertions \cup Others \cup Creations
=============================================================================
