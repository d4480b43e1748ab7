-------------------------- MODULE MCSourceOpening --------------------------
(* Files of up to four characters, the bytes of which end on either side   *)
(* of the sample's end, and files around the guard's ceiling.              *)
EXTENDS SourceOpening

Ascii(n) == [i \in 1 .. n |-> "ascii"]
Characters == {<<"ascii">>, <<"lead", "cont">>, <<"high">>}

Texts ==
    {<<>>} \cup Characters
    \cup {a \o b : a, b \in Characters}
    \cup {a \o b \o c : a, b, c \in Characters}
    \cup {Ascii(n) : n \in 4 .. 6}

A(form, bytes, mark, broken) ==
    [form |-> form, bytes |-> bytes, mark |-> mark, broken |-> broken]

MCFile ==
    {A(f, t, "none", 0) : f \in {"plain", "gzip"}, t \in Texts}
    \cup {A("zip", Ascii(n), "none", 0) : n \in {1, 5, 6}}
    \cup {A(f, Ascii(4), "none", b) : f \in {"gzip", "zip"}, b \in {1, 3, 4}}
    \cup {A("members", Ascii(1), "none", 0), A("plain", <<"lead", "cont">>, "utf-8-sig", 0)}
    \cup {A("gzip", <<"wide", "wide", "wide", "wide">>, "utf-16", 0)}

MCReplacements ==
    {A("plain", Ascii(3), "none", 0), A("gzip", Ascii(1) \o <<"lead", "cont">>, "none", 0),
     A("zip", <<"high">>, "none", 0), A("members", <<>>, "none", 0),
     A("plain", <<"wide", "wide">>, "utf-16", 0), A("gzip", Ascii(6), "none", 0)}
=============================================================================
