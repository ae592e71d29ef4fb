------------------------------- MODULE MCXml -------------------------------
(* Values of every type, at the boundaries of their encodings: years of    *)
(* three to five digits, doubles with a seventh decimal and at the limit   *)
(* of the buffer they are written in, binary data of each length modulo    *)
(* three and of more than one line.                                        *)
EXTENDS Xml

Bytes(n) == [i \in 1..n |-> (i * 37 + 250) % 256]

TheLeaves ==
    {Invalid, Scalar("boolean", <<1>>), Scalar("int", <<0 - 7>>),
     Scalar("double", <<20, 0>>), Scalar("double", <<5, 0>>),
     Scalar("double", <<10000000, 253>>), Scalar("double", <<10000000, 254>>),
     Scalar("double", <<0 - 10000000, 253>>)}
    \cup {Scalar("string", t) : t \in
            {<<>>, <<Blank, 0>>, <<Word, 1>>, <<Markup, 0>>, <<Markup, 1>>}}
    \cup {Scalar("time", <<y, 1, 25, 10, 0, 59>>) :
            y \in {113, 999, 1000, 12013}}
    \cup {Scalar("base64", Bytes(k)) : k \in {2, 3, 55}}

TheItems == {Invalid, Scalar("string", <<Markup, 1>>)}

TheNames == {<<Word, 20>>, <<Markup, 0>>}

TheOutputs == {<<>>, <<Word, 8>>, <<Markup, 1>>}
=============================================================================
