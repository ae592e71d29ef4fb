------------------------------ MODULE XmlText ------------------------------
(***************************************************************************)
(* How XmlRpcValue writes a value as XML and reads it back, with the text  *)
(* of each type: src/src/xmlrpc/XmlRpcValue.cpp, the tag functions and     *)
(* entities of XmlRpcUtil.cpp, and src/inc/xmlrpc/base64.h.                *)
(*                                                                         *)
(* A value has a type, data (a sequence of numbers), and items with, for a *)
(* struct, their names in order.  Strings are <<>>, <<Blank, 0>>,          *)
(* <<Word, 0>> or <<Markup, n>>: a text with a character that XML reserves *)
(* and that has been encoded n times.  Times are six numbers, binary data  *)
(* its bytes.  Doubles are a number of ten-millionths and zero or, for the *)
(* largest, a digit (as ten-millionths) and the number of whole digits     *)
(* after it.  XML is a sequence of tokens: tags, and texts between them.   *)
(***************************************************************************)
EXTENDS Integers, Sequences, FiniteSets, SequencesExt

Value(type, data, items, names) ==
    [type |-> type, data |-> data, items |-> items, names |-> names]

Invalid == Value("invalid", <<>>, <<>>, <<>>)
Scalar(type, data) == Value(type, data, <<>>, <<>>)
Array(items) == Value("array", <<>>, items, <<>>)
Struct(names, items) == Value("struct", <<>>, items, names)

Tag(tag) == [tag |-> tag, text |-> <<>>]
Text(text) == IF text = <<>> THEN <<>> ELSE <<[tag |-> "", text |-> text]>>

Blank == 1
Word == 2
Markup == 3

----------------------------------------------------------------------------
(* Entities: encoding replaces each reserved character, '&' among them.    *)

\* Mutant: what looks like an entity already is left alone.
XmlEncodeOnce(t) == IF t = <<Markup, 0>> THEN <<Markup, 1>> ELSE t

XmlEncode(t) ==
    IF t # <<>> /\ t[1] = Markup THEN <<Markup, t[2] + 1>> ELSE t

XmlDecode(t) ==
    IF t # <<>> /\ t[1] = Markup /\ t[2] > 0 THEN <<Markup, t[2] - 1>> ELSE t

----------------------------------------------------------------------------
(* Base64: 64 stands for '=', 65 for the line break after 18 groups.       *)

Sextets(b) ==
    <<b[1] \div 4, (b[1] % 4) * 16 + b[2] \div 16,
      (b[2] % 16) * 4 + b[3] \div 64, b[3] % 64>>

\* put: groups of three bytes, the last filled with zeros and marked.
Put(bytes) ==
    LET at(i) == IF i <= Len(bytes) THEN bytes[i] ELSE 0
        group(g) ==
            LET s == Sextets(<<at(3*g - 2), at(3*g - 1), at(3*g)>>)
                n == Len(bytes) - 3 * (g - 1)
            IN CASE n = 1 -> <<s[1], s[2], 64, 64>>
                 [] n = 2 -> <<s[1], s[2], s[3], 64>>
                 [] n > 2 -> IF g % 18 = 0 THEN Append(s, 65) ELSE s
    IN FlattenSeq([g \in 1..((Len(bytes) + 2) \div 3) |-> group(g)])

Byte1(k) == k[1] * 4 + k[2] \div 16
Byte2(k) == (k[2] % 16) * 16 + k[3] \div 4
Byte3(k) == (k[3] % 4) * 64 + k[4]

\* The groups get reads until one that is marked or cut off.
RECURSIVE Groups(_)
Groups(k) ==
    IF Len(k) < 3 \/ 64 \in {k[1], k[2]} THEN <<>>
    ELSE IF k[3] = 64 THEN <<Byte1(k)>>
    ELSE IF Len(k) = 3 THEN <<>>
    ELSE IF k[4] = 64 THEN <<Byte1(k), Byte2(k)>>
    ELSE <<Byte1(k), Byte2(k), Byte3(k)>> \o Groups(SubSeq(k, 5, Len(k)))

\* get: characters that are not of the alphabet are skipped.
Get(chars) == Groups(SelectSeq(chars, LAMBDA c : c \in 0..64))

----------------------------------------------------------------------------
(* Times: "%4d%02d%02dT..." written, "%4d%2d%2dT..." read.  A character is *)
(* a digit or 10, a blank.  The part after the date has fixed places.      *)

Digits(n) ==
    LET all == <<(n \div 1000) % 10, (n \div 100) % 10, (n \div 10) % 10,
                 n % 10>>
    IN IF n > 9999 THEN <<n \div 10000>> \o all ELSE all

\* The year is filled with blanks, the other numbers with zeros.
Year4(y) == [i \in 1..Len(Digits(y)) |->
               IF i < 4 /\ y < 10 ^ (4 - i) THEN 10 ELSE Digits(y)[i]]

Date(t) == Year4(t[1]) \o SubSeq(Digits(t[2]), 3, 4)
                       \o SubSeq(Digits(t[3]), 3, 4)

TimeText(t) == Date(t) \o <<11>> \o SubSeq(t, 4, 6)

\* sscanf of a number of at most w characters from place p: blanks before
\* it are skipped and do not count, anything but a digit ends it.
Scan(s, p, w) ==
    LET from == CHOOSE q \in p..Len(s) :
                  s[q] # 10 /\ \A r \in p..(q - 1) : s[r] = 10
        to == CHOOSE q \in from..(from + w) :
                /\ \A r \in from..(q - 1) : s[r] \in 0..9
                /\ q = from + w \/ s[q] \notin 0..9
        num[i \in (from - 1)..(to - 1)] ==
            IF i < from THEN 0 ELSE 10 * num[i - 1] + s[i]
    IN [number |-> num[to - 1], next |-> to, read |-> to > from]

\* What is read from the text of a time: the number of the fields matched
\* is 6 only when the T stands where the day ends.
TimeRead(s) ==
    LET y == Scan(s, 1, 4)
        m == Scan(s, y.next, 2)
        d == Scan(s, m.next, 2)
    IN IF m.read /\ d.read /\ s[d.next] = 11
       THEN <<y.number, m.number, d.number>>
              \o SubSeq(s, d.next + 1, Len(s))
       ELSE <<>>

----------------------------------------------------------------------------
(* toXml *)

\* "%f" has six decimals.
Micros(x) == (x + 5) \div 10

\* The whole digits of a double that fit into the buffer: snprintf is given
\* 255 of its 256 bytes, of which one ends the text and one may be the sign.
BufferDigits(x) == IF x < 0 THEN 253 ELSE 254

\* doubleToXml: what does not fit is cut off, so that of a double with more
\* whole digits the first are left, a smaller number.
DoubleText(d) ==
    <<Micros(d[1]), IF d[2] < BufferDigits(d[1]) THEN d[2]
                    ELSE BufferDigits(d[1]) - 1>>

Wrapped(tag, tokens) == <<Tag(tag)>> \o tokens \o <<Tag("/" \o tag)>>

RECURSIVE ToXml(_)
Members(v) ==
    [i \in 1..Len(v.items) |->
       Wrapped("member", Wrapped("name", Text(XmlEncode(v.names[i])))
                           \o ToXml(v.items[i]))]

ToXml(v) ==
    IF v.type = "invalid" THEN <<>>
    ELSE Wrapped("value",
      CASE v.type = "boolean" -> Wrapped("boolean", Text(v.data))
        [] v.type = "int" -> Wrapped("i4", Text(v.data))
        [] v.type = "double" -> Wrapped("double", Text(DoubleText(v.data)))
        [] v.type = "string" -> Text(XmlEncode(v.data))
        [] v.type = "time" -> Wrapped("dateTime.iso8601",
                                      Text(TimeText(v.data)))
        [] v.type = "base64" -> Wrapped("base64", Text(Put(v.data)))
        [] v.type = "array" ->
             Wrapped("array", Wrapped("data",
               FlattenSeq([i \in 1..Len(v.items) |-> ToXml(v.items[i])])))
        [] v.type = "struct" -> Wrapped("struct", FlattenSeq(Members(v))))

----------------------------------------------------------------------------
(* Tags are looked for in the tokens x from the place o on.                *)

TagAt(x, o) == IF o <= Len(x) THEN x[o].tag ELSE "end"
TextAt(x, o) == IF TagAt(x, o) = "" THEN x[o].text ELSE <<>>

\* The place after blanks.
Skip(x, o) == IF TextAt(x, o) = <<Blank, 0>> THEN o + 1 ELSE o

\* nextTagIs, and where it leaves the offset.
NextTagIs(tag, x, o) == TagAt(x, Skip(x, o)) = tag
Past(tag, x, o) == IF NextTagIs(tag, x, o) THEN Skip(x, o) + 1 ELSE o

\* findTag
FindTag(tag, x, o) ==
    IF \E p \in o..Len(x) : x[p].tag = tag
    THEN 1 + CHOOSE p \in o..Len(x) :
               x[p].tag = tag /\ \A q \in o..(p - 1) : x[q].tag # tag
    ELSE o

(* fromXml: the value, and the place after it; with "invalid" the place it *)
(* was called with.                                                        *)
Read(value, at) == [value |-> value, at |-> at]

RECURSIVE FromXml(_, _), ItemsFrom(_, _, _), StructFrom(_, _, _)

\* arrayFromXml reads elements until one cannot be read.
ItemsFrom(x, o, items) ==
    LET r == FromXml(x, o) IN
    IF r.value.type = "invalid" THEN Read(Array(items), Past("/data", x, o))
    ELSE ItemsFrom(x, r.at, Append(items, r.value))

\* insert into a map: in the order of names, the first of equal names stays.
Inserted(s, name, item) ==
    LET before(m) == \/ m[1] < name[1]
                     \/ m[1] = name[1] /\ m[2] < name[2]
        n == Cardinality({i \in 1..Len(s.names) : before(s.names[i])})
    IN IF \E i \in 1..Len(s.names) : s.names[i] = name THEN s
       ELSE Struct(InsertAt(s.names, n + 1, name),
                   InsertAt(s.items, n + 1, item))

\* structFromXml: the name is taken as it stands between its tags, and one
\* member that cannot be read makes the whole struct invalid.
StructFrom(x, o, s) ==
    IF ~NextTagIs("member", x, o) THEN Read(s, o)
    ELSE LET p == FindTag("name", x, Past("member", x, o))
             r == FromXml(x, FindTag("/name", x, p))
         IN IF r.value.type = "invalid" THEN Read(Invalid, o)
            ELSE StructFrom(x, Past("/member", x, r.at),
                            Inserted(s, TextAt(x, p), r.value))

\* The value of the type after the tag at p; text stands there if no tag.
Typed(x, p) ==
    LET tag == TagAt(x, Skip(x, p))
        o == Skip(x, p) + 1
        text == TextAt(x, o)
        scalar(type, data) ==
            Read(IF text = <<>> THEN Invalid ELSE Scalar(type, data), o)
    IN CASE tag = "boolean" -> scalar("boolean", text)
         [] tag = "i4" -> scalar("int", text)
         [] tag = "double" -> scalar("double", <<text[1] * 10, text[2]>>)
         [] tag = "dateTime.iso8601" ->
              IF TimeRead(text) = <<>> THEN Read(Invalid, p)
              ELSE scalar("time", TimeRead(text))
         [] tag = "base64" -> Read(Scalar("base64", Get(text)), o)
         [] tag = "array" /\ NextTagIs("data", x, o) ->
              ItemsFrom(x, Past("data", x, o), <<>>)
         [] tag = "struct" -> StructFrom(x, o, Struct(<<>>, <<>>))
         [] tag \in {"", "/value"} ->
              Read(Scalar("string", XmlDecode(TextAt(x, p))), p)
         [] OTHER -> Read(Invalid, p)

FromXml(x, o) ==
    LET r == Typed(x, Past("value", x, o)) IN
    IF ~NextTagIs("value", x, o) \/ r.value.type = "invalid"
    THEN Read(Invalid, o)
    ELSE Read(r.value, FindTag("/value", x, r.at))
=============================================================================
