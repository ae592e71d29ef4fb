------------------------------ MODULE RpcProofs ------------------------------
(***************************************************************************)
(* Proofs about Rpc: the types, and that its calls are those of RpcCall,   *)
(* for any clients, any length of messages and any bounds.                 *)
(*                                                                         *)
(* The argument: a connection carries one call at a time, and what its     *)
(* owner, the client whose descriptor it is, has written and read adds up  *)
(* with what is under way and what the server has; a request can still be  *)
(* executed only where it is due, and a call is due at most as often as    *)
(* its client may send it.                                                 *)
(***************************************************************************)
EXTENDS Rpc, FiniteSetTheorems, TLAPS

ClientRecords ==
    [pc : {"idle", "setup", "work", "crashed"},
     state : {"NO_CONNECTION", "WRITE_REQUEST", "READ_HEADER",
              "READ_RESPONSE", "IDLE"},
     fd : 0..MaxSockets, eof : BOOLEAN, call : 0..MaxCalls,
     attempts : {0, 1}, written : 0..Size, got : 0..Size,
     from : 0..MaxCalls]

LinkRecords ==
    [near : {"open", "closed"},
     far : {"backlog", "open", "closed", "refused"},
     up : Seq(Calls), down : Seq(Calls),
     state : {"READ_HEADER", "READ_REQUEST", "WRITE_RESPONSE"},
     got : 0..Size, request : 0..MaxCalls, sent : 0..Size]

ServerRecords ==
    [pc : {"loop", "work", "exec", "stopped"}, listening : BOOLEAN,
     inWork : BOOLEAN, doClear : BOOLEAN, interrupted : BOOLEAN,
     serving : 0..MaxSockets, starts : 1..MaxStarts]

-----------------------------------------------------------------------------
(* A connection l, by itself.                                              *)

Live(l) == l.far \in {"backlog", "open"}
Answering(l) == l.state = "WRITE_RESPONSE"

Has(pieces, k) == \E i \in 1..Len(pieces) : pieces[i] = k

\* The request of call k may still be executed.
Awaits(l, k) == Live(l) /\ ~Answering(l) /\ (Has(l.up, k) \/ l.request = k)

\* Call k has been executed: its answer is under way or will be.
Serves(l, k) == Has(l.down, k) \/ (Answering(l) /\ l.request = k)

Carries(l, k) == Has(l.up, k) \/ Has(l.down, k) \/ l.request = k

\* All it carries is of one call, no more than a message of it either way,
\* and an answer only after the request was read to its end.
Sound(l) ==
    /\ \A j, k \in Calls : Carries(l, j) /\ Carries(l, k) => j = k
    /\ l.got + Len(l.up) <= Size
    /\ l.got = 0 <=> l.request = 0
    /\ Answering(l) <=> l.got = Size
    /\ Answering(l) => l.sent < Size /\ Len(l.down) <= l.sent
    /\ ~Answering(l) => l.sent = 0 /\ Len(l.down) <= Size
    /\ ~Answering(l) /\ Len(l.down) > 0 => l.got = 0 /\ Len(l.up) = 0
    /\ ~Live(l) => l.got = 0 /\ Len(l.up) = 0
    /\ l.far \in {"backlog", "refused"} => l.got = 0 /\ Len(l.down) = 0

-----------------------------------------------------------------------------
(* A connection l and its owner o.                                         *)

\* o is writing its request: what it has written is there, or lost.
Writes(o, l) ==
    /\ o.written < Size /\ ~Answering(l) /\ Len(l.down) = 0
    /\ Live(l) => l.got + Len(l.up) = o.written

\* o is reading the answer: what it has read and what is under way is what
\* the server has sent; before that, the whole request is there.
Reads(o, l) ==
    /\ o.got < Size /\ l.far # "refused"
    /\ o.got + Len(l.down) <= Size
    /\ Live(l) /\ Answering(l) => o.got + Len(l.down) = l.sent
    /\ Live(l) /\ ~Answering(l) =>
         \/ l.got + Len(l.up) = Size /\ o.got = 0
         \/ l.got = 0 /\ Len(l.up) = 0 /\ o.got + Len(l.down) = Size

\* Nothing is left of the last call.
Quiet(l) == l.got = 0 /\ Len(l.up) = 0 /\ Len(l.down) = 0

Owns(o, l) ==
    /\ l.near = "open"
    /\ o.pc = "work" =>
         /\ \A k \in Calls : Carries(l, k) => k = o.call
         /\ o.state \in {"WRITE_REQUEST", "READ_HEADER", "READ_RESPONSE"}
         /\ o.state = "WRITE_REQUEST" => Writes(o, l)
         /\ o.state # "WRITE_REQUEST" => Reads(o, l)
    /\ o.pc \in {"idle", "setup"} /\ o.state = "IDLE" /\ ~o.eof => Quiet(l)

-----------------------------------------------------------------------------
(* What is known of the pieces.                                            *)

LEMMA SentPieces ==
    ASSUME NEW s \in Seq(Calls), NEW k \in Calls, NEW n \in Nat
    PROVE  /\ s \o Pieces(k, n) \in Seq(Calls)
           /\ Len(s \o Pieces(k, n)) = Len(s) + n
           /\ \A j : Has(s \o Pieces(k, n), j) => Has(s, j) \/ (j = k /\ n > 0)
<1> DEFINE p == Pieces(k, n)
<1>1. p \in Seq(Calls) /\ Len(p) = n /\ \A i \in 1..n : p[i] = k
  BY DEF Pieces
<1> HIDE DEF p
<1>2. s \o p \in Seq(Calls) /\ Len(s \o p) = Len(s) + n /\ Len(s) \in Nat
  BY <1>1
<1>3. ASSUME NEW j, NEW i \in 1..Len(s \o p), (s \o p)[i] = j
      PROVE  Has(s, j) \/ (j = k /\ n > 0)
  <2>1. CASE i <= Len(s)
    BY <1>1, <1>2, <1>3, <2>1 DEF Has
  <2>2. CASE i > Len(s)
    <3>1. i - Len(s) \in 1..n /\ (s \o p)[i] = p[i - Len(s)]
      BY <1>1, <1>2, <2>2
    <3> QED
      BY <1>1, <1>3, <3>1
  <2> QED
    BY <1>2, <2>1, <2>2
<1> QED
  BY <1>2, <1>3 DEF p, Has

LEMMA TakenPieces ==
    ASSUME NEW s \in Seq(Calls), NEW n \in 1..Len(s)
    PROVE  /\ SubSeq(s, n + 1, Len(s)) \in Seq(Calls)
           /\ Len(SubSeq(s, n + 1, Len(s))) = Len(s) - n
           /\ \A j : Has(SubSeq(s, n + 1, Len(s)), j) => Has(s, j)
           /\ Head(s) \in Calls /\ Has(s, Head(s))
<1>1. Len(s) \in Nat /\ n + 1 \in 1..(Len(s) + 1)
  OBVIOUS
<1> DEFINE r == SubSeq(s, n + 1, Len(s))
<1>2. /\ r \in Seq(Calls) /\ Len(r) = Len(s) - n
      /\ \A i \in 1..Len(r) : r[i] = s[n + i]
  BY <1>1
<1>3. \A j : Has(r, j) => Has(s, j)
  BY <1>1, <1>2 DEF Has
<1>4. Head(s) = s[1] /\ 1 \in 1..Len(s)
  BY <1>1
<1> QED
  BY <1>2, <1>3, <1>4 DEF Has

LEMMA NoPieces ==
    <<>> \in Seq(Calls) /\ Len(<<>>) = 0 /\ \A k : ~Has(<<>>, k)
  BY DEF Has

-----------------------------------------------------------------------------
(* What the server does to a connection.                                   *)

\* From l to m: the owner's part still adds up, and nothing is due that was
\* not.
Keeps(l, m) ==
    /\ m \in LinkRecords /\ Sound(m)
    /\ \A o \in ClientRecords : Owns(o, l) => Owns(o, m)
    /\ \A k \in Calls : Awaits(m, k) => Awaits(l, k)
    /\ Live(m) => Live(l)

\* Nor is anything executed.
Eases(l, m) == Keeps(l, m) /\ \A k \in Calls : Serves(m, k) => Serves(l, k)

\* The types of the fields of a connection.
LEMMA LinkFields ==
    ASSUME NEW l \in LinkRecords
    PROVE  /\ l.up \in Seq(Calls) /\ Len(l.up) \in Nat
           /\ l.down \in Seq(Calls) /\ Len(l.down) \in Nat
           /\ l.got \in Nat /\ l.got <= Size
           /\ l.sent \in Nat /\ l.sent <= Size
           /\ l.request \in 0..MaxCalls
           /\ Size \in Nat /\ Size > 0 /\ 0 \in 0..Size
           /\ MaxCalls \in Nat /\ 0 \in 0..MaxCalls /\ 0 \notin Calls
<1>1. /\ Size \in Nat /\ Size > 0 /\ 0 \in 0..Size
      /\ MaxCalls \in Nat /\ 0 \in 0..MaxCalls /\ 0 \notin Calls
  BY RpcAssumption DEF Calls
<1>2. /\ l.up \in Seq(Calls) /\ l.down \in Seq(Calls)
      /\ l.got \in 0..Size /\ l.sent \in 0..Size /\ l.request \in 0..MaxCalls
  BY DEF LinkRecords
<1> QED
  BY <1>1, <1>2

FarClosedRecord(l, d) ==
    [l EXCEPT !.far = "closed", !.up = <<>>, !.down = d, !.state = "READ_HEADER",
              !.got = 0, !.request = 0, !.sent = 0]

LEMMA FarCloses ==
    ASSUME NEW l \in LinkRecords, Sound(l), l.far # "refused",
           NEW d \in {l.down, <<>>}
    PROVE  Eases(l, FarClosedRecord(l, d))
<1> DEFINE m == FarClosedRecord(l, d)
<1>1. /\ Size \in Nat /\ Size > 0 /\ 0 \in 0..Size /\ 0 \notin Calls
      /\ 0 \in 0..MaxCalls /\ l.down \in Seq(Calls) /\ Len(l.down) \in Nat
  BY LinkFields
<1>2. /\ d \in Seq(Calls) /\ Len(d) <= Len(l.down) /\ Len(d) \in Nat
      /\ \A k : Has(d, k) => Has(l.down, k)
  <2>1. CASE d = l.down
    BY <1>1, <2>1
  <2>2. CASE d = <<>>
    BY <1>1, <2>2, NoPieces
  <2> QED
    BY <2>1, <2>2
<1>3. /\ m \in LinkRecords /\ m.far = "closed" /\ m.up = <<>> /\ m.down = d
      /\ m.state = "READ_HEADER" /\ m.got = 0 /\ m.request = 0 /\ m.sent = 0
      /\ m.near = l.near
  <2>1. m.far = "closed" /\ m.up = <<>> /\ m.down = d
        /\ m.state = "READ_HEADER" /\ m.got = 0 /\ m.request = 0 /\ m.sent = 0
        /\ m.near = l.near
    BY DEF LinkRecords, FarClosedRecord
  <2>2. m \in LinkRecords
    BY <1>1, <1>2, NoPieces DEF LinkRecords, FarClosedRecord
  <2> QED
    BY <2>1, <2>2
<1> HIDE DEF m
<1>4. ~Live(m) /\ ~Answering(m) /\ Len(m.up) = 0
  BY <1>3, NoPieces DEF Live, Answering
<1>5. \A k \in Calls : Carries(m, k) => Has(l.down, k) /\ Carries(l, k)
  BY <1>1, <1>2, <1>3, NoPieces DEF Carries
<1>6. /\ Len(l.down) <= Size /\ Len(l.up) \in Nat /\ Len(l.down) \in Nat
      /\ l.got \in Nat /\ l.sent \in Nat
  BY LinkFields DEF Sound
<1>7. Sound(m)
  BY <1>1, <1>2, <1>3, <1>4, <1>5, <1>6 DEF Sound
<1>8. ASSUME NEW o \in ClientRecords, Owns(o, l)
      PROVE  Owns(o, m)
  <2>1. o.got \in Nat /\ o.written \in Nat
    BY DEF ClientRecords
  <2>2. Writes(o, l) => Writes(o, m)
    BY <1>2, <1>3, <1>4, <1>6 DEF Writes
  <2>3. Reads(o, l) => Reads(o, m)
    <3> SUFFICES ASSUME Reads(o, l)
                 PROVE  Reads(o, m)
      OBVIOUS
    <3>1. o.got < Size /\ o.got + Len(l.down) <= Size
      BY DEF Reads
    <3>2. o.got + Len(d) <= Size
      BY <1>1, <1>2, <2>1, <3>1
    <3> QED
      BY <1>3, <1>4, <3>1, <3>2 DEF Reads
  <2>4. Quiet(l) => Quiet(m)
    BY <1>2, <1>3, <1>4, <1>6 DEF Quiet
  <2> QED
    BY <1>3, <1>5, <1>8, <2>2, <2>3, <2>4 DEF Owns
<1>9. \A k \in Calls : Serves(m, k) => Serves(l, k)
  BY <1>4, <1>2, <1>3 DEF Serves
<1> QED
  BY <1>3, <1>4, <1>7, <1>8, <1>9 DEF Eases, Keeps, Awaits, m

LEMMA Accepted ==
    ASSUME NEW l \in LinkRecords, Sound(l), l.far = "backlog"
    PROVE  Eases(l, [l EXCEPT !.far = "open"])
<1> DEFINE m == [l EXCEPT !.far = "open"]
<1>1. /\ m \in LinkRecords /\ m.far = "open" /\ m.up = l.up /\ m.down = l.down
      /\ m.state = l.state /\ m.got = l.got /\ m.request = l.request
      /\ m.sent = l.sent /\ m.near = l.near
  BY DEF LinkRecords
<1> HIDE DEF m
<1>2. Live(l) /\ Live(m) /\ (Answering(m) <=> Answering(l))
  BY <1>1 DEF Live, Answering
<1>3. \A k : Carries(m, k) <=> Carries(l, k)
  BY <1>1 DEF Carries
<1>4. Sound(m)
  BY <1>1, <1>2, <1>3 DEF Sound
<1>5. ASSUME NEW o \in ClientRecords, Owns(o, l)
      PROVE  Owns(o, m)
  <2>1. Writes(o, l) => Writes(o, m)
    BY <1>1, <1>2 DEF Writes
  <2>2. Reads(o, l) => Reads(o, m)
    BY <1>1, <1>2 DEF Reads
  <2> QED
    BY <1>1, <1>3, <1>5, <2>1, <2>2 DEF Owns, Quiet
<1> QED
  BY <1>1, <1>2, <1>4, <1>5 DEF Eases, Keeps, Awaits, Serves, m

\* The server reads n pieces of a request.
ReadRecord(l, n) ==
    [l EXCEPT !.up = SubSeq(l.up, n + 1, Len(l.up)), !.got = l.got + n,
              !.request = Head(l.up),
              !.state = IF l.got + n = Size THEN "WRITE_RESPONSE"
                        ELSE IF l.got + n < Header THEN "READ_HEADER"
                        ELSE "READ_REQUEST"]

LEMMA RequestRead ==
    ASSUME NEW l \in LinkRecords, Sound(l), l.far = "open", ~Answering(l),
           NEW n \in 1..Len(l.up)
    PROVE  LET k == Head(l.up) IN
           /\ Keeps(l, ReadRecord(l, n))
           /\ k \in Calls /\ Awaits(l, k)
           /\ Answering(ReadRecord(l, n)) <=> l.got + n = Size
           /\ ~Answering(ReadRecord(l, n)) => Eases(l, ReadRecord(l, n))
           /\ Answering(ReadRecord(l, n)) =>
                \A j \in Calls : Serves(ReadRecord(l, n), j) => j = k
<1> DEFINE m == ReadRecord(l, n)
           k == Head(l.up)
           r == SubSeq(l.up, n + 1, Len(l.up))
<1>1. Size \in Nat /\ Size > 0 /\ 0 \notin Calls /\ MaxCalls \in Nat
  BY RpcAssumption DEF Calls
<1>2. /\ r \in Seq(Calls) /\ Len(r) = Len(l.up) - n
      /\ \A j : Has(r, j) => Has(l.up, j)
      /\ k \in Calls /\ Has(l.up, k)
  BY TakenPieces DEF LinkRecords
<1>3. /\ Len(l.up) \in Nat /\ Len(l.down) \in Nat /\ l.got \in Nat
      /\ l.sent \in Nat /\ n \in Nat /\ n >= 1
  BY <1>1 DEF LinkRecords
<1>4. l.got + Len(l.up) <= Size /\ l.sent = 0 /\ Len(l.down) = 0 /\ l.got < Size
  BY <1>1, <1>3 DEF Sound
<1>5. l.got + n \in 1..Size /\ k \in 0..MaxCalls /\ k # 0
  BY <1>1, <1>2, <1>3, <1>4 DEF Calls
<1>6. /\ m \in LinkRecords /\ m.far = "open" /\ m.near = l.near
      /\ m.up = r /\ m.down = l.down /\ m.got = l.got + n /\ m.request = k
      /\ m.sent = l.sent
      /\ m.state = "WRITE_RESPONSE" <=> l.got + n = Size
  <2>1. /\ m.far = "open" /\ m.near = l.near
        /\ m.up = r /\ m.down = l.down /\ m.got = l.got + n /\ m.request = k
        /\ m.sent = l.sent
    BY DEF LinkRecords, ReadRecord
  <2>2. m.state = IF l.got + n = Size THEN "WRITE_RESPONSE"
                  ELSE IF l.got + n < Header THEN "READ_HEADER"
                  ELSE "READ_REQUEST"
    BY DEF LinkRecords, ReadRecord
  <2>3. m \in LinkRecords
    <3> DEFINE g == l.got + n
               t == IF l.got + n = Size THEN "WRITE_RESPONSE"
                    ELSE IF l.got + n < Header THEN "READ_HEADER"
                    ELSE "READ_REQUEST"
    <3>1. g \in 0..Size /\ t \in {"READ_HEADER", "READ_REQUEST", "WRITE_RESPONSE"}
      BY <1>1, <1>5
    <3>2. m = [l EXCEPT !.up = r, !.got = g, !.request = k, !.state = t]
      BY DEF ReadRecord
    <3> HIDE DEF m, r, k, g, t
    <3> QED
      BY <1>2, <1>5, <3>1, <3>2 DEF LinkRecords
  <2> QED
    BY <2>1, <2>2, <2>3
<1> HIDE DEF m, k, r
<1>7. Live(l) /\ Live(m) /\ (Answering(m) <=> l.got + n = Size)
  BY <1>6 DEF Live, Answering
<1>8. \A j : Carries(m, j) => Carries(l, j)
  BY <1>2, <1>6 DEF Carries
<1>9. Sound(m)
  <2>1. \A i, j \in Calls : Carries(m, i) /\ Carries(m, j) => i = j
    BY <1>8 DEF Sound
  <2>2. m.got + Len(m.up) <= Size /\ (m.got = 0 <=> m.request = 0)
    BY <1>2, <1>3, <1>4, <1>5, <1>6
  <2> QED
    BY <1>1, <1>3, <1>4, <1>6, <1>7, <2>1, <2>2 DEF Sound
<1>10. ASSUME NEW o \in ClientRecords, Owns(o, l)
       PROVE  Owns(o, m)
  <2>1. o.got \in Nat /\ o.written \in Nat
    BY DEF ClientRecords
  <2>2. Writes(o, l) => Writes(o, m)
    BY <1>2, <1>3, <1>4, <1>6, <1>7, <2>1 DEF Writes
  <2>3. Reads(o, l) => Reads(o, m)
    <3> SUFFICES ASSUME Reads(o, l)
                 PROVE  Reads(o, m)
      OBVIOUS
    <3>1. l.got + Len(l.up) = Size /\ o.got = 0
      BY <1>1, <1>3, <1>4, <1>7 DEF Reads
    <3>2. Len(m.down) = 0 /\ m.sent = 0 /\ m.got + Len(m.up) = Size
      BY <1>2, <1>3, <1>4, <1>6, <3>1
    <3> QED
      BY <1>1, <1>6, <1>7, <3>1, <3>2 DEF Reads
  <2>4. ~Quiet(l)
    BY <1>3 DEF Quiet
  <2> QED
    BY <1>6, <1>8, <1>10, <2>2, <2>3, <2>4 DEF Owns
<1>11. Awaits(l, k)
  BY <1>2, <1>7 DEF Awaits
<1>12. ASSUME NEW j \in Calls, Awaits(m, j)
       PROVE  Awaits(l, j)
  BY <1>2, <1>6, <1>7, <1>11, <1>12 DEF Awaits
<1>13. Keeps(l, m)
  BY <1>6, <1>7, <1>9, <1>10, <1>12 DEF Keeps
<1>14. ~Answering(m) => Eases(l, m)
  BY <1>6, <1>13 DEF Eases, Serves
<1>15. ASSUME Answering(m), NEW j \in Calls, Serves(m, j)
       PROVE  j = k
  <2>1. Carries(l, j) /\ Carries(l, k)
    BY <1>2, <1>6, <1>8, <1>15 DEF Serves, Carries
  <2> QED
    BY <1>2, <2>1 DEF Sound
<1> QED
  BY <1>2, <1>7, <1>11, <1>13, <1>14, <1>15 DEF m, k

\* The server writes n pieces of an answer.
WrittenRecord(l, n) ==
    LET sent == l.sent + n IN
    [l EXCEPT !.down = IF l.near = "closed" THEN l.down
                       ELSE l.down \o Pieces(l.request, n),
              !.sent = IF sent = Size THEN 0 ELSE sent,
              !.got = IF sent = Size THEN 0 ELSE l.got,
              !.request = IF sent = Size THEN 0 ELSE l.request,
              !.state = IF sent = Size THEN "READ_HEADER" ELSE l.state]

LEMMA ResponseWritten ==
    ASSUME NEW l \in LinkRecords, Sound(l), l.far = "open", Answering(l),
           NEW n \in 0..(Size - l.sent)
    PROVE  Eases(l, WrittenRecord(l, n))
<1> DEFINE m == WrittenRecord(l, n)
           k == l.request
           d == IF l.near = "closed" THEN l.down ELSE l.down \o Pieces(k, n)
<1>1. Size \in Nat /\ Size > 0 /\ 0 \notin Calls /\ MaxCalls \in Nat
  BY RpcAssumption DEF Calls
<1>2. /\ Len(l.up) \in Nat /\ Len(l.down) \in Nat /\ l.got \in Nat
      /\ l.sent \in Nat /\ n \in Nat /\ k \in 0..MaxCalls
      /\ l.down \in Seq(Calls) /\ l.up \in Seq(Calls)
  BY <1>1 DEF LinkRecords
<1>3. /\ l.got = Size /\ Len(l.up) = 0 /\ l.sent < Size /\ Len(l.down) <= l.sent
      /\ k # 0
  BY <1>1, <1>2 DEF Sound
<1>4. k \in Calls
  BY <1>1, <1>2, <1>3 DEF Calls
<1>5. /\ d \in Seq(Calls) /\ Len(d) \in Nat
      /\ Len(d) = IF l.near = "closed" THEN Len(l.down) ELSE Len(l.down) + n
      /\ \A j : Has(d, j) => Has(l.down, j) \/ j = k
  <2>1. CASE l.near = "closed"
    BY <1>2, <2>1
  <2>2. CASE l.near # "closed"
    <3> DEFINE p == l.down \o Pieces(k, n)
    <3>1. /\ p \in Seq(Calls) /\ Len(p) = Len(l.down) + n
          /\ \A j : Has(p, j) => Has(l.down, j) \/ j = k
      BY <1>2, <1>4, SentPieces
    <3>2. d = p
      BY <2>2
    <3> HIDE DEF p, d, k
    <3> QED
      BY <1>2, <2>2, <3>1, <3>2
  <2> QED
    BY <2>1, <2>2
<1>6. l.sent + n \in 0..Size
  BY <1>1, <1>2
<1>7. /\ m \in LinkRecords /\ m.far = "open" /\ m.near = l.near
      /\ m.up = l.up /\ m.down = d
      /\ m.sent = (IF l.sent + n = Size THEN 0 ELSE l.sent + n)
      /\ m.got = (IF l.sent + n = Size THEN 0 ELSE Size)
      /\ m.request = (IF l.sent + n = Size THEN 0 ELSE k)
      /\ m.state = (IF l.sent + n = Size THEN "READ_HEADER" ELSE "WRITE_RESPONSE")
  <2> DEFINE e == l.sent + n
             f == IF e = Size THEN 0 ELSE e
             g == IF e = Size THEN 0 ELSE l.got
             q == IF e = Size THEN 0 ELSE k
             t == IF e = Size THEN "READ_HEADER" ELSE l.state
  <2>1. m = [l EXCEPT !.down = d, !.sent = f, !.got = g, !.request = q, !.state = t]
    BY DEF WrittenRecord
  <2>2. /\ f \in 0..Size /\ g \in 0..Size /\ q \in 0..MaxCalls
        /\ t \in {"READ_HEADER", "WRITE_RESPONSE"}
    BY <1>1, <1>2, <1>3, <1>6 DEF Answering
  <2>3. /\ g = IF e = Size THEN 0 ELSE Size
        /\ t = IF e = Size THEN "READ_HEADER" ELSE "WRITE_RESPONSE"
    BY <1>3 DEF Answering
  <2> HIDE DEF m, d, f, g, q, t
  <2>4. m \in LinkRecords
    BY <1>5, <2>1, <2>2 DEF LinkRecords
  <2>5. /\ m.far = "open" /\ m.near = l.near /\ m.up = l.up /\ m.down = d
        /\ m.sent = f /\ m.got = g /\ m.request = q /\ m.state = t
    BY <2>1 DEF LinkRecords
  <2> QED
    BY <2>3, <2>4, <2>5 DEF f, q
<1> HIDE DEF m, k, d
<1>8. Live(l) /\ Live(m) /\ (Answering(m) <=> l.sent + n # Size)
  BY <1>7 DEF Live, Answering
<1>9. \A j \in Calls : Carries(m, j) => Carries(l, j)
  BY <1>1, <1>5, <1>7 DEF Carries, k
<1>10. Sound(m)
  <2>1. \A i, j \in Calls : Carries(m, i) /\ Carries(m, j) => i = j
    BY <1>9 DEF Sound
  <2> QED
    <3>1. Len(m.up) = 0 /\ Len(m.down) = Len(d) /\ Len(d) <= l.sent + n
      BY <1>2, <1>3, <1>5, <1>7
    <3>2. CASE l.sent + n = Size
      BY <1>1, <1>5, <1>7, <1>8, <2>1, <3>1, <3>2 DEF Sound
    <3>3. CASE l.sent + n # Size
      <4>1. l.sent + n < Size
        BY <1>1, <1>2, <1>6, <3>3
      <4> QED
        BY <1>1, <1>3, <1>7, <1>8, <2>1, <3>1, <3>3, <4>1 DEF Sound
    <3> QED
      BY <3>2, <3>3
<1>11. ASSUME NEW o \in ClientRecords, Owns(o, l)
       PROVE  Owns(o, m)
  <2>1. o.got \in Nat /\ o.written \in Nat
    BY DEF ClientRecords
  <2>2. l.near = "open" /\ ~Writes(o, l) /\ ~Quiet(l)
    BY <1>1, <1>3, <1>11 DEF Owns, Writes, Quiet
  <2>3. Reads(o, l) => Reads(o, m)
    <3>1. l.near # "closed" /\ Len(d) = Len(l.down) + n
      BY <1>5, <2>2
    <3>2. CASE l.sent + n = Size
      <4>1. m.got = 0 /\ Len(m.up) = 0 /\ Len(m.down) = Len(l.down) + n
        BY <1>3, <1>7, <3>1, <3>2
      <4>2. Reads(o, l) => o.got < Size /\ o.got + Len(l.down) = l.sent
        BY <1>8 DEF Reads
      <4>3. Reads(o, l) => o.got + Len(m.down) = Size
        BY <1>1, <1>2, <2>1, <3>2, <4>1, <4>2
      <4> QED
        BY <1>1, <1>7, <1>8, <2>1, <3>2, <4>1, <4>2, <4>3 DEF Reads
    <3>3. CASE l.sent + n # Size
      BY <1>1, <1>2, <1>3, <1>6, <1>7, <1>8, <2>1, <3>1, <3>3 DEF Reads
    <3> QED
      BY <3>2, <3>3
  <2> QED
    BY <1>7, <1>9, <1>11, <2>2, <2>3 DEF Owns
<1>12. \A j \in Calls : ~Awaits(m, j)
  BY <1>1, <1>3, <1>7, <1>8 DEF Awaits, Has
<1>13. \A j \in Calls : Serves(m, j) => Serves(l, j)
  BY <1>5, <1>7, <1>8 DEF Serves, k
<1> QED
  BY <1>7, <1>8, <1>10, <1>11, <1>12, <1>13 DEF Eases, Keeps, m

-----------------------------------------------------------------------------
(* What a client does to a connection: it changes neither where the server *)
(* is with it nor what the server has read.                                *)

Touches(l, m) ==
    /\ m \in LinkRecords /\ Sound(m)
    /\ m.far = l.far /\ m.state = l.state /\ m.got = l.got
    /\ m.request = l.request /\ m.sent = l.sent
    /\ \A k \in Calls : Serves(m, k) => Serves(l, k)

\* A client that closes its end.
LEMMA NearCloses ==
    ASSUME NEW l \in LinkRecords, Sound(l)
    PROVE  /\ Touches(l, [l EXCEPT !.near = "closed", !.down = <<>>])
           /\ [l EXCEPT !.near = "closed", !.down = <<>>].up = l.up
<1> DEFINE m == [l EXCEPT !.near = "closed", !.down = <<>>]
<1>1. /\ m \in LinkRecords /\ m.up = l.up /\ m.down = <<>> /\ m.far = l.far
      /\ m.state = l.state /\ m.got = l.got /\ m.request = l.request
      /\ m.sent = l.sent
  BY NoPieces DEF LinkRecords
<1> HIDE DEF m
<1>2. (Live(m) <=> Live(l)) /\ (Answering(m) <=> Answering(l)) /\ Len(m.down) = 0
  BY <1>1, NoPieces DEF Live, Answering
<1>3. \A k : Carries(m, k) => Carries(l, k)
  BY <1>1, NoPieces DEF Carries
<1>4. Sound(m)
  BY <1>1, <1>2, <1>3, LinkFields DEF Sound
<1>5. \A k : Serves(m, k) => Serves(l, k)
  BY <1>1, <1>2, NoPieces DEF Serves
<1> QED
  BY <1>1, <1>4, <1>5 DEF Touches, m

\* The types of the fields of a client that are numbers.
LEMMA ClientFields ==
    ASSUME NEW o \in ClientRecords
    PROVE  /\ o.got \in Nat /\ o.got <= Size
           /\ o.written \in Nat /\ o.written <= Size
           /\ o.fd \in Nat /\ o.call \in Nat
  BY RpcAssumption DEF ClientRecords

\* The client writes n pieces of its request; they are lost at an end that
\* was closed.
WritingClient(o, n) ==
    [o EXCEPT !.written = o.written + n,
              !.state = IF o.written + n = Size THEN "READ_HEADER" ELSE o.state,
              !.got = 0, !.from = 0]

WritingRecord(o, l, n) ==
    IF l.far = "closed" THEN l ELSE [l EXCEPT !.up = l.up \o Pieces(o.call, n)]

LEMMA RequestWritten ==
    ASSUME NEW o \in ClientRecords, NEW l \in LinkRecords, Sound(l), Owns(o, l),
           o.pc = "work", o.state = "WRITE_REQUEST", o.call \in Calls,
           l.far # "refused", NEW n \in 1..(Size - o.written)
    PROVE  /\ WritingClient(o, n) \in ClientRecords
           /\ Touches(l, WritingRecord(o, l, n))
           /\ Owns(WritingClient(o, n), WritingRecord(o, l, n))
           /\ \A k \in Calls : Awaits(WritingRecord(o, l, n), k) =>
                Awaits(l, k) \/ (Live(l) /\ k = o.call)
<1> DEFINE m == WritingRecord(o, l, n)
           p == WritingClient(o, n)
           u == l.up \o Pieces(o.call, n)
<1>1. /\ Size \in Nat /\ Size > 0 /\ 0 \in 0..Size /\ MaxCalls \in Nat
      /\ 0 \in 0..MaxCalls /\ 0 \notin Calls
      /\ Len(l.up) \in Nat /\ Len(l.down) \in Nat /\ l.got \in Nat /\ l.up \in Seq(Calls)
  BY LinkFields
<1>2. o.written \in Nat /\ o.written <= Size /\ n \in Nat /\ n >= 1
      /\ o.written + n \in 0..Size
  BY <1>1, ClientFields
<1>3. /\ \A k \in Calls : Carries(l, k) => k = o.call
      /\ Writes(o, l) /\ l.near = "open"
  BY DEF Owns
<1>4. /\ p \in ClientRecords /\ p.pc = "work" /\ p.call = o.call
      /\ p.written = o.written + n /\ p.got = 0
      /\ p.state = IF o.written + n = Size THEN "READ_HEADER" ELSE "WRITE_REQUEST"
  <2> DEFINE w == o.written + n
             t == IF w = Size THEN "READ_HEADER" ELSE o.state
  <2>1. p = [o EXCEPT !.written = w, !.state = t, !.got = 0, !.from = 0]
    BY DEF WritingClient
  <2>2. w \in 0..Size /\ t \in {"READ_HEADER", "WRITE_REQUEST"}
    BY <1>2
  <2>3. t = IF o.written + n = Size THEN "READ_HEADER" ELSE "WRITE_REQUEST"
    OBVIOUS
  <2> HIDE DEF p, t, w
  <2>4. p \in ClientRecords
    BY <1>1, <2>1, <2>2 DEF ClientRecords
  <2>5. p.pc = o.pc /\ p.call = o.call /\ p.written = w /\ p.got = 0 /\ p.state = t
    BY <2>1 DEF ClientRecords
  <2> QED
    BY <2>3, <2>4, <2>5 DEF w
<1>5. CASE l.far = "closed"
  <2>1. m = l /\ ~Live(l)
    BY <1>5 DEF WritingRecord, Live
  <2>2. Writes(p, l) \/ p.written = Size
    <3>1. o.written + n < Size \/ o.written + n = Size
      BY <1>1, <1>2
    <3>2. ~Answering(l) /\ Len(l.down) = 0
      BY <1>3 DEF Writes
    <3> HIDE DEF p
    <3> QED
      BY <1>4, <2>1, <3>1, <3>2 DEF Writes
  <2>3. p.written = Size => Reads(p, l)
    BY <1>1, <1>3, <1>4, <2>1, <1>5 DEF Reads, Writes
  <2>4. Owns(p, l)
    BY <1>1, <1>2, <1>3, <1>4, <2>2, <2>3 DEF Owns, Writes
  <2> HIDE DEF p, m
  <2> QED
    BY <1>4, <2>1, <2>4 DEF Touches, p, m
<1>6. CASE l.far # "closed"
  <2>1. Live(l)
    BY <1>6 DEF Live, LinkRecords
  <2>2. /\ u \in Seq(Calls) /\ Len(u) = Len(l.up) + n
        /\ \A j : Has(u, j) => Has(l.up, j) \/ j = o.call
    BY <1>1, <1>2, SentPieces, ZenonT(30)
  <2>3. m = [l EXCEPT !.up = u]
    BY <1>6 DEF WritingRecord
  <2> HIDE DEF p, m, u
  <2>4. /\ m \in LinkRecords /\ m.up = u /\ m.down = l.down /\ m.far = l.far
        /\ m.state = l.state /\ m.got = l.got /\ m.request = l.request
        /\ m.sent = l.sent /\ m.near = l.near
    BY <2>2, <2>3 DEF LinkRecords
  <2>5. Live(m) /\ (Answering(m) <=> Answering(l))
    BY <2>1, <2>4 DEF Live, Answering
  <2>6. \A k \in Calls : Carries(m, k) => k = o.call
    BY <1>3, <2>2, <2>4 DEF Carries
  <2>7. /\ ~Answering(l) /\ Len(l.down) = 0 /\ l.got + Len(l.up) = o.written
        /\ m.got + Len(m.up) = o.written + n
    <3>1. ~Answering(l) /\ Len(l.down) = 0 /\ l.got + Len(l.up) = o.written
      BY <1>3, <2>1 DEF Writes
    <3> QED
      <4>1. m.got + Len(m.up) = l.got + (Len(l.up) + n)
        BY <2>2, <2>4
      <4>2. l.got + (Len(l.up) + n) = o.written + n
        BY <1>1, <1>2, <3>1
      <4> QED
        BY <3>1, <4>1, <4>2
  <2>8. Sound(m)
    BY <1>1, <1>2, <2>1, <2>4, <2>5, <2>6, <2>7 DEF Sound
  <2>9. Owns(p, m)
    <3>1. CASE o.written + n = Size
      <4>1. Reads(p, m)
        BY <1>1, <1>4, <2>4, <2>5, <2>7, <3>1 DEF Reads
      <4> QED
        BY <1>3, <1>4, <2>4, <2>6, <3>1, <4>1 DEF Owns
    <3>2. CASE o.written + n # Size
      <4>1. Writes(p, m)
        BY <1>1, <1>2, <1>4, <2>4, <2>5, <2>7, <3>2 DEF Writes
      <4> QED
        BY <1>3, <1>4, <2>4, <2>6, <3>2, <4>1 DEF Owns
    <3> QED
      BY <3>1, <3>2
  <2>10. \A k : Serves(m, k) => Serves(l, k)
    BY <2>4, <2>5 DEF Serves
  <2>11. \A k \in Calls : Awaits(m, k) => Awaits(l, k) \/ (Live(l) /\ k = o.call)
    BY <2>1, <2>2, <2>4, <2>5 DEF Awaits
  <2> QED
    BY <1>4, <2>4, <2>8, <2>9, <2>10, <2>11 DEF Touches, p, m
<1> QED
  BY <1>5, <1>6

\* The client reads n pieces of its answer, with the last of them perhaps the
\* end of the connection.
ReadingClient(o, l, n, eof) ==
    LET done == o.got + n = Size IN
    [o EXCEPT !.pc = IF done THEN "idle" ELSE o.pc,
              !.state = IF done THEN "IDLE"
                        ELSE IF o.got + n < Header THEN "READ_HEADER"
                        ELSE "READ_RESPONSE",
              !.eof = eof, !.got = o.got + n, !.from = Head(l.down),
              !.call = IF done THEN 0 ELSE o.call]

ReadingRecord(l, n) == [l EXCEPT !.down = SubSeq(l.down, n + 1, Len(l.down))]

LEMMA ResponseRead ==
    ASSUME NEW o \in ClientRecords, NEW l \in LinkRecords, Sound(l), Owns(o, l),
           o.pc = "work", o.state \in {"READ_HEADER", "READ_RESPONSE"},
           NEW n \in 1..Len(l.down), NEW eof \in BOOLEAN
    PROVE  LET p == ReadingClient(o, l, n, eof)
               m == ReadingRecord(l, n)
           IN /\ p \in ClientRecords
              /\ Touches(l, m) /\ m.up = l.up
              /\ Owns(p, m)
              /\ Head(l.down) = o.call /\ Serves(l, o.call)
<1> DEFINE m == ReadingRecord(l, n)
           p == ReadingClient(o, l, n, eof)
           d == SubSeq(l.down, n + 1, Len(l.down))
<1>1. /\ Size \in Nat /\ Size > 0 /\ 0 \in 0..Size /\ MaxCalls \in Nat
      /\ 0 \in 0..MaxCalls /\ 0 \notin Calls
      /\ Len(l.up) \in Nat /\ Len(l.down) \in Nat /\ l.got \in Nat
      /\ l.down \in Seq(Calls) /\ l.sent \in Nat
  BY LinkFields
<1>2. /\ d \in Seq(Calls) /\ Len(d) = Len(l.down) - n
      /\ \A j : Has(d, j) => Has(l.down, j)
      /\ Head(l.down) \in Calls /\ Has(l.down, Head(l.down))
  BY <1>1, TakenPieces
<1>3. /\ \A k \in Calls : Carries(l, k) => k = o.call
      /\ Reads(o, l) /\ l.near = "open"
  BY DEF Owns
<1>4. Head(l.down) = o.call /\ Serves(l, o.call)
  BY <1>2, <1>3 DEF Carries, Serves
<1>5. o.got \in Nat /\ o.call \in 1..MaxCalls /\ n \in Nat /\ n >= 1
  BY <1>1, <1>2, <1>4, ClientFields DEF Calls
<1>6. o.got + n \in 1..Size /\ o.got + Len(l.down) <= Size /\ Len(l.down) > 0
  <2>1. o.got + Len(l.down) <= Size
    BY <1>3 DEF Reads
  <2> QED
    BY <1>1, <1>5, <2>1
<1>7. /\ p \in ClientRecords /\ p.eof = eof /\ p.got = o.got + n
      /\ p.written = o.written
      /\ p.pc = (IF o.got + n = Size THEN "idle" ELSE "work")
      /\ p.call = (IF o.got + n = Size THEN 0 ELSE o.call)
      /\ p.state = "IDLE" <=> o.got + n = Size
      /\ p.state \in {"IDLE", "READ_HEADER", "READ_RESPONSE"}
  <2> DEFINE g == o.got + n
             s == IF g = Size THEN "idle" ELSE o.pc
             t == IF g = Size THEN "IDLE"
                  ELSE IF g < Header THEN "READ_HEADER" ELSE "READ_RESPONSE"
             k == IF g = Size THEN 0 ELSE o.call
             h == Head(l.down)
  <2>1. p = [o EXCEPT !.pc = s, !.state = t, !.eof = eof, !.got = g, !.from = h,
                      !.call = k]
    BY DEF ReadingClient
  <2>2. /\ g \in 0..Size /\ s \in {"idle", "work"} /\ k \in 0..MaxCalls
        /\ h \in 0..MaxCalls
        /\ t \in {"IDLE", "READ_HEADER", "READ_RESPONSE"}
        /\ (t = "IDLE" <=> g = Size)
        /\ s = (IF o.got + n = Size THEN "idle" ELSE "work")
    BY <1>1, <1>4, <1>5, <1>6
  <2> HIDE DEF p, g, s, t, k, h
  <2>3. p \in ClientRecords
    BY <2>1, <2>2 DEF ClientRecords
  <2>4. /\ p.eof = eof /\ p.got = g /\ p.written = o.written /\ p.pc = s
        /\ p.call = k /\ p.state = t
    BY <2>1 DEF ClientRecords
  <2> QED
    BY <2>2, <2>3, <2>4 DEF g, k
<1>8. /\ m \in LinkRecords /\ m.up = l.up /\ m.down = d /\ m.far = l.far
      /\ m.state = l.state /\ m.got = l.got /\ m.request = l.request
      /\ m.sent = l.sent /\ m.near = l.near
  <2>1. m = [l EXCEPT !.down = d]
    BY DEF ReadingRecord
  <2> HIDE DEF m, d
  <2> QED
    BY <1>2, <2>1 DEF LinkRecords
<1> HIDE DEF m, p, d
<1>9. (Live(m) <=> Live(l)) /\ (Answering(m) <=> Answering(l))
  BY <1>8 DEF Live, Answering
<1>10. \A k : Carries(m, k) => Carries(l, k)
  BY <1>2, <1>8 DEF Carries
<1>11. Len(m.down) \in Nat /\ Len(m.down) < Len(l.down)
       /\ p.got + Len(m.down) = o.got + Len(l.down)
  BY <1>1, <1>2, <1>5, <1>7, <1>8, SMTT(20)
<1>12. Sound(m)
  <2>1. \A j, k \in Calls : Carries(m, j) /\ Carries(m, k) => j = k
    BY <1>10 DEF Sound
  <2>2. Len(m.up) = Len(l.up) /\ l.got + Len(l.up) <= Size
    BY <1>8 DEF Sound
  <2> QED
    BY <1>1, <1>6, <1>8, <1>9, <1>11, <2>1, <2>2 DEF Sound
<1>13. Owns(p, m)
  <2>1. CASE o.got + n = Size
    <3>1. Len(m.down) = 0 /\ o.got + Len(l.down) = Size
      BY <1>1, <1>5, <1>6, <1>7, <1>11, <2>1
    <3>2. ~(Live(l) /\ Answering(l))
      BY <1>1, <1>3, <3>1 DEF Reads, Sound
    <3>3. l.got = 0 /\ Len(l.up) = 0
      BY <1>1, <1>6, <3>2 DEF Sound
    <3>4. Quiet(m)
      BY <1>8, <3>1, <3>3 DEF Quiet
    <3> QED
      BY <1>3, <1>7, <1>8, <2>1, <3>4 DEF Owns
  <2>2. CASE o.got + n # Size
    <3>1. p.got < Size /\ o.got < Size /\ l.far # "refused"
      <4>1. o.got + n < Size
        BY <1>1, <1>6, <2>2
      <4> QED
        BY <1>3, <1>7, <4>1 DEF Reads
    <3>2. Live(l) /\ Answering(l) => o.got + Len(l.down) = l.sent
      BY <1>3 DEF Reads
    <3>3. Live(l) /\ ~Answering(l) =>
            l.got = 0 /\ Len(l.up) = 0 /\ o.got + Len(l.down) = Size
      BY <1>1, <1>3, <1>6 DEF Reads, Sound
    <3>4. Reads(p, m)
      BY <1>6, <1>8, <1>9, <1>11, <3>1, <3>2, <3>3 DEF Reads
    <3> QED
      BY <1>3, <1>7, <1>8, <1>10, <2>2, <3>4 DEF Owns
  <2> QED
    BY <2>1, <2>2
<1>14. \A k : Serves(m, k) => Serves(l, k)
  BY <1>2, <1>8, <1>9 DEF Serves
<1> QED
  BY <1>4, <1>7, <1>8, <1>12, <1>13, <1>14 DEF Touches, m, p

-----------------------------------------------------------------------------
(* The invariant, of the clients cl, the connections ln, the server sv, the *)
(* outcomes oc and the runs ru of the calls.                               *)

\* What client o has is its connection among ln.
Fits(o, ln) ==
    /\ o.fd = 0 <=> o.state = "NO_CONNECTION"
    /\ o.pc = "work" => o.fd # 0
    /\ o.fd # 0 => o.fd \in 1..Len(ln) /\ Owns(o, ln[o.fd])

\* The connection whose request the server executes has got it whole, and
\* nothing of its answer is written.
Executes(sv, ln) ==
    /\ sv.pc = "exec" <=> sv.serving # 0
    /\ sv.serving # 0 =>
         /\ sv.serving \in 1..Len(ln) /\ ln[sv.serving].far = "open"
         /\ Answering(ln[sv.serving]) /\ ln[sv.serving].sent = 0

Wires(cl, ln, sv) ==
    /\ cl \in [Clients -> ClientRecords]
    /\ ln \in Seq(LinkRecords) /\ Len(ln) <= MaxSockets
    /\ sv \in ServerRecords
    /\ \A s \in 1..Len(ln) : Sound(ln[s])
    /\ \A c \in Clients : Fits(cl[c], ln)
    /\ \A c, d \in Clients : cl[c].fd = cl[d].fd /\ cl[c].fd # 0 => c = d
    /\ Executes(sv, ln)

\* A client has a call of its own, pending, while it works on one; the calls
\* that are issued are the first so many.
Attends(o, oc) ==
    /\ IF o.pc \in {"setup", "work"} THEN o.call \in Calls /\ oc[o.call] = "pending"
       ELSE o.call = 0
    /\ o.pc = "setup" => o.attempts = 0

Numbered(oc) == \E m \in 0..MaxCalls : \A k \in Calls : oc[k] # "none" <=> k <= m

Callers(oc, cl) ==
    /\ oc \in [Calls -> {"none", "pending", "answered", "failed"}]
    /\ Numbered(oc)
    /\ \A c \in Clients : Attends(cl[c], oc)
    /\ \A c, d \in Clients : cl[c].call = cl[d].call /\ cl[c].call # 0 => c = d

\* The connections over which call k may be executed yet: its request is
\* there, or its client is writing it.
Sends(o, k) == o.pc = "work" /\ o.state = "WRITE_REQUEST" /\ o.call = k

Due(cl, ln, k) ==
    {s \in 1..Len(ln) :
       \/ Awaits(ln[s], k)
       \/ Live(ln[s]) /\ \E c \in Clients : Sends(cl[c], k) /\ cl[c].fd = s}

\* The connections its client may yet use for it.
Spare(oc, cl, k) ==
    IF oc[k] = "none" \/ \E c \in Clients : cl[c].pc = "setup" /\ cl[c].call = k
    THEN 2
    ELSE IF \E c \in Clients : cl[c].pc = "work" /\ cl[c].call = k /\ cl[c].attempts = 0
    THEN 1 ELSE 0

Within(ru, D, n) == ru + Cardinality(D) + n <= 2

Spent(oc, ru, cl, ln) ==
    /\ ru \in [Calls -> Nat]
    /\ \A k \in Calls : \A s \in 1..Len(ln) : Serves(ln[s], k) => ru[k] > 0
    /\ \A k \in Calls : Within(ru[k], Due(cl, ln, k), Spare(oc, cl, k))

\* All of it but the answers.
Right(oc, ru, cl, ln, sv) ==
    Wires(cl, ln, sv) /\ Callers(oc, cl) /\ Spent(oc, ru, cl, ln)

Inv ==
    /\ Right(outcome, runs, client, link, server)
    /\ answer \in [Calls -> 0..MaxCalls]

-----------------------------------------------------------------------------
(* The budget of a call.                                                   *)

LEMMA SpareBounds ==
    ASSUME NEW oc, NEW cl, NEW k
    PROVE  Spare(oc, cl, k) \in 0..2
  BY DEF Spare

LEMMA DueFinite ==
    ASSUME NEW cl, NEW ln \in Seq(LinkRecords), NEW k
    PROVE  IsFiniteSet(Due(cl, ln, k)) /\ Cardinality(Due(cl, ln, k)) \in Nat
<1>1. Len(ln) \in Nat
  OBVIOUS
<1>2. IsFiniteSet(1..Len(ln))
  BY <1>1, FS_Interval
<1>3. Due(cl, ln, k) \subseteq 1..Len(ln)
  BY DEF Due
<1>4. IsFiniteSet(Due(cl, ln, k))
  BY <1>2, <1>3, FS_Subset
<1> QED
  BY <1>4, FS_CardinalityType

\* Less is due, and no more may be sent.
LEMMA BudgetKept ==
    ASSUME NEW ru \in Nat, NEW D, IsFiniteSet(D), NEW E \in SUBSET D,
           NEW n \in Nat, NEW m \in Nat, m <= n, Within(ru, D, n)
    PROVE  Within(ru, E, m)
<1>1. IsFiniteSet(E) /\ Cardinality(E) <= Cardinality(D)
  BY FS_Subset
<1>2. Cardinality(E) \in Nat /\ Cardinality(D) \in Nat
  BY <1>1, FS_CardinalityType
<1> QED
  BY <1>1, <1>2 DEF Within

\* One of the connections that may be used is used.
LEMMA BudgetSpent ==
    ASSUME NEW ru \in Nat, NEW D, IsFiniteSet(D), NEW x, NEW E \in SUBSET (D \cup {x}),
           NEW n \in Nat, NEW m \in Nat, m + 1 <= n, Within(ru, D, n)
    PROVE  Within(ru, E, m)
<1> DEFINE F == D \cup {x}
<1>1. IsFiniteSet(F) /\ Cardinality(F) <= Cardinality(D) + 1
      /\ Cardinality(F) \in Nat /\ Cardinality(D) \in Nat
  <2>1. IsFiniteSet(F) /\ Cardinality(F) = IF x \in D THEN Cardinality(D) ELSE Cardinality(D) + 1
    BY FS_AddElement
  <2> QED
    BY <2>1, FS_CardinalityType
<1> HIDE DEF F
<1>2. E \subseteq F
  BY DEF F
<1>3. IsFiniteSet(E) /\ Cardinality(E) <= Cardinality(F)
  BY <1>1, <1>2, FS_Subset
<1>4. Cardinality(E) \in Nat
  BY <1>3, FS_CardinalityType
<1> QED
  BY <1>1, <1>3, <1>4 DEF Within

\* One that is due is executed.
LEMMA BudgetRun ==
    ASSUME NEW ru \in Nat, NEW D, IsFiniteSet(D), NEW x \in D,
           NEW E \in SUBSET (D \ {x}), NEW n \in Nat, Within(ru, D, n)
    PROVE  Within(ru + 1, E, n) /\ ru < 2
<1> DEFINE F == D \ {x}
<1>1. IsFiniteSet(F) /\ Cardinality(F) = Cardinality(D) - 1
  BY FS_RemoveElement
<1>2. Cardinality(F) \in Nat /\ Cardinality(D) \in Nat
  BY <1>1, FS_CardinalityType
<1> HIDE DEF F
<1>3. IsFiniteSet(E) /\ Cardinality(E) <= Cardinality(F)
  BY <1>1, FS_Subset DEF F
<1>4. Cardinality(E) \in Nat
  BY <1>3, FS_CardinalityType
<1> QED
  BY <1>1, <1>2, <1>3, <1>4 DEF Within

\* The connections the client of a call may use.
LEMMA SpareOf ==
    ASSUME NEW oc, NEW cl, Callers(oc, cl), NEW c \in Clients,
           cl[c].pc \in {"setup", "work"}
    PROVE  Spare(oc, cl, cl[c].call) =
             IF cl[c].pc = "setup" THEN 2 ELSE IF cl[c].attempts = 0 THEN 1 ELSE 0
<1> DEFINE k == cl[c].call
<1>1. k \in Calls /\ oc[k] = "pending" /\ k # 0
  BY RpcAssumption DEF Callers, Attends, Calls
<1>2. \A d \in Clients : cl[d].call = k => d = c
  BY <1>1 DEF Callers
<1> QED
  BY <1>1, <1>2 DEF Spare

LEMMA SpareNone ==
    ASSUME NEW oc, NEW cl, NEW k, oc[k] # "none",
           \A d \in Clients : cl[d].call # k
    PROVE  Spare(oc, cl, k) = 0
  BY DEF Spare

-----------------------------------------------------------------------------
(* A step of the server: it leaves the clients alone.                      *)

LEMMA WiresAfterServer ==
    ASSUME NEW cl, NEW ln, NEW sv, Wires(cl, ln, sv), NEW r \in Seq(LinkRecords),
           Len(r) = Len(ln),
           \A s \in 1..Len(ln) : r[s] = ln[s] \/ Keeps(ln[s], r[s]),
           NEW tv \in ServerRecords, Executes(tv, r)
    PROVE  Wires(cl, r, tv)
<1>1. \A s \in 1..Len(r) : Sound(r[s])
  BY DEF Wires, Keeps
<1>2. ASSUME NEW c \in Clients
      PROVE  Fits(cl[c], r)
  <2>1. Fits(cl[c], ln) /\ cl[c] \in ClientRecords
    BY DEF Wires
  <2> QED
    BY <2>1 DEF Fits, Keeps
<1> QED
  BY <1>1, <1>2 DEF Wires

LEMMA DueAfterServer ==
    ASSUME NEW cl, NEW ln, NEW r, Len(r) = Len(ln), NEW k \in Calls,
           \A s \in 1..Len(ln) : r[s] = ln[s] \/ Keeps(ln[s], r[s])
    PROVE  Due(cl, r, k) \subseteq Due(cl, ln, k)
  BY DEF Due, Keeps

LEMMA SpentAfterServer ==
    ASSUME NEW oc, NEW ru, NEW cl, NEW ln \in Seq(LinkRecords), Spent(oc, ru, cl, ln),
           NEW r, Len(r) = Len(ln),
           \A s \in 1..Len(ln) : r[s] = ln[s] \/ Eases(ln[s], r[s])
    PROVE  Spent(oc, ru, cl, r)
<1>1. \A s \in 1..Len(ln) : r[s] = ln[s] \/ Keeps(ln[s], r[s])
  BY DEF Eases
<1>2. ASSUME NEW k \in Calls
      PROVE  Within(ru[k], Due(cl, r, k), Spare(oc, cl, k))
  <2>1. Due(cl, r, k) \subseteq Due(cl, ln, k)
    BY <1>1, DueAfterServer
  <2>2. Spare(oc, cl, k) \in Nat /\ Spare(oc, cl, k) <= Spare(oc, cl, k)
    BY SpareBounds
  <2>3. ru[k] \in Nat /\ Within(ru[k], Due(cl, ln, k), Spare(oc, cl, k))
    BY DEF Spent
  <2>4. IsFiniteSet(Due(cl, ln, k))
    BY DueFinite
  <2> QED
    BY <2>1, <2>2, <2>3, <2>4, BudgetKept
<1>3. \A k \in Calls : \A s \in 1..Len(r) : Serves(r[s], k) => ru[k] > 0
  BY DEF Spent, Eases
<1> QED
  BY <1>2, <1>3 DEF Spent

-----------------------------------------------------------------------------
(* A step of client c, which becomes o.                                    *)

LEMMA WiresAfterClient ==
    ASSUME NEW cl, NEW ln, NEW sv, Wires(cl, ln, sv), NEW c \in Clients,
           NEW o \in ClientRecords, NEW r \in Seq(LinkRecords), Fits(o, r),
           Len(ln) <= Len(r), Len(r) <= MaxSockets,
           \A s \in 1..Len(r) : Sound(r[s]),
           \A s \in 1..Len(ln) : r[s] = ln[s] \/ Touches(ln[s], r[s]),
           \A s \in 1..Len(ln) : s # cl[c].fd => r[s] = ln[s],
           o.fd \in {0, cl[c].fd} \/ o.fd > Len(ln)
    PROVE  Wires([cl EXCEPT ![c] = o], r, sv)
<1> DEFINE el == [cl EXCEPT ![c] = o]
<1>1. Len(ln) \in Nat /\ Len(r) \in Nat /\ 1..Len(ln) \subseteq 1..Len(r)
  BY DEF Wires
<1>2. el \in [Clients -> ClientRecords] /\ el[c] = o
      /\ \A d \in Clients \ {c} : el[d] = cl[d]
  BY DEF Wires
<1> HIDE DEF el
<1>3. ASSUME NEW d \in Clients
      PROVE  Fits(el[d], r)
  <2>1. CASE d = c
    BY <1>2, <2>1
  <2>2. CASE d # c
    <3>1. el[d] = cl[d] /\ Fits(cl[d], ln)
      BY <1>2, <2>2 DEF Wires
    <3>2. cl[d].fd # 0 => cl[d].fd # cl[c].fd
      BY <2>2 DEF Wires
    <3> QED
      BY <1>1, <3>1, <3>2 DEF Fits
  <2> QED
    BY <2>1, <2>2
<1>4. ASSUME NEW d \in Clients, NEW e \in Clients, el[d].fd = el[e].fd, el[d].fd # 0
      PROVE  d = e
  <2>1. \A f \in Clients : cl[f].fd # 0 => cl[f].fd <= Len(ln)
    BY <1>1 DEF Wires, Fits
  <2>2. \A f \in Clients \ {c} : cl[f].fd = o.fd => cl[f].fd = 0
    <3> SUFFICES ASSUME NEW f \in Clients \ {c}, cl[f].fd = o.fd, cl[f].fd # 0
                 PROVE  FALSE
      OBVIOUS
    <3>1. o.fd = cl[c].fd
      BY <1>1, <2>1, ClientFields
    <3> QED
      BY <3>1 DEF Wires
  <2> QED
    BY <1>2, <1>4, <2>2 DEF Wires
<1>5. Executes(sv, r)
  BY <1>1 DEF Wires, Executes, Touches, Answering
<1> QED
  BY <1>2, <1>3, <1>4, <1>5 DEF Wires, el

LEMMA CallersAfterClient ==
    ASSUME NEW oc, NEW cl \in [Clients -> ClientRecords], Callers(oc, cl),
           NEW c \in Clients, NEW o \in ClientRecords,
           NEW pc \in [Calls -> {"none", "pending", "answered", "failed"}],
           Numbered(pc), Attends(o, pc),
           \A k \in Calls \ {cl[c].call} : oc[k] # "none" => pc[k] = oc[k],
           o.call \in {0, cl[c].call} \/ oc[o.call] = "none"
    PROVE  Callers(pc, [cl EXCEPT ![c] = o])
<1> DEFINE el == [cl EXCEPT ![c] = o]
<1>1. el[c] = o /\ \A d \in Clients \ {c} : el[d] = cl[d]
  OBVIOUS
<1> HIDE DEF el
<1>2. \A d \in Clients \ {c} : cl[d].call # 0 =>
        cl[d].call # cl[c].call /\ cl[d].call \in Calls /\ oc[cl[d].call] = "pending"
  BY DEF Callers, Attends
<1>3. ASSUME NEW d \in Clients
      PROVE  Attends(el[d], pc)
  <2>1. CASE d = c
    BY <1>1, <2>1
  <2>2. CASE d # c
    <3>1. el[d] = cl[d] /\ Attends(cl[d], oc)
      BY <1>1, <2>2 DEF Callers
    <3>2. 0 \notin Calls
      BY RpcAssumption DEF Calls
    <3> QED
      BY <1>2, <2>2, <3>1, <3>2 DEF Attends
  <2> QED
    BY <2>1, <2>2
<1>4. \A d \in Clients \ {c} : cl[d].call # 0 => cl[d].call # o.call
  BY <1>2
<1>5. \A d, e \in Clients : el[d].call = el[e].call /\ el[d].call # 0 => d = e
  BY <1>1, <1>4 DEF Callers
<1> QED
  BY <1>3, <1>5 DEF Callers, el

\* The calls of the others are neither sent nor due more than before.
LEMMA OthersSpent ==
    ASSUME NEW oc, NEW pc, NEW cl \in [Clients -> ClientRecords],
           NEW c \in Clients, NEW o \in ClientRecords, NEW ln, NEW r, NEW k \in Calls,
           k # o.call, k # cl[c].call, pc[k] = "none" => oc[k] = "none",
           Len(ln) \in Nat, Len(r) \in Nat, Len(ln) <= Len(r),
           \A s \in 1..Len(ln) : Live(r[s]) => Live(ln[s]),
           \A s \in 1..Len(r) : Awaits(r[s], k) => s \in Due(cl, ln, k),
           \A d \in Clients : cl[d].fd \in 0..Len(ln)
    PROVE  /\ Spare(pc, [cl EXCEPT ![c] = o], k) <= Spare(oc, cl, k)
           /\ Due([cl EXCEPT ![c] = o], r, k) \subseteq Due(cl, ln, k)
<1> DEFINE el == [cl EXCEPT ![c] = o]
<1>1. el[c] = o /\ \A d \in Clients \ {c} : el[d] = cl[d]
  OBVIOUS
<1> HIDE DEF el
<1>2. \A d \in Clients : el[d].call = k => el[d] = cl[d]
  BY <1>1
<1>3. Spare(pc, el, k) <= Spare(oc, cl, k)
  BY <1>2 DEF Spare
<1>4. ASSUME NEW s \in 1..Len(r), Live(r[s]),
             NEW d \in Clients, Sends(el[d], k), el[d].fd = s
      PROVE  s \in Due(cl, ln, k)
  <2>1. el[d] = cl[d] /\ s \in 1..Len(ln)
    BY <1>2, <1>4 DEF Sends
  <2> QED
    BY <1>4, <2>1 DEF Due
<1>5. Due(el, r, k) \subseteq Due(cl, ln, k)
  BY <1>4 DEF Due
<1> QED
  BY <1>3, <1>5 DEF el

\* What client c becomes may send its call where it was due before, or uses
\* up one of the connections it may use.
Affords(oc, pc, cl, c, o, ln, r) ==
    LET el == [cl EXCEPT ![c] = o] IN
    \/ /\ Sends(o, o.call) /\ Live(r[o.fd]) => o.fd \in Due(cl, ln, o.call)
       /\ Spare(pc, el, o.call) <= Spare(oc, cl, o.call)
    \/ Spare(pc, el, o.call) + 1 <= Spare(oc, cl, o.call)

LEMMA SpentAfterClient ==
    ASSUME NEW oc, NEW ru, NEW cl, NEW ln, NEW sv, Wires(cl, ln, sv),
           Callers(oc, cl), Spent(oc, ru, cl, ln),
           NEW pc, NEW c \in Clients, NEW o \in ClientRecords,
           NEW r \in Seq(LinkRecords), Len(ln) <= Len(r),
           \A s \in 1..Len(ln) : r[s] = ln[s] \/ Touches(ln[s], r[s]),
           \A s \in 1..Len(r), k \in Calls : Awaits(r[s], k) => s \in Due(cl, ln, k),
           \A s \in 1..Len(r), k \in Calls : s > Len(ln) => ~Serves(r[s], k),
           \A k \in Calls : pc[k] = "none" => oc[k] = "none",
           o.call \in {0, cl[c].call} \/ (cl[c].call = 0 /\ oc[o.call] = "none"),
           o.call # 0 => Affords(oc, pc, cl, c, o, ln, r)
    PROVE  Spent(pc, ru, [cl EXCEPT ![c] = o], r)
<1> DEFINE el == [cl EXCEPT ![c] = o]
<1>1. /\ cl \in [Clients -> ClientRecords] /\ ln \in Seq(LinkRecords)
      /\ Len(ln) \in Nat /\ Len(r) \in Nat
      /\ \A d \in Clients : cl[d].fd \in 0..Len(ln)
  BY DEF Wires, Fits
<1>2. \A s \in 1..Len(ln) : Live(r[s]) => Live(ln[s])
  BY DEF Touches, Live
<1>3. el[c] = o /\ \A d \in Clients \ {c} : el[d] = cl[d]
  BY <1>1
<1> HIDE DEF el
<1>4. ASSUME NEW k \in Calls
      PROVE  Within(ru[k], Due(el, r, k), Spare(pc, el, k))
  <2>1. Spare(oc, cl, k) \in Nat /\ Spare(pc, el, k) \in Nat
    BY SpareBounds
  <2>2. /\ ru[k] \in Nat /\ IsFiniteSet(Due(cl, ln, k))
        /\ Within(ru[k], Due(cl, ln, k), Spare(oc, cl, k))
    BY <1>1, DueFinite DEF Spent
  <2>3. CASE k # o.call /\ k # cl[c].call
    <3>1. Spare(pc, el, k) <= Spare(oc, cl, k) /\ Due(el, r, k) \subseteq Due(cl, ln, k)
      BY <1>1, <1>2, <2>3, OthersSpent DEF el
    <3> QED
      BY <2>1, <2>2, <3>1, BudgetKept
  <2>4. ASSUME NEW s \in Due(el, r, k)
        PROVE  s \in Due(cl, ln, k) \/ (Sends(o, k) /\ Live(r[s]) /\ s = o.fd)
    <3>1. CASE Awaits(r[s], k)
      BY <3>1 DEF Due
    <3>2. CASE Live(r[s]) /\ \E d \in Clients : Sends(el[d], k) /\ el[d].fd = s
      <4>1. PICK d \in Clients : Sends(el[d], k) /\ el[d].fd = s
        BY <3>2
      <4>2. CASE d = c
        BY <1>3, <3>2, <4>1, <4>2
      <4>3. CASE d # c
        <5>1. Sends(cl[d], k) /\ cl[d].fd = s /\ s \in 1..Len(r)
          BY <1>3, <4>1, <4>3 DEF Due
        <5>2. s \in 1..Len(ln)
          BY <1>1, <5>1
        <5> QED
          BY <1>2, <3>2, <5>1, <5>2 DEF Due
      <4> QED
        BY <4>2, <4>3
    <3> QED
      BY <3>1, <3>2 DEF Due
  <2>5. CASE k = o.call
    <3>1. k # 0
      BY RpcAssumption DEF Calls
    <3>2. Affords(oc, pc, cl, c, o, ln, r)
      BY <2>5, <3>1
    <3>3. CASE /\ Sends(o, k) /\ Live(r[o.fd]) => o.fd \in Due(cl, ln, k)
               /\ Spare(pc, el, k) <= Spare(oc, cl, k)
      <4>1. Due(el, r, k) \subseteq Due(cl, ln, k)
        BY <2>4, <3>3
      <4> QED
        BY <2>1, <2>2, <3>3, <4>1, BudgetKept
    <3>4. CASE Spare(pc, el, k) + 1 <= Spare(oc, cl, k)
      <4>1. Due(el, r, k) \subseteq Due(cl, ln, k) \cup {o.fd}
        BY <2>4
      <4> QED
        BY <2>1, <2>2, <3>4, <4>1, BudgetSpent
    <3> QED
      BY <2>5, <3>2, <3>3, <3>4 DEF Affords, el
  <2>6. CASE k = cl[c].call /\ k # o.call
    <3>1. Due(el, r, k) \subseteq Due(cl, ln, k)
      BY <2>4, <2>6 DEF Sends
    <3>2. \A d \in Clients : el[d].call # k
      <4>1. k # 0
        BY RpcAssumption DEF Calls
      <4> QED
        BY <1>3, <2>6, <4>1 DEF Callers
    <3>3. pc[k] # "none"
      <4>1. k # 0
        BY RpcAssumption DEF Calls
      <4>2. oc[k] = "pending"
        BY <2>6, <4>1 DEF Callers, Attends
      <4> QED
        BY <4>2
    <3>4. Spare(pc, el, k) <= Spare(oc, cl, k)
      <4>1. Spare(pc, el, k) = 0
        BY <3>2, <3>3, SpareNone
      <4>2. \A n \in Nat : 0 <= n
        OBVIOUS
      <4> QED
        BY <2>1, <4>1, <4>2
    <3> QED
      BY <2>1, <2>2, <3>1, <3>4, BudgetKept
  <2> QED
    BY <2>3, <2>5, <2>6
<1>5. ASSUME NEW k \in Calls, NEW s \in 1..Len(r), Serves(r[s], k)
      PROVE  ru[k] > 0
  <2>1. s \in 1..Len(ln)
    BY <1>1, <1>5
  <2>2. Serves(ln[s], k)
    BY <1>5, <2>1 DEF Touches
  <2> QED
    BY <2>1, <2>2 DEF Spent
<1> QED
  BY <1>4, <1>5 DEF Spent, el

-----------------------------------------------------------------------------
(* Steps of a client.                                                      *)

\* From ln to r: at most connection f is touched, and nothing is due there
\* that was not.
Tends(cl, ln, r, f) ==
    /\ r \in Seq(LinkRecords) /\ Len(r) = Len(ln)
    /\ \A s \in 1..Len(ln) : s # f => r[s] = ln[s]
    /\ f # 0 => /\ Touches(ln[f], r[f])
                /\ \A k \in Calls : Awaits(r[f], k) => f \in Due(cl, ln, k)

LEMMA TendsNothing ==
    ASSUME NEW cl, NEW ln \in Seq(LinkRecords), NEW f \in 0..Len(ln),
           \A s \in 1..Len(ln) : Sound(ln[s])
    PROVE  Tends(cl, ln, ln, f)
  BY DEF Tends, Touches, Due

\* What Tends says of all the connections.
LEMMA Tended ==
    ASSUME NEW cl, NEW ln \in Seq(LinkRecords), NEW r, NEW f \in 0..Len(ln),
           Tends(cl, ln, r, f), \A s \in 1..Len(ln) : Sound(ln[s])
    PROVE  /\ \A s \in 1..Len(ln) : r[s] = ln[s] \/ Touches(ln[s], r[s])
           /\ \A s \in 1..Len(r) : Sound(r[s])
           /\ \A s \in 1..Len(ln), k \in Calls : Awaits(r[s], k) => s \in Due(cl, ln, k)
<1>1. \A s \in 1..Len(ln) : r[s] = ln[s] \/ (s = f /\ f # 0)
  BY DEF Tends
<1>2. \A s \in 1..Len(ln), k \in Calls : Awaits(ln[s], k) => s \in Due(cl, ln, k)
  BY DEF Due
<1> QED
  BY <1>1, <1>2 DEF Tends, Touches

\* close() of the client's end.
LEMMA NearClosedTends ==
    ASSUME NEW f \in 0..Len(link), link \in Seq(LinkRecords),
           \A s \in 1..Len(link) : Sound(link[s])
    PROVE  Tends(client, link, NearClosed(f), f)
<1>1. CASE f = 0
  BY <1>1, TendsNothing DEF NearClosed
<1>2. CASE f # 0
  <2> DEFINE m == [link[f] EXCEPT !.near = "closed", !.down = <<>>]
             r == [link EXCEPT ![f] = m]
  <2>1. f \in 1..Len(link) /\ link[f] \in LinkRecords /\ Sound(link[f])
    BY <1>2
  <2>2. Touches(link[f], m) /\ m.up = link[f].up
    BY <2>1, NearCloses
  <2>3. NearClosed(f) = r
    BY <1>2, <2>1 DEF NearClosed
  <2> HIDE DEF m
  <2>4. r \in Seq(LinkRecords) /\ Len(r) = Len(link) /\ r[f] = m
        /\ \A s \in 1..Len(link) : s # f => r[s] = link[s]
    BY <2>1, <2>2 DEF Touches
  <2>5. \A k \in Calls : Awaits(m, k) => Awaits(link[f], k)
    BY <2>2 DEF Touches, Awaits, Live, Answering
  <2> QED
    BY <2>1, <2>2, <2>3, <2>4, <2>5 DEF Tends, Due
<1> QED
  BY <1>1, <1>2

\* What follows of each client and each connection.
LEMMA RightParts ==
    ASSUME NEW oc, NEW ru, NEW cl, NEW ln, NEW sv, Right(oc, ru, cl, ln, sv),
           NEW c \in Clients
    PROVE  /\ cl \in [Clients -> ClientRecords] /\ cl[c] \in ClientRecords
           /\ ln \in Seq(LinkRecords) /\ Len(ln) \in Nat /\ Len(ln) <= MaxSockets
           /\ \A s \in 1..Len(ln) : Sound(ln[s]) /\ ln[s] \in LinkRecords
           /\ cl[c].fd \in 0..Len(ln) /\ Fits(cl[c], ln)
           /\ oc \in [Calls -> {"none", "pending", "answered", "failed"}]
           /\ cl[c].pc \in {"setup", "work"} =>
                cl[c].call \in Calls /\ cl[c].call # 0 /\ oc[cl[c].call] = "pending"
           /\ cl[c].pc \notin {"setup", "work"} => cl[c].call = 0
<1>1. 0 \notin Calls
  BY RpcAssumption DEF Calls
<1>2. cl \in [Clients -> ClientRecords] /\ ln \in Seq(LinkRecords) /\ Fits(cl[c], ln)
      /\ Len(ln) <= MaxSockets /\ \A s \in 1..Len(ln) : Sound(ln[s])
  BY DEF Right, Wires
<1>3. Len(ln) \in Nat /\ \A s \in 1..Len(ln) : ln[s] \in LinkRecords
  BY <1>2
<1>4. cl[c].fd \in 0..Len(ln)
  BY <1>2, <1>3 DEF Fits
<1>5. Attends(cl[c], oc) /\ oc \in [Calls -> {"none", "pending", "answered", "failed"}]
  BY DEF Right, Callers
<1> QED
  BY <1>1, <1>2, <1>3, <1>4, <1>5 DEF Attends

\* A call ends: its client is idle, or gone.
LEMMA EndedClient ==
    ASSUME NEW oc, NEW ru, NEW cl, NEW ln, NEW sv, Right(oc, ru, cl, ln, sv),
           NEW c \in Clients, cl[c].pc \in {"setup", "work"},
           NEW o \in ClientRecords, o.pc \in {"idle", "crashed"}, o.call = 0,
           NEW r, Tends(cl, ln, r, cl[c].fd), o.fd \in {0, cl[c].fd}, Fits(o, r),
           NEW v \in {"answered", "failed"}
    PROVE  Right([oc EXCEPT ![cl[c].call] = v], ru, [cl EXCEPT ![c] = o], r, sv)
<1> DEFINE pc == [oc EXCEPT ![cl[c].call] = v]
           el == [cl EXCEPT ![c] = o]
<1>1. Wires(cl, ln, sv) /\ Callers(oc, cl) /\ Spent(oc, ru, cl, ln)
  BY DEF Right
<1>2. /\ cl \in [Clients -> ClientRecords] /\ cl[c] \in ClientRecords
      /\ ln \in Seq(LinkRecords) /\ Len(ln) \in Nat /\ Len(ln) <= MaxSockets
      /\ cl[c].fd \in 0..Len(ln) /\ \A s \in 1..Len(ln) : Sound(ln[s])
      /\ oc \in [Calls -> {"none", "pending", "answered", "failed"}]
      /\ cl[c].call \in Calls /\ oc[cl[c].call] = "pending"
  BY RightParts
<1>3. r \in Seq(LinkRecords) /\ Len(r) = Len(ln) /\ Len(ln) <= Len(r)
      /\ Len(r) <= MaxSockets
      /\ \A s \in 1..Len(ln) : s # cl[c].fd => r[s] = ln[s]
  BY <1>2 DEF Tends
<1>4. /\ \A s \in 1..Len(ln) : r[s] = ln[s] \/ Touches(ln[s], r[s])
      /\ \A s \in 1..Len(r) : Sound(r[s])
      /\ \A s \in 1..Len(r), k \in Calls : Awaits(r[s], k) => s \in Due(cl, ln, k)
      /\ \A s \in 1..Len(r), k \in Calls : s > Len(ln) => ~Serves(r[s], k)
  <2>1. /\ \A s \in 1..Len(ln) : r[s] = ln[s] \/ Touches(ln[s], r[s])
        /\ \A s \in 1..Len(r) : Sound(r[s])
        /\ \A s \in 1..Len(ln), k \in Calls : Awaits(r[s], k) => s \in Due(cl, ln, k)
    BY <1>2, Tended
  <2>2. \A s \in 1..Len(r) : s \in 1..Len(ln) /\ ~(s > Len(ln))
    BY <1>2, <1>3
  <2> QED
    BY <2>1, <2>2
<1>5. /\ pc \in [Calls -> {"none", "pending", "answered", "failed"}]
      /\ \A k \in Calls : pc[k] = "none" <=> oc[k] = "none"
      /\ \A k \in Calls \ {cl[c].call} : pc[k] = oc[k]
  BY <1>2
<1> HIDE DEF pc
<1>6. Wires(el, r, sv)
  BY <1>1, <1>2, <1>3, <1>4, WiresAfterClient
<1>7. Callers(pc, el)
  <2>1. Numbered(pc)
    BY <1>5 DEF Right, Callers, Numbered
  <2>2. Attends(o, pc)
    BY DEF Attends
  <2> QED
    <3>1. \A k \in Calls \ {cl[c].call} : oc[k] # "none" => pc[k] = oc[k]
      BY <1>5
    <3>2. pc \in [Calls -> {"none", "pending", "answered", "failed"}]
      BY <1>5
    <3>3. cl \in [Clients -> ClientRecords]
      BY <1>2
    <3> QED
      BY <1>1, <2>1, <2>2, <3>1, <3>2, <3>3, CallersAfterClient
<1>8. Spent(pc, ru, el, r)
  <2>1. \A k \in Calls : pc[k] = "none" => oc[k] = "none"
    BY <1>5
  <2> QED
    BY <1>1, <1>3, <1>4, <2>1, SpentAfterClient
<1> QED
  BY <1>6, <1>7, <1>8 DEF Right, pc

\* A call goes on over the same connection.
LEMMA BusyClient ==
    ASSUME NEW oc, NEW ru, NEW cl, NEW ln, NEW sv, Right(oc, ru, cl, ln, sv),
           NEW c \in Clients, cl[c].pc = "work",
           NEW o \in ClientRecords, o.pc = "work", o.call = cl[c].call,
           o.attempts = cl[c].attempts, o.fd = cl[c].fd,
           o.state = "WRITE_REQUEST" => cl[c].state = "WRITE_REQUEST",
           NEW r, Tends(cl, ln, r, cl[c].fd), Fits(o, r)
    PROVE  Right(oc, ru, [cl EXCEPT ![c] = o], r, sv)
<1> DEFINE el == [cl EXCEPT ![c] = o]
           k == o.call
<1>1. Wires(cl, ln, sv) /\ Callers(oc, cl) /\ Spent(oc, ru, cl, ln)
  BY DEF Right
<1>2. /\ cl \in [Clients -> ClientRecords] /\ cl[c] \in ClientRecords
      /\ ln \in Seq(LinkRecords) /\ Len(ln) \in Nat /\ Len(ln) <= MaxSockets
      /\ cl[c].fd \in 0..Len(ln) /\ \A s \in 1..Len(ln) : Sound(ln[s])
      /\ oc \in [Calls -> {"none", "pending", "answered", "failed"}]
      /\ k \in Calls /\ oc[k] = "pending" /\ cl[c].fd # 0
  BY RightParts DEF Fits
<1>3. r \in Seq(LinkRecords) /\ Len(r) = Len(ln) /\ Len(ln) <= Len(r)
      /\ Len(r) <= MaxSockets
      /\ \A s \in 1..Len(ln) : s # cl[c].fd => r[s] = ln[s]
  BY <1>2 DEF Tends
<1>4. /\ \A s \in 1..Len(ln) : r[s] = ln[s] \/ Touches(ln[s], r[s])
      /\ \A s \in 1..Len(r) : Sound(r[s])
      /\ \A s \in 1..Len(r), j \in Calls : Awaits(r[s], j) => s \in Due(cl, ln, j)
      /\ \A s \in 1..Len(r), j \in Calls : s > Len(ln) => ~Serves(r[s], j)
  <2>1. /\ \A s \in 1..Len(ln) : r[s] = ln[s] \/ Touches(ln[s], r[s])
        /\ \A s \in 1..Len(r) : Sound(r[s])
        /\ \A s \in 1..Len(ln), j \in Calls : Awaits(r[s], j) => s \in Due(cl, ln, j)
    BY <1>2, Tended
  <2>2. \A s \in 1..Len(r) : s \in 1..Len(ln) /\ ~(s > Len(ln))
    BY <1>2, <1>3
  <2> QED
    BY <2>1, <2>2
<1>5. Wires(el, r, sv)
  BY <1>1, <1>2, <1>3, <1>4, WiresAfterClient
<1>6. Callers(oc, el)
  <2>1. Numbered(oc) /\ Attends(o, oc)
    BY <1>2 DEF Right, Callers, Attends
  <2> QED
    BY <1>1, <1>2, <2>1, CallersAfterClient
<1>7. Spent(oc, ru, el, r)
  <2>1. Spare(oc, el, k) <= Spare(oc, cl, k)
    <3>1. Spare(oc, cl, k) = IF cl[c].attempts = 0 THEN 1 ELSE 0
      BY SpareOf DEF Right
    <3>2. el[c] = o
      BY <1>2
    <3> HIDE DEF el
    <3>3. Spare(oc, el, k) = IF cl[c].attempts = 0 THEN 1 ELSE 0
      BY <1>6, <3>2, SpareOf
    <3> QED
      BY <3>1, <3>3
  <2>2. ASSUME Sends(o, k), Live(r[o.fd])
        PROVE  o.fd \in Due(cl, ln, k)
    <3>1. Live(ln[o.fd])
      BY <1>2, <1>4, <2>2 DEF Touches, Live
    <3>2. Sends(cl[c], k)
      BY <2>2 DEF Sends
    <3> QED
      BY <1>2, <3>1, <3>2 DEF Due
  <2>3. Affords(oc, oc, cl, c, o, ln, r)
    BY <2>1, <2>2 DEF Affords
  <2> QED
    BY <1>1, <1>3, <1>4, <2>3, SpentAfterClient
<1> QED
  BY <1>5, <1>6, <1>7 DEF Right

\* A call uses up one of the connections it may use: the one it has, or a new
\* one.
LEMMA SendingClient ==
    ASSUME NEW oc, NEW ru, NEW cl, NEW ln, NEW sv, Right(oc, ru, cl, ln, sv),
           NEW c \in Clients,
           NEW o \in ClientRecords, o.pc = "work", o.call = cl[c].call,
           \/ cl[c].pc = "setup" /\ o.attempts = 0
           \/ cl[c].pc = "work" /\ cl[c].attempts = 0 /\ o.attempts = 1,
           NEW r \in Seq(LinkRecords), Len(ln) <= Len(r), Len(r) <= MaxSockets,
           \A s \in 1..Len(r) : Sound(r[s]),
           \A s \in 1..Len(ln) : r[s] = ln[s] \/ Touches(ln[s], r[s]),
           \A s \in 1..Len(ln) : s # cl[c].fd => r[s] = ln[s],
           \A s \in 1..Len(r), k \in Calls : Awaits(r[s], k) => s \in Due(cl, ln, k),
           \A s \in 1..Len(r), k \in Calls : s > Len(ln) => ~Serves(r[s], k),
           o.fd = cl[c].fd \/ o.fd > Len(ln), Fits(o, r)
    PROVE  Right(oc, ru, [cl EXCEPT ![c] = o], r, sv)
<1> DEFINE el == [cl EXCEPT ![c] = o]
           k == o.call
<1>1. Wires(cl, ln, sv) /\ Callers(oc, cl) /\ Spent(oc, ru, cl, ln)
  BY DEF Right
<1>2. /\ cl \in [Clients -> ClientRecords]
      /\ oc \in [Calls -> {"none", "pending", "answered", "failed"}]
      /\ k \in Calls /\ oc[k] = "pending"
  BY RightParts
<1>3. Wires(el, r, sv)
  BY <1>1, WiresAfterClient
<1>4. Callers(oc, el)
  <2>1. Numbered(oc) /\ Attends(o, oc)
    BY <1>2 DEF Right, Callers, Attends
  <2> QED
    BY <1>1, <1>2, <2>1, CallersAfterClient
<1>5. Spent(oc, ru, el, r)
  <2>1. Spare(oc, el, k) + 1 <= Spare(oc, cl, k)
    <3>1. Spare(oc, cl, k) = IF cl[c].pc = "setup" THEN 2 ELSE 1
      BY SpareOf DEF Right
    <3>2. el[c] = o
      BY <1>2
    <3> HIDE DEF el
    <3>3. Spare(oc, el, k) = IF o.attempts = 0 THEN 1 ELSE 0
      BY <1>4, <3>2, SpareOf
    <3> QED
      BY <3>1, <3>3
  <2>2. Affords(oc, oc, cl, c, o, ln, r)
    BY <2>1 DEF Affords
  <2> QED
    BY <1>1, <2>2, SpentAfterClient
<1> QED
  BY <1>3, <1>4, <1>5 DEF Right

\* A call is issued.
LEMMA CallingClient ==
    ASSUME NEW oc, NEW ru, NEW cl, NEW ln, NEW sv, Right(oc, ru, cl, ln, sv),
           NEW c \in Clients, cl[c].pc = "idle",
           NEW o \in ClientRecords, o.pc = "setup", o.attempts = 0,
           o.fd \in {0, cl[c].fd}, Fits(o, ln),
           o.call \in Calls, \A k \in Calls : oc[k] # "none" <=> k < o.call
    PROVE  Right([oc EXCEPT ![o.call] = "pending"], ru, [cl EXCEPT ![c] = o], ln, sv)
<1> DEFINE pc == [oc EXCEPT ![o.call] = "pending"]
           el == [cl EXCEPT ![c] = o]
           k == o.call
<1>1. Wires(cl, ln, sv) /\ Callers(oc, cl) /\ Spent(oc, ru, cl, ln)
  BY DEF Right
<1>2. /\ cl \in [Clients -> ClientRecords] /\ cl[c] \in ClientRecords
      /\ ln \in Seq(LinkRecords) /\ Len(ln) \in Nat /\ Len(ln) <= MaxSockets
      /\ cl[c].fd \in 0..Len(ln) /\ \A s \in 1..Len(ln) : Sound(ln[s])
      /\ oc \in [Calls -> {"none", "pending", "answered", "failed"}]
      /\ cl[c].call = 0
  BY RightParts
<1>3. k \in 1..MaxCalls /\ MaxCalls \in Nat /\ oc[k] = "none"
  BY RpcAssumption DEF Calls
<1>4. /\ pc \in [Calls -> {"none", "pending", "answered", "failed"}]
      /\ pc[k] = "pending" /\ \A j \in Calls \ {k} : pc[j] = oc[j]
  BY <1>2
<1> HIDE DEF pc
<1>5. Tends(cl, ln, ln, cl[c].fd)
  BY <1>2, TendsNothing
<1>6. /\ \A s \in 1..Len(ln) : ln[s] = ln[s] \/ Touches(ln[s], ln[s])
      /\ \A s \in 1..Len(ln), j \in Calls : Awaits(ln[s], j) => s \in Due(cl, ln, j)
      /\ \A s \in 1..Len(ln), j \in Calls : s > Len(ln) => ~Serves(ln[s], j)
      /\ \A s \in 1..Len(ln) : Sound(ln[s])
      /\ ln \in Seq(LinkRecords) /\ Len(ln) <= Len(ln) /\ Len(ln) <= MaxSockets
  BY <1>2, <1>5, Tended
<1>7. Wires(el, ln, sv)
  BY <1>1, <1>6, WiresAfterClient
<1>8. Callers(pc, el)
  <2>1. Numbered(pc)
    <3>1. k \in 0..MaxCalls /\ \A j \in Calls : pc[j] # "none" <=> j <= k
      BY <1>3, <1>4 DEF Calls
    <3> QED
      BY <3>1 DEF Numbered
  <2>2. Attends(o, pc)
    BY <1>4 DEF Attends
  <2>3. \A j \in Calls \ {cl[c].call} : oc[j] # "none" => pc[j] = oc[j]
    BY <1>3, <1>4
  <2> QED
    BY <1>1, <1>2, <1>3, <1>4, <2>1, <2>2, <2>3, CallersAfterClient
<1>9. Spent(pc, ru, el, ln)
  <2>1. Spare(pc, el, k) <= Spare(oc, cl, k)
    <3>1. Spare(oc, cl, k) = 2
      BY <1>3 DEF Spare
    <3>2. Spare(pc, el, k) \in 0..2
      BY SpareBounds
    <3> HIDE DEF el
    <3> QED
      BY <3>1, <3>2
  <2>2. Affords(oc, pc, cl, c, o, ln, ln)
    BY <2>1 DEF Affords, Sends
  <2>3. \A j \in Calls : pc[j] = "none" => oc[j] = "none"
    BY <1>4
  <2> QED
    BY <1>1, <1>2, <1>3, <1>6, <2>2, <2>3, SpentAfterClient
<1> QED
  BY <1>7, <1>8, <1>9 DEF Right, pc

-----------------------------------------------------------------------------
(* The actions of a client, each of them a step of RpcCall or of nothing   *)
(* that RpcCall knows.                                                     *)

CallStep == [Call!Next]_callVars

\* What is known of client c and its connection.
LEMMA ClientParts ==
    ASSUME Inv, NEW c \in Clients
    PROVE  /\ client \in [Clients -> ClientRecords] /\ client[c] \in ClientRecords
           /\ link \in Seq(LinkRecords) /\ Len(link) \in Nat /\ Len(link) <= MaxSockets
           /\ \A s \in 1..Len(link) : Sound(link[s]) /\ link[s] \in LinkRecords
           /\ client[c].fd \in 0..Len(link) /\ Fits(client[c], link)
           /\ outcome \in [Calls -> {"none", "pending", "answered", "failed"}]
           /\ answer \in [Calls -> 0..MaxCalls]
           /\ client[c].pc \in {"setup", "work"} =>
                /\ client[c].call \in Calls /\ client[c].call # 0
                /\ outcome[client[c].call] = "pending"
           /\ client[c].pc \notin {"setup", "work"} => client[c].call = 0
           /\ Right(outcome, runs, client, link, server)
  BY RightParts DEF Inv

\* A client that works has a connection, which it owns.
LEMMA WorkParts ==
    ASSUME Inv, NEW c \in Clients, client[c].pc = "work"
    PROVE  /\ client[c].fd # 0 /\ client[c].fd \in 1..Len(link)
           /\ Link(c) \in LinkRecords /\ Sound(Link(c)) /\ Owns(client[c], Link(c))
           /\ client[c].state \in {"WRITE_REQUEST", "READ_HEADER", "READ_RESPONSE"}
           /\ client[c].state # "NO_CONNECTION"
  BY ClientParts DEF Fits, Owns, Link

\* execute() returns false: the call has failed.
LEMMA FailsKeeps ==
    ASSUME Inv, NEW c \in Clients, client[c].pc \in {"setup", "work"},
           NEW o \in ClientRecords, o.call = client[c].call, Fails(c, o),
           o.fd \in {0, client[c].fd}, NEW r, link' = r,
           Tends(client, link, r, client[c].fd),
           Fits([o EXCEPT !.pc = "idle", !.call = 0], r), server' = server
    PROVE  Inv' /\ CallStep
<1> DEFINE p == [o EXCEPT !.pc = "idle", !.call = 0]
           k == client[c].call
<1>1. p \in ClientRecords /\ p.pc = "idle" /\ p.call = 0 /\ p.fd = o.fd
  <2>1. 0 \in 0..MaxCalls
    BY RpcAssumption
  <2>2. p \in ClientRecords
    BY <2>1 DEF ClientRecords
  <2> QED
    BY <2>2 DEF ClientRecords
<1>2. /\ client' = [client EXCEPT ![c] = p]
      /\ outcome' = [outcome EXCEPT ![k] = "failed"]
      /\ runs' = runs /\ answer' = answer
  BY DEF Fails
<1> HIDE DEF p
<1>3. Right([outcome EXCEPT ![k] = "failed"], runs, [client EXCEPT ![c] = p], r, server)
  BY <1>1, ClientParts, EndedClient DEF p
<1>4. Right(outcome', runs', client', link', server')
  BY <1>2, <1>3
<1>5. Inv'
  BY <1>2, <1>4, ClientParts DEF Inv
<1>6. k \in Calls /\ outcome[k] = "pending"
  BY ClientParts
<1>7. Call!Failed(k)
  BY <1>2, <1>6 DEF Call!Failed
<1> QED
  BY <1>5, <1>6, <1>7 DEF CallStep, Call!Next

\* The numbers of the calls that are issued come one after the other.
LEMMA IssuedCount ==
    ASSUME Inv
    PROVE  /\ Issued \in 0..MaxCalls
           /\ \A k \in Calls : outcome[k] # "none" <=> k < Issued + 1
<1>1. PICK m \in 0..MaxCalls : \A k \in Calls : outcome[k] # "none" <=> k <= m
  BY DEF Inv, Right, Callers, Numbered
<1>2. m \in Nat /\ MaxCalls \in Nat /\ m <= MaxCalls
  BY RpcAssumption
<1>3. \A k : k \in {j \in Calls : outcome[j] # "none"} <=> k \in 1..m
  BY <1>1, <1>2 DEF Calls
<1>4. {j \in Calls : outcome[j] # "none"} = 1..m
  BY <1>3
<1>5. Cardinality(1..m) = m
  <2>1. Cardinality(1..m) = IF 1 > m THEN 0 ELSE m - 1 + 1
    BY <1>2, FS_Interval
  <2> QED
    BY <1>2, <2>1
<1>6. Issued = m
  BY <1>4, <1>5 DEF Issued
<1> QED
  BY <1>1, <1>2, <1>6 DEF Calls

\* Execute is RpcCall's Issue.
LEMMA ExecuteKeeps ==
    ASSUME Inv, NEW c \in Clients, Execute(c)
    PROVE  Inv' /\ CallStep
<1> DEFINE b == IF c \in Fresh THEN NewClient ELSE client[c]
           k == Issued + 1
           o == [b EXCEPT !.pc = "setup", !.call = k, !.attempts = 0]
<1>1. /\ client[c].pc = "idle" /\ client' = [client EXCEPT ![c] = o]
      /\ outcome' = [outcome EXCEPT ![k] = "pending"]
      /\ runs' = runs /\ answer' = answer /\ link' = link /\ server' = server
  BY DEF Execute
<1>2. k \in Calls /\ \A j \in Calls : outcome[j] # "none" <=> j < k
  <2>1. Issued \in 0..MaxCalls /\ Issued < MaxCalls /\ MaxCalls \in Nat
    BY IssuedCount, RpcAssumption DEF Execute
  <2>2. Issued + 1 \in 1..MaxCalls
    BY <2>1
  <2> QED
    BY <2>2, IssuedCount DEF Calls
<1>3. b \in ClientRecords /\ Fits(b, link) /\ b.fd \in {0, client[c].fd} /\ b.pc = "idle"
  <2>1. CASE c \in Fresh
    <3>1. b = NewClient /\ b.fd = 0 /\ b.state = "NO_CONNECTION" /\ b.pc = "idle"
      BY <2>1 DEF NewClient
    <3>2. /\ 0 \in 0..MaxCalls /\ 0 \in 0..Size /\ 0 \in 0..MaxSockets
      BY RpcAssumption
    <3>3. NewClient \in ClientRecords
      BY <3>2 DEF NewClient, ClientRecords
    <3> QED
      BY <3>1, <3>3 DEF Fits
  <2>2. CASE c \notin Fresh
    BY <1>1, <2>2, ClientParts
  <2> QED
    BY <2>1, <2>2
<1> HIDE DEF b, k
<1>4. /\ o \in ClientRecords /\ o.pc = "setup" /\ o.attempts = 0 /\ o.call = k
      /\ o.fd = b.fd /\ o.state = b.state /\ o.eof = b.eof
  <2>1. k \in 0..MaxCalls
    BY <1>2, RpcAssumption DEF Calls
  <2> QED
    BY <1>3, <2>1 DEF ClientRecords
<1> HIDE DEF o
<1>5. Fits(o, link)
  BY <1>3, <1>4 DEF Fits, Owns
<1>6. Right([outcome EXCEPT ![k] = "pending"], runs, [client EXCEPT ![c] = o], link, server)
  <2>1. /\ o.call \in Calls /\ \A j \in Calls : outcome[j] # "none" <=> j < o.call
        /\ o.fd \in {0, client[c].fd}
    BY <1>2, <1>3, <1>4
  <2>2. Right([outcome EXCEPT ![o.call] = "pending"], runs, [client EXCEPT ![c] = o],
              link, server)
    BY <1>1, <1>4, <1>5, <2>1, ClientParts, CallingClient
  <2> QED
    BY <1>4, <2>2
<1>7. Inv'
  BY <1>1, <1>6, ClientParts DEF Inv
<1>8. Call!Issue(k)
  <2>1. outcome[k] = "none"
    BY <1>2, RpcAssumption DEF Calls
  <2> QED
    BY <1>1, <2>1 DEF Call!Issue
<1> QED
  BY <1>2, <1>7, <1>8 DEF CallStep, Call!Next

\* A connection just made.
LEMMA ConnectsKeeps ==
    ASSUME Inv, NEW c \in Clients, NEW l, Tends(client, link, l, client[c].fd),
           NEW a \in {0, 1}, Connects(c, l, a), server' = server,
           \/ client[c].pc = "setup" /\ a = 0
           \/ client[c].pc = "work" /\ client[c].attempts = 0 /\ a = 1
    PROVE  Inv' /\ CallStep
<1> DEFINE f == Len(l) + 1
           o == [client[c] EXCEPT !.pc = "work", !.state = "WRITE_REQUEST",
                    !.eof = FALSE, !.written = 0, !.fd = f, !.attempts = a]
           n == [near |-> "open", far |-> IF server.listening THEN "backlog" ELSE "refused",
                 up |-> <<>>, down |-> <<>>, state |-> "READ_HEADER",
                 got |-> 0, request |-> 0, sent |-> 0]
           r == Append(l, n)
<1>1. /\ link' = r /\ client' = [client EXCEPT ![c] = o]
      /\ outcome' = outcome /\ runs' = runs /\ answer' = answer
      /\ Len(l) < MaxSockets
  BY DEF Connects, callVars
<1>2. /\ client \in [Clients -> ClientRecords] /\ client[c] \in ClientRecords
      /\ link \in Seq(LinkRecords) /\ Len(link) \in Nat
      /\ \A s \in 1..Len(link) : Sound(link[s])
      /\ client[c].fd \in 0..Len(link)
      /\ client[c].call \in Calls /\ client[c].call # 0
      /\ Right(outcome, runs, client, link, server)
  BY ClientParts
<1>3. l \in Seq(LinkRecords) /\ Len(l) = Len(link) /\ f \in 1..MaxSockets
      /\ \A s \in 1..Len(link) : s # client[c].fd => l[s] = link[s]
  BY <1>1, <1>2, RpcAssumption DEF Tends
<1>4. /\ \A s \in 1..Len(link) : l[s] = link[s] \/ Touches(link[s], l[s])
      /\ \A s \in 1..Len(l) : Sound(l[s])
      /\ \A s \in 1..Len(link), k \in Calls : Awaits(l[s], k) => s \in Due(client, link, k)
  BY <1>2, Tended
<1>5. /\ Size \in Nat /\ Size > 0 /\ 0 \in 0..Size /\ 0 \in 0..MaxCalls /\ 0 \notin Calls
  BY RpcAssumption DEF Calls
<1>6. /\ n \in LinkRecords /\ n.near = "open" /\ n.far \in {"backlog", "refused"}
      /\ n.up = <<>> /\ n.down = <<>> /\ n.state = "READ_HEADER"
      /\ n.got = 0 /\ n.request = 0 /\ n.sent = 0
  <2>1. n.far \in {"backlog", "refused"}
    OBVIOUS
  <2> QED
    BY <1>5, <2>1, NoPieces DEF LinkRecords
<1> HIDE DEF n
<1>7. ~Answering(n) /\ Len(n.up) = 0 /\ Len(n.down) = 0 /\ \A k \in Calls : ~Carries(n, k)
  BY <1>5, <1>6, NoPieces DEF Answering, Carries
<1>8. Sound(n)
  BY <1>5, <1>6, <1>7 DEF Sound
<1>9. \A k \in Calls : ~Serves(n, k) /\ ~Awaits(n, k)
  BY <1>7 DEF Serves, Awaits, Carries
<1>10. /\ o \in ClientRecords /\ o.pc = "work" /\ o.state = "WRITE_REQUEST"
       /\ o.call = client[c].call /\ o.written = 0 /\ o.fd = f /\ o.attempts = a
  <2>1. f \in 0..MaxSockets
    BY <1>3
  <2> HIDE DEF f
  <2>2. o \in ClientRecords
    BY <1>2, <1>5, <2>1 DEF ClientRecords
  <2> QED
    BY <1>2, <2>2 DEF ClientRecords
<1> HIDE DEF o, f
<1>11. /\ r \in Seq(LinkRecords) /\ Len(r) = Len(link) + 1 /\ r[f] = n
       /\ \A s \in 1..Len(link) : r[s] = l[s]
       /\ \A s \in 1..Len(r) : s \in 1..Len(link) \/ s = f
       /\ f \in 1..Len(r) /\ f > Len(link)
       /\ Len(link) <= Len(r) /\ Len(r) <= MaxSockets
  BY <1>2, <1>3, <1>6, RpcAssumption DEF f
<1> HIDE DEF r
<1>12. Fits(o, r)
  <2>1. Writes(o, n)
    BY <1>5, <1>6, <1>7, <1>10 DEF Writes
  <2>2. Owns(o, n)
    BY <1>6, <1>7, <1>10, <2>1 DEF Owns
  <2>3. f # 0
    BY <1>2, <1>11
  <2> QED
    BY <1>10, <1>11, <2>2, <2>3 DEF Fits
<1>13. /\ \A s \in 1..Len(r) : Sound(r[s])
       /\ \A s \in 1..Len(link) : r[s] = link[s] \/ Touches(link[s], r[s])
       /\ \A s \in 1..Len(link) : s # client[c].fd => r[s] = link[s]
       /\ \A s \in 1..Len(r), k \in Calls : Awaits(r[s], k) => s \in Due(client, link, k)
       /\ \A s \in 1..Len(r), k \in Calls : s > Len(link) => ~Serves(r[s], k)
  <2>1. \A s \in 1..Len(r) : Sound(r[s])
    BY <1>3, <1>4, <1>8, <1>11
  <2>2. /\ \A s \in 1..Len(link) : r[s] = link[s] \/ Touches(link[s], r[s])
        /\ \A s \in 1..Len(link) : s # client[c].fd => r[s] = link[s]
    BY <1>3, <1>4, <1>11
  <2>3. \A s \in 1..Len(r), k \in Calls : Awaits(r[s], k) => s \in Due(client, link, k)
    BY <1>4, <1>9, <1>11
  <2>4. \A s \in 1..Len(r), k \in Calls : s > Len(link) => ~Serves(r[s], k)
    <3>1. \A s \in 1..Len(r) : s > Len(link) => s = f
      BY <1>2, <1>11
    <3> QED
      BY <1>9, <1>11, <3>1
  <2> QED
    BY <2>1, <2>2, <2>3, <2>4
<1>14. Right(outcome, runs, [client EXCEPT ![c] = o], r, server)
  BY <1>2, <1>10, <1>11, <1>12, <1>13, SendingClient
<1>15. Right(outcome', runs', client', link', server')
  BY <1>1, <1>14
<1> QED
  BY <1>1, <1>15, ClientParts DEF Inv, CallStep, callVars

\* A connection that was left unfinished is closed, and what is made of the
\* client then fails or has a new one.
LEMMA NotConnectedFits ==
    ASSUME NEW o \in ClientRecords, NEW r
    PROVE  /\ NotConnected(o) \in ClientRecords
           /\ NotConnected(o).call = o.call /\ NotConnected(o).fd = 0
           /\ Fits([NotConnected(o) EXCEPT !.pc = "idle", !.call = 0], r)
<1>1. 0 \in 0..MaxSockets /\ 0 \in 0..MaxCalls
  BY RpcAssumption
<1>2. /\ NotConnected(o) \in ClientRecords
      /\ NotConnected(o).call = o.call /\ NotConnected(o).fd = 0
      /\ NotConnected(o).state = "NO_CONNECTION"
  BY <1>1 DEF NotConnected, ClientRecords
<1> DEFINE p == [NotConnected(o) EXCEPT !.pc = "idle", !.call = 0]
<1>3. p.fd = 0 /\ p.state = "NO_CONNECTION" /\ p.pc = "idle"
  BY <1>2 DEF ClientRecords
<1> QED
  BY <1>2, <1>3 DEF Fits

\* A client that worked fits its connection when it has failed.
LEMMA FailedFits ==
    ASSUME Inv, NEW c \in Clients, client[c].pc = "work", NEW e \in BOOLEAN
    PROVE  /\ Fits([client[c] EXCEPT !.pc = "idle", !.call = 0], link)
           /\ [client[c] EXCEPT !.eof = e] \in ClientRecords
           /\ [client[c] EXCEPT !.eof = e].call = client[c].call
           /\ [client[c] EXCEPT !.eof = e].fd = client[c].fd
           /\ Fits([[client[c] EXCEPT !.eof = e] EXCEPT !.pc = "idle", !.call = 0], link)
<1> DEFINE o == client[c]
           g == [o EXCEPT !.eof = e]
           p == [o EXCEPT !.pc = "idle", !.call = 0]
           q == [g EXCEPT !.pc = "idle", !.call = 0]
<1>1. o \in ClientRecords /\ Fits(o, link) /\ o.state # "IDLE" /\ o.state # "NO_CONNECTION"
      /\ o.fd # 0
  BY ClientParts, WorkParts
<1> HIDE DEF o
<1>2. g \in ClientRecords /\ g.call = o.call /\ g.fd = o.fd /\ g.state = o.state
  BY <1>1 DEF ClientRecords
<1> HIDE DEF g
<1>3. /\ p.fd = o.fd /\ p.state = o.state /\ p.pc = "idle"
      /\ q.fd = o.fd /\ q.state = o.state /\ q.pc = "idle"
  BY <1>1, <1>2 DEF ClientRecords
<1> HIDE DEF p, q
<1>4. Fits(p, link) /\ Fits(q, link)
  BY <1>1, <1>3 DEF Fits, Owns
<1> QED
  BY <1>2, <1>4 DEF o, g, p, q

LEMMA SetupKeeps ==
    ASSUME Inv, NEW c \in Clients, Setup(c)
    PROVE  Inv' /\ CallStep
<1> DEFINE o == client[c]
<1>1. o.pc = "setup" /\ server' = server /\ o \in ClientRecords /\ Fits(o, link)
      /\ o.call \in Calls /\ o.fd \in 0..Len(link)
  BY ClientParts DEF Setup
<1>2. Tends(client, link, NearClosed(o.fd), o.fd)
  BY ClientParts, NearClosedTends
<1>3. CASE /\ ~LeftOver(o) /\ o.state # "NO_CONNECTION"
           /\ client' = [client EXCEPT ![c] =
                [@ EXCEPT !.pc = "work", !.state = "WRITE_REQUEST", !.written = 0]]
           /\ UNCHANGED <<outcome, runs, answer, link>>
  <2> DEFINE p == [o EXCEPT !.pc = "work", !.state = "WRITE_REQUEST", !.written = 0]
             l == link[o.fd]
  <2>1. client' = [client EXCEPT ![c] = p]
        /\ outcome' = outcome /\ runs' = runs /\ answer' = answer /\ link' = link
    BY <1>3
  <2>2. o.state = "IDLE" /\ o.eof = FALSE /\ o.attempts = 0
    <3>1. o.attempts = 0
      BY <1>1 DEF Inv, Right, Callers, Attends
    <3>2. o.state = "IDLE" /\ ~o.eof
      BY <1>3 DEF LeftOver
    <3>3. o.eof \in BOOLEAN
      BY <1>1 DEF ClientRecords
    <3> QED
      BY <3>1, <3>2, <3>3
  <2>3. /\ 0 \in 0..Size /\ Size \in Nat /\ Size > 0 /\ 0 \notin Calls
    BY RpcAssumption DEF Calls
  <2>4. /\ p \in ClientRecords /\ p.pc = "work" /\ p.state = "WRITE_REQUEST"
        /\ p.written = 0 /\ p.fd = o.fd /\ p.call = o.call /\ p.attempts = o.attempts
    BY <1>1, <2>3 DEF ClientRecords
  <2>5. o.fd # 0 /\ o.fd \in 1..Len(link) /\ l.near = "open" /\ Quiet(l)
    BY <1>1, <2>2 DEF Fits, Owns
  <2>6. l \in LinkRecords /\ Sound(l)
    BY <2>5, ClientParts
  <2> HIDE DEF p, l, o
  <2>7. ~Answering(l) /\ l.request = 0 /\ Len(l.up) = 0 /\ Len(l.down) = 0 /\ l.got = 0
    BY <2>3, <2>5, <2>6 DEF Quiet, Sound
  <2>8. \A k \in Calls : ~Carries(l, k)
    BY <2>3, <2>7 DEF Carries, Has
  <2>9. Fits(p, link)
    <3>1. Writes(p, l)
      BY <2>3, <2>4, <2>7 DEF Writes
    <3>2. Owns(p, l)
      BY <2>4, <2>5, <2>8, <3>1 DEF Owns
    <3> QED
      BY <2>4, <2>5, <3>2 DEF Fits, l
  <2>10. /\ link \in Seq(LinkRecords) /\ Len(link) \in Nat /\ Len(link) <= MaxSockets
         /\ \A s \in 1..Len(link) : Sound(link[s])
         /\ Right(outcome, runs, client, link, server)
    BY ClientParts
  <2>11. /\ Len(link) <= Len(link)
         /\ \A s \in 1..Len(link), k \in Calls : Awaits(link[s], k) => s \in Due(client, link, k)
         /\ \A s \in 1..Len(link), k \in Calls : s > Len(link) => ~Serves(link[s], k)
    BY <2>10 DEF Due
  <2>12. Right(outcome, runs, [client EXCEPT ![c] = p], link, server)
    BY <1>1, <2>2, <2>4, <2>9, <2>10, <2>11, SendingClient DEF o
  <2>13. Right(outcome', runs', client', link', server')
    BY <1>1, <2>1, <2>12
  <2> QED
    BY <2>1, <2>13, ClientParts DEF Inv, CallStep, callVars
<1>4. CASE Connects(c, NearClosed(o.fd), 0)
  BY <1>1, <1>2, <1>4, ConnectsKeeps
<1>5. CASE Fails(c, NotConnected(o)) /\ link' = NearClosed(o.fd)
  BY <1>1, <1>2, <1>5, NotConnectedFits, FailsKeeps
<1> QED
  BY <1>3, <1>4, <1>5 DEF Setup

LEMMA WriteRequestKeeps ==
    ASSUME Inv, NEW c \in Clients, WriteRequest(c)
    PROVE  Inv' /\ CallStep
<1> DEFINE o == client[c]
           l == Link(c)
           s == o.fd
<1>1. o.pc = "work" /\ o.state = "WRITE_REQUEST" /\ l.far # "refused"
  BY DEF WriteRequest
<1>2. PICK n \in 1..(Size - o.written) :
         /\ client' = [client EXCEPT ![c] =
              [o EXCEPT !.written = o.written + n,
                        !.state = IF o.written + n = Size
                                  THEN "READ_HEADER" ELSE o.state,
                        !.got = 0, !.from = 0]]
         /\ link' = IF Link(c).far = "closed" THEN link
                    ELSE [link EXCEPT ![o.fd].up = @ \o Pieces(o.call, n)]
         /\ UNCHANGED <<outcome, runs, answer, server>>
  BY DEF WriteRequest
<1> DEFINE p == WritingClient(o, n)
           m == WritingRecord(o, l, n)
           r == [link EXCEPT ![s] = m]
<1>3. /\ o \in ClientRecords /\ o.call \in Calls /\ s \in 1..Len(link) /\ l = link[s]
      /\ l \in LinkRecords /\ Sound(l) /\ Owns(o, l)
      /\ link \in Seq(LinkRecords) /\ \A t \in 1..Len(link) : Sound(link[t])
      /\ o.fd # 0 /\ Right(outcome, runs, client, link, server)
  BY <1>1, ClientParts, WorkParts DEF Link
<1>4. /\ p \in ClientRecords /\ Touches(l, m) /\ Owns(p, m)
      /\ \A k \in Calls : Awaits(m, k) => Awaits(l, k) \/ (Live(l) /\ k = o.call)
  BY <1>1, <1>3, RequestWritten
<1>5. client' = [client EXCEPT ![c] = p]
  BY <1>2 DEF WritingClient
<1>6. link' = r
  <2>1. CASE l.far = "closed"
    <3>1. m = l /\ link' = link
      BY <1>2, <2>1 DEF WritingRecord
    <3> QED
      BY <1>3, <3>1
  <2>2. CASE l.far # "closed"
    <3>1. m = [l EXCEPT !.up = l.up \o Pieces(o.call, n)]
      BY <2>2 DEF WritingRecord
    <3>2. link' = [link EXCEPT ![s].up = link[s].up \o Pieces(o.call, n)]
      BY <1>2, <2>2
    <3> QED
      BY <1>3, <3>1, <3>2
  <2> QED
    BY <2>1, <2>2
<1>7. /\ p.pc = "work" /\ p.call = o.call /\ p.attempts = o.attempts /\ p.fd = o.fd
      /\ p.state \in {"WRITE_REQUEST", "READ_HEADER"}
  BY <1>1, <1>3 DEF WritingClient, ClientRecords
<1> HIDE DEF p, m
<1>8. r \in Seq(LinkRecords) /\ Len(r) = Len(link) /\ r[s] = m
      /\ \A t \in 1..Len(link) : t # s => r[t] = link[t]
  BY <1>3, <1>4 DEF Touches
<1>9. Tends(client, link, r, s)
  <2>1. \A k \in Calls : Awaits(m, k) => s \in Due(client, link, k)
    <3>1. Sends(o, o.call)
      BY <1>1 DEF Sends
    <3> QED
      BY <1>3, <1>4, <3>1 DEF Due
  <2> QED
    BY <1>3, <1>4, <1>8, <2>1 DEF Tends
<1> HIDE DEF r
<1>10. Fits(p, r)
  BY <1>3, <1>4, <1>7, <1>8 DEF Fits
<1>11. Right(outcome, runs, [client EXCEPT ![c] = p], r, server)
  BY <1>1, <1>3, <1>4, <1>7, <1>9, <1>10, BusyClient
<1>12. Right(outcome', runs', client', link', server')
  BY <1>2, <1>5, <1>6, <1>11
<1> QED
  BY <1>2, <1>12, ClientParts DEF Inv, CallStep, callVars

\* The write fails, or the time is up: the connection stays as it is.
LEMMA GivesUpKeeps ==
    ASSUME Inv, NEW c \in Clients, client[c].pc = "work", Fails(c, client[c]),
           UNCHANGED <<link, server>>
    PROVE  Inv' /\ CallStep
<1>1. client[c] \in ClientRecords /\ client[c].fd \in 0..Len(link)
  BY ClientParts
<1>2. Tends(client, link, link, client[c].fd)
  BY <1>1, ClientParts, TendsNothing
<1>3. Fits([client[c] EXCEPT !.pc = "idle", !.call = 0], link)
  BY FailedFits
<1> QED
  BY <1>1, <1>2, <1>3, FailsKeeps

LEMMA ReadResponseKeeps ==
    ASSUME Inv, NEW c \in Clients, ReadResponse(c)
    PROVE  Inv' /\ CallStep
<1> DEFINE o == client[c]
           l == Link(c)
           s == o.fd
           k == o.call
<1>1. o.pc = "work" /\ o.state \in {"READ_HEADER", "READ_RESPONSE"}
      /\ runs' = runs /\ server' = server
  BY DEF ReadResponse
<1>2. PICK n \in 1..Len(l.down), eof \in BOOLEAN :
        /\ link' = [link EXCEPT ![s].down = SubSeq(l.down, n + 1, Len(l.down))]
        /\ client' = [client EXCEPT ![c] = ReadingClient(o, l, n, eof)]
        /\ outcome' = IF o.got + n = Size THEN [outcome EXCEPT ![k] = "answered"]
                      ELSE outcome
        /\ answer' = IF o.got + n = Size THEN [answer EXCEPT ![k] = Head(l.down)]
                     ELSE answer
  BY DEF ReadResponse, ReadingClient, Link
<1> DEFINE p == ReadingClient(o, l, n, eof)
           m == ReadingRecord(l, n)
           r == [link EXCEPT ![s] = m]
<1>3. /\ o \in ClientRecords /\ k \in Calls /\ s \in 1..Len(link) /\ l = link[s]
      /\ l \in LinkRecords /\ Sound(l) /\ Owns(o, l) /\ outcome[k] = "pending"
      /\ link \in Seq(LinkRecords) /\ \A t \in 1..Len(link) : Sound(link[t])
      /\ o.fd # 0 /\ o.fd \in 0..Len(link) /\ Right(outcome, runs, client, link, server)
      /\ answer \in [Calls -> 0..MaxCalls] /\ o.state # "NO_CONNECTION"
  BY <1>1, ClientParts, WorkParts DEF Link
<1>4. /\ p \in ClientRecords /\ Touches(l, m) /\ m.up = l.up /\ Owns(p, m)
      /\ Head(l.down) = k /\ Serves(l, k)
  BY <1>1, <1>3, ResponseRead
<1>5. link' = r
  <2>1. m = [l EXCEPT !.down = SubSeq(l.down, n + 1, Len(l.down))]
    BY DEF ReadingRecord
  <2> QED
    BY <1>2, <1>3, <2>1
<1>6. /\ p.attempts = o.attempts /\ p.fd = o.fd
      /\ p.state \in {"IDLE", "READ_HEADER", "READ_RESPONSE"}
      /\ p.pc = (IF o.got + n = Size THEN "idle" ELSE "work")
      /\ p.call = (IF o.got + n = Size THEN 0 ELSE k)
  BY <1>1, <1>3 DEF ReadingClient, ClientRecords
<1> HIDE DEF p, m
<1>7. r \in Seq(LinkRecords) /\ Len(r) = Len(link) /\ r[s] = m
      /\ \A t \in 1..Len(link) : t # s => r[t] = link[t]
  BY <1>3, <1>4 DEF Touches
<1>8. Tends(client, link, r, s)
  <2>1. \A j \in Calls : Awaits(m, j) => Awaits(l, j)
    BY <1>4 DEF Touches, Awaits, Live, Answering
  <2> QED
    BY <1>3, <1>4, <1>7, <2>1 DEF Tends, Due
<1> HIDE DEF r
<1>9. Fits(p, r)
  BY <1>3, <1>4, <1>6, <1>7 DEF Fits
<1>10. runs[k] > 0
  BY <1>3, <1>4 DEF Right, Spent
<1>11. CASE o.got + n = Size
  <2>1. Right([outcome EXCEPT ![k] = "answered"], runs, [client EXCEPT ![c] = p], r, server)
    BY <1>1, <1>3, <1>4, <1>6, <1>8, <1>9, <1>11, EndedClient
  <2>2. /\ client' = [client EXCEPT ![c] = p] /\ outcome' = [outcome EXCEPT ![k] = "answered"]
        /\ answer' = [answer EXCEPT ![k] = k]
    BY <1>2, <1>4, <1>11 DEF p
  <2>3. Right(outcome', runs', client', link', server')
    BY <1>1, <1>5, <2>1, <2>2
  <2>4. answer' \in [Calls -> 0..MaxCalls]
    <3>1. k \in 0..MaxCalls
      BY <1>3 DEF ClientRecords
    <3> QED
      BY <1>3, <2>2, <3>1
  <2>5. Call!Answered(k)
    BY <1>1, <1>3, <1>10, <2>2 DEF Call!Answered
  <2> QED
    BY <1>3, <2>3, <2>4, <2>5 DEF Inv, CallStep, Call!Next
<1>12. CASE o.got + n # Size
  <2>1. Right(outcome, runs, [client EXCEPT ![c] = p], r, server)
    BY <1>1, <1>3, <1>4, <1>6, <1>8, <1>9, <1>12, BusyClient
  <2>2. client' = [client EXCEPT ![c] = p] /\ outcome' = outcome /\ answer' = answer
    BY <1>2, <1>12 DEF p
  <2>3. Right(outcome', runs', client', link', server')
    BY <1>1, <1>5, <2>1, <2>2
  <2> QED
    BY <1>1, <1>3, <2>2, <2>3 DEF Inv, CallStep, callVars
<1> QED
  BY <1>11, <1>12

\* A client whose process died.
LEMMA CrashedFits ==
    ASSUME NEW x \in {"idle", "crashed"}, NEW r
    PROVE  LET p == [NewClient EXCEPT !.pc = x] IN
           p \in ClientRecords /\ p.pc = x /\ p.call = 0 /\ p.fd = 0 /\ Fits(p, r)
<1> DEFINE p == [NewClient EXCEPT !.pc = x]
<1>1. 0 \in 0..MaxCalls /\ 0 \in 0..MaxSockets /\ 0 \in 0..Size
  BY RpcAssumption
<1>2. p \in ClientRecords /\ p.pc = x /\ p.call = 0 /\ p.fd = 0
      /\ p.state = "NO_CONNECTION"
  BY <1>1 DEF NewClient, ClientRecords
<1> QED
  BY <1>2 DEF Fits

LEMMA ResponseEndsKeeps ==
    ASSUME Inv, NEW c \in Clients, ResponseEnds(c)
    PROVE  Inv' /\ CallStep
<1> DEFINE o == client[c]
           k == o.call
<1>1. o.pc = "work" /\ server' = server /\ o \in ClientRecords /\ o.call = k
      /\ k \in Calls /\ outcome[k] = "pending" /\ o.fd \in 0..Len(link)
  BY ClientParts DEF ResponseEnds
<1>2. Tends(client, link, NearClosed(o.fd), o.fd)
  BY ClientParts, NearClosedTends
<1>3. CASE MayRetry(o) /\ Connects(c, NearClosed(o.fd), 1)
  BY <1>1, <1>2, <1>3, ConnectsKeeps DEF MayRetry
<1>4. CASE Fails(c, NotConnected(o)) /\ link' = NearClosed(o.fd)
  <2> DEFINE p == NotConnected(o)
             r == NearClosed(o.fd)
  <2>1. p \in ClientRecords /\ p.call = k /\ p.fd = 0
        /\ Fits([p EXCEPT !.pc = "idle", !.call = 0], r)
    BY <1>1, NotConnectedFits
  <2>2. Fails(c, p) /\ link' = r /\ Tends(client, link, r, o.fd)
    BY <1>2, <1>4
  <2> HIDE DEF p, r
  <2> QED
    BY <1>1, <2>1, <2>2, FailsKeeps
<1>5. CASE Crash(c)
  <2> DEFINE p == [NewClient EXCEPT !.pc = "crashed"]
             r == NearClosed(o.fd)
  <2>1. /\ client' = [client EXCEPT ![c] = p] /\ link' = r
        /\ outcome' = [outcome EXCEPT ![k] = "failed"]
        /\ runs' = runs /\ answer' = answer
    BY <1>5 DEF Crash
  <2>2. p \in ClientRecords /\ p.pc = "crashed" /\ p.call = 0 /\ p.fd = 0 /\ Fits(p, r)
    BY CrashedFits
  <2> HIDE DEF p, r
  <2>3. Right([outcome EXCEPT ![k] = "failed"], runs, [client EXCEPT ![c] = p], r, server)
    BY <1>1, <1>2, <2>2, ClientParts, EndedClient DEF r
  <2>4. Right(outcome', runs', client', link', server')
    BY <1>1, <2>1, <2>3
  <2>5. Call!Failed(k)
    BY <1>1, <2>1 DEF Call!Failed
  <2> QED
    BY <1>1, <2>1, <2>4, <2>5, ClientParts DEF Inv, CallStep, Call!Next
<1>6. CASE (\E eof \in BOOLEAN : Fails(c, [o EXCEPT !.eof = eof])) /\ link' = link
  <2>1. PICK eof \in BOOLEAN : Fails(c, [o EXCEPT !.eof = eof])
    BY <1>6
  <2> DEFINE p == [o EXCEPT !.eof = eof]
  <2>2. p \in ClientRecords /\ p.call = k /\ p.fd = o.fd
        /\ Fits([p EXCEPT !.pc = "idle", !.call = 0], link)
    BY <1>1, FailedFits
  <2>3. Tends(client, link, link, o.fd)
    BY <1>1, ClientParts, TendsNothing
  <2> HIDE DEF p
  <2>4. Fails(c, p)
    BY <2>1 DEF p
  <2> QED
    BY <1>1, <1>6, <2>2, <2>3, <2>4, FailsKeeps
<1> QED
  BY <1>3, <1>4, <1>5, <1>6 DEF ResponseEnds

LEMMA ClientKeeps ==
    ASSUME Inv, NEW c \in Clients, Execute(c) \/ ClientStep(c)
    PROVE  Inv' /\ CallStep
<1>1. CASE WriteRequestFails(c)
  BY <1>1, GivesUpKeeps DEF WriteRequestFails
<1>2. CASE WorkTimesOut(c)
  BY <1>2, GivesUpKeeps DEF WorkTimesOut
<1> QED
  BY <1>1, <1>2, ExecuteKeeps, SetupKeeps, WriteRequestKeeps, ReadResponseKeeps,
     ResponseEndsKeeps DEF ClientStep

-----------------------------------------------------------------------------
(* The actions of the server.                                              *)

LEMMA ServerParts ==
    ASSUME Inv
    PROVE  /\ server \in ServerRecords /\ Executes(server, link)
           /\ link \in Seq(LinkRecords) /\ Len(link) \in Nat /\ DOMAIN link = 1..Len(link)
           /\ \A s \in 1..Len(link) : Sound(link[s]) /\ link[s] \in LinkRecords
           /\ client \in [Clients -> ClientRecords]
           /\ answer \in [Calls -> 0..MaxCalls]
           /\ Right(outcome, runs, client, link, server)
<1>1. server \in ServerRecords /\ Executes(server, link) /\ link \in Seq(LinkRecords)
      /\ \A s \in 1..Len(link) : Sound(link[s])
  BY DEF Inv, Right, Wires
<1>2. client \in [Clients -> ClientRecords]
  BY DEF Inv, Right, Wires
<1> QED
  BY <1>1, <1>2 DEF Inv

\* Connections ease, and nothing else happens that a caller knows of.
LEMMA EasedKeeps ==
    ASSUME NEW oc, NEW ru, NEW cl, NEW ln, NEW sv, Right(oc, ru, cl, ln, sv),
           NEW r \in Seq(LinkRecords), Len(r) = Len(ln),
           \A s \in 1..Len(ln) : r[s] = ln[s] \/ Eases(ln[s], r[s]),
           NEW tv \in ServerRecords, Executes(tv, r)
    PROVE  Right(oc, ru, cl, r, tv)
<1>1. Wires(cl, ln, sv) /\ Callers(oc, cl) /\ Spent(oc, ru, cl, ln)
      /\ ln \in Seq(LinkRecords)
  BY DEF Right, Wires
<1>2. \A s \in 1..Len(ln) : r[s] = ln[s] \/ Keeps(ln[s], r[s])
  BY DEF Eases
<1>3. Wires(cl, r, tv)
  BY <1>1, <1>2, WiresAfterServer
<1>4. Spent(oc, ru, cl, r)
  BY <1>1, SpentAfterServer
<1> QED
  BY <1>1, <1>3, <1>4 DEF Right

\* An action of the server by which no call is executed.
LEMMA ServerEases ==
    ASSUME Inv, UNCHANGED <<outcome, runs, answer, client>>,
           NEW r \in Seq(LinkRecords), link' = r, Len(r) = Len(link),
           \A s \in 1..Len(link) : r[s] = link[s] \/ Eases(link[s], r[s]),
           server' \in ServerRecords, Executes(server', r)
    PROVE  Inv' /\ CallStep
<1>1. PICK tv : tv = server'
  OBVIOUS
<1>2. Right(outcome, runs, client, r, tv)
  BY <1>1, ServerParts, EasedKeeps
<1>3. Right(outcome', runs', client', link', server')
  BY <1>1, <1>2
<1> QED
  BY <1>3, ServerParts DEF Inv, CallStep, callVars

\* One connection changes.
LEMMA OneEases ==
    ASSUME Inv, NEW s \in 1..Len(link), NEW m, Eases(link[s], m)
    PROVE  LET r == [link EXCEPT ![s] = m] IN
           /\ r \in Seq(LinkRecords) /\ Len(r) = Len(link) /\ r[s] = m
           /\ \A t \in 1..Len(link) : t # s => r[t] = link[t]
           /\ \A t \in 1..Len(link) : r[t] = link[t] \/ Eases(link[t], r[t])
<1> DEFINE r == [link EXCEPT ![s] = m]
<1>1. m \in LinkRecords /\ link \in Seq(LinkRecords)
  BY ServerParts DEF Eases, Keeps
<1>2. r \in Seq(LinkRecords) /\ Len(r) = Len(link) /\ r[s] = m
      /\ \A t \in 1..Len(link) : t # s => r[t] = link[t]
  BY <1>1
<1> HIDE DEF r
<1>3. \A t \in 1..Len(link) : r[t] = link[t] \/ Eases(link[t], r[t])
  BY <1>2
<1> QED
  BY <1>2, <1>3 DEF r

\* A server that executes nothing.
LEMMA NotServing ==
    ASSUME NEW sv, sv.pc # "exec", sv.serving = 0, NEW r
    PROVE  Executes(sv, r)
  BY DEF Executes

LEMMA AllFarClosedEases ==
    ASSUME Inv
    PROVE  /\ AllFarClosed \in Seq(LinkRecords) /\ Len(AllFarClosed) = Len(link)
           /\ \A s \in 1..Len(link) :
                /\ AllFarClosed[s] = link[s] \/ Eases(link[s], AllFarClosed[s])
                /\ AllFarClosed[s].near = link[s].near
<1> DEFINE m(s) == IF link[s].far \in {"backlog", "open"}
                   THEN FarClosedRecord(link[s], <<>>) ELSE link[s]
<1>1. DOMAIN link = 1..Len(link) /\ Len(link) \in Nat
  BY ServerParts
<1>2. AllFarClosed = [s \in 1..Len(link) |-> m(s)]
  BY <1>1 DEF AllFarClosed, FarClosedRecord
<1>3. ASSUME NEW s \in 1..Len(link)
      PROVE  /\ m(s) \in LinkRecords /\ (m(s) = link[s] \/ Eases(link[s], m(s)))
             /\ m(s).near = link[s].near
  <2>1. link[s] \in LinkRecords /\ Sound(link[s])
    BY ServerParts
  <2>2. CASE link[s].far \in {"backlog", "open"}
    <3>1. Eases(link[s], FarClosedRecord(link[s], <<>>))
      BY <2>1, <2>2, FarCloses
    <3>2. FarClosedRecord(link[s], <<>>).near = link[s].near
      BY <2>1 DEF FarClosedRecord, LinkRecords
    <3> QED
      BY <2>2, <3>1, <3>2 DEF Eases, Keeps
  <2>3. CASE link[s].far \notin {"backlog", "open"}
    BY <2>1, <2>3
  <2> QED
    BY <2>2, <2>3
<1> HIDE DEF m
<1>4. /\ AllFarClosed \in Seq(LinkRecords) /\ Len(AllFarClosed) = Len(link)
      /\ \A s \in 1..Len(link) : AllFarClosed[s] = m(s)
  <2>1. \A s \in 1..Len(link) : m(s) \in LinkRecords
    BY <1>3
  <2> QED
    BY <1>1, <1>2, <2>1
<1> QED
  BY <1>3, <1>4

LEMMA ClearKeeps ==
    ASSUME Inv, NEW srv \in ServerRecords, srv.pc = "stopped", srv.serving = 0,
           Clear(srv), UNCHANGED <<outcome, runs, answer, client>>
    PROVE  Inv' /\ CallStep
<1>1. CASE srv.inWork
  <2>1. server' \in ServerRecords /\ server'.pc # "exec" /\ server'.serving = 0
        /\ link' = link
    BY <1>1 DEF Clear, ServerRecords
  <2>2. Executes(server', link)
    BY <2>1, NotServing
  <2> QED
    BY <2>1, <2>2, ServerParts, ServerEases
<1>2. CASE ~srv.inWork
  <2>1. server' \in ServerRecords /\ server'.pc # "exec" /\ server'.serving = 0
        /\ link' = AllFarClosed
    BY <1>2 DEF Clear, ServerRecords
  <2>2. Executes(server', AllFarClosed)
    BY <2>1, NotServing
  <2>3. PICK r : r = AllFarClosed
    OBVIOUS
  <2> QED
    BY <2>1, <2>2, <2>3, AllFarClosedEases, ServerEases
<1> QED
  BY <1>1, <1>2

\* What leaves the connections alone.
LEMMA LoopKeeps ==
    ASSUME Inv, Interrupt \/ Work \/ WorkEnds \/ Start
    PROVE  Inv' /\ CallStep
<1>1. server \in ServerRecords /\ Executes(server, link)
  BY ServerParts
<1>2. link' = link /\ UNCHANGED <<outcome, runs, answer, client>>
  BY DEF Interrupt, Work, WorkEnds, Start
<1>3. server' \in ServerRecords /\ Executes(server', link)
  <2>1. CASE Interrupt
    <3>1. server' \in ServerRecords /\ server'.pc = server.pc
          /\ server'.serving = server.serving
      BY <1>1, <2>1 DEF Interrupt, ServerRecords
    <3> QED
      BY <1>1, <3>1 DEF Executes
  <2>2. CASE Work \/ WorkEnds
    <3>1. server' \in ServerRecords /\ server'.pc # "exec" /\ server.pc # "exec"
          /\ server'.serving = server.serving
      BY <1>1, <2>2 DEF Work, WorkEnds, ServerRecords
    <3> QED
      BY <1>1, <3>1 DEF Executes
  <2>3. CASE Start
    <3>1. server.starts \in 1..MaxStarts /\ server.starts < MaxStarts
          /\ MaxStarts \in Nat /\ 0 \in 0..MaxSockets
      BY <1>1, <2>3, RpcAssumption DEF Start, ServerRecords
    <3>2. server.starts + 1 \in 1..MaxStarts
      BY <3>1
    <3>3. PICK x : x = server.starts + 1
      OBVIOUS
    <3>4. server' = [NewServer EXCEPT !.starts = x] /\ x \in 1..MaxStarts
      BY <2>3, <3>2, <3>3 DEF Start
    <3>5. server' \in ServerRecords /\ server'.pc # "exec" /\ server'.serving = 0
      BY <3>1, <3>4 DEF NewServer, ServerRecords
    <3> QED
      BY <3>5, NotServing
  <2> QED
    BY <2>1, <2>2, <2>3
<1>4. link \in Seq(LinkRecords)
  BY ServerParts
<1> QED
  BY <1>2, <1>3, <1>4, ServerEases

LEMMA StopKeeps ==
    ASSUME Inv, Shutdown \/ CommandThrows
    PROVE  Inv' /\ CallStep
<1>1. server \in ServerRecords /\ Executes(server, link) /\ 0 \in 0..MaxSockets
  BY ServerParts, RpcAssumption
<1>2. CASE Shutdown
  <2> DEFINE srv == [server EXCEPT !.pc = "stopped", !.interrupted = FALSE]
  <2>1. Clear(srv) /\ UNCHANGED <<outcome, runs, answer, client>> /\ server.pc = "loop"
    BY <1>2 DEF Shutdown
  <2>2. srv \in ServerRecords /\ srv.pc = "stopped" /\ srv.serving = 0
    BY <1>1, <2>1 DEF Executes, ServerRecords
  <2> HIDE DEF srv
  <2> QED
    BY <2>1, <2>2, ClearKeeps
<1>3. CASE CommandThrows
  <2> DEFINE srv == [server EXCEPT !.pc = "stopped", !.serving = 0, !.interrupted = FALSE]
  <2>1. Clear(srv) /\ UNCHANGED <<outcome, runs, answer, client>>
    BY <1>3 DEF CommandThrows
  <2>2. srv \in ServerRecords /\ srv.pc = "stopped" /\ srv.serving = 0
    BY <1>1 DEF ServerRecords
  <2> HIDE DEF srv
  <2> QED
    BY <2>1, <2>2, ClearKeeps
<1> QED
  BY <1>2, <1>3

-----------------------------------------------------------------------------
(* The actions on one connection.                                          *)

\* One connection eases, and the server is then not executing, or was not.
LEMMA OneKeeps ==
    ASSUME Inv, UNCHANGED <<outcome, runs, answer, client>>,
           NEW s \in 1..Len(link), NEW m, Eases(link[s], m),
           link' = [link EXCEPT ![s] = m], server' \in ServerRecords,
           server'.pc # "exec", server'.serving = 0
    PROVE  Inv' /\ CallStep
<1> DEFINE r == [link EXCEPT ![s] = m]
<1>1. Executes(server', r)
  BY NotServing
<1>2. /\ r \in Seq(LinkRecords) /\ Len(r) = Len(link)
      /\ \A t \in 1..Len(link) : r[t] = link[t] \/ Eases(link[t], r[t])
  BY OneEases
<1> HIDE DEF r
<1>3. link' = r
  BY DEF r
<1> QED
  BY <1>1, <1>2, <1>3, ServerEases

LEMMA ServingParts ==
    ASSUME Inv, NEW s, Serving(s)
    PROVE  /\ s \in 1..Len(link) /\ link[s] \in LinkRecords /\ Sound(link[s])
           /\ link[s].far = "open"
           /\ server \in ServerRecords /\ server.pc = "work" /\ server.serving = 0
<1>1. s \in 1..Len(link) /\ link[s].far = "open" /\ server.pc = "work"
  BY ServerParts DEF Serving
<1> QED
  BY <1>1, ServerParts DEF Executes

LEMMA AcceptKeeps ==
    ASSUME Inv, NEW s, Accept(s)
    PROVE  Inv' /\ CallStep
<1> DEFINE m == [link[s] EXCEPT !.far = "open"]
<1>1. /\ s \in 1..Len(link) /\ link[s].far = "backlog" /\ server.pc = "work"
      /\ UNCHANGED <<outcome, runs, answer, client, server>>
  BY ServerParts DEF Accept
<1>2. link[s] \in LinkRecords /\ Sound(link[s]) /\ server \in ServerRecords
      /\ server.serving = 0
  BY <1>1, ServerParts DEF Executes
<1>3. link' = [link EXCEPT ![s] = m]
  BY <1>1 DEF Accept
<1>4. Eases(link[s], m)
  BY <1>1, <1>2, Accepted
<1> HIDE DEF m
<1> QED
  BY <1>1, <1>2, <1>3, <1>4, OneKeeps

\* A connection the server closes.
LEMMA FarClosedEases ==
    ASSUME Inv, NEW s \in 1..Len(link), link[s].far = "open", link' \in FarClosed(s)
    PROVE  \E m : Eases(link[s], m) /\ link' = [link EXCEPT ![s] = m]
<1>1. link[s] \in LinkRecords /\ Sound(link[s])
  BY ServerParts
<1>2. PICK d \in {link[s].down, <<>>} :
        link' = [link EXCEPT ![s].far = "closed", ![s].up = <<>>, ![s].down = d,
                    ![s].state = "READ_HEADER", ![s].got = 0,
                    ![s].request = 0, ![s].sent = 0]
  BY DEF FarClosed
<1>3. link' = [link EXCEPT ![s] = FarClosedRecord(link[s], d)]
  BY <1>2, ServerParts DEF FarClosedRecord
<1>4. Eases(link[s], FarClosedRecord(link[s], d))
  BY <1>1, FarCloses
<1> QED
  BY <1>3, <1>4

LEMMA RequestEndsKeeps ==
    ASSUME Inv, NEW s, RequestEnds(s)
    PROVE  Inv' /\ CallStep
<1>1. Serving(s) /\ link' \in FarClosed(s)
      /\ UNCHANGED <<outcome, runs, answer, client, server>>
  BY DEF RequestEnds
<1>2. /\ s \in 1..Len(link) /\ link[s].far = "open" /\ server \in ServerRecords
      /\ server.pc = "work" /\ server.serving = 0
  BY <1>1, ServingParts
<1>3. PICK m : Eases(link[s], m) /\ link' = [link EXCEPT ![s] = m]
  BY <1>1, <1>2, FarClosedEases
<1> QED
  BY <1>1, <1>2, <1>3, OneKeeps

LEMMA WrittenEases ==
    ASSUME Inv, NEW s \in 1..Len(link), link[s].far = "open", Answering(link[s]),
           NEW n \in 0..(Size - link[s].sent), link' = Written(s, n)
    PROVE  \E m : Eases(link[s], m) /\ link' = [link EXCEPT ![s] = m]
<1>1. link' = [link EXCEPT ![s] = WrittenRecord(link[s], n)]
  BY DEF Written, WrittenRecord
<1>2. Eases(link[s], WrittenRecord(link[s], n))
  BY ServerParts, ResponseWritten
<1> QED
  BY <1>1, <1>2

LEMMA WriteResponseKeeps ==
    ASSUME Inv, NEW s, WriteResponse(s)
    PROVE  Inv' /\ CallStep
<1>1. Serving(s) /\ UNCHANGED <<outcome, runs, answer, client, server>>
      /\ Answering(link[s])
  BY DEF WriteResponse, Answering
<1>2. /\ s \in 1..Len(link) /\ link[s].far = "open" /\ server \in ServerRecords
      /\ server.pc = "work" /\ server.serving = 0
      /\ Size \in Nat /\ link[s].sent \in Nat
  BY <1>1, ServingParts, LinkFields
<1>3. \E m : Eases(link[s], m) /\ link' = [link EXCEPT ![s] = m]
  <2>1. CASE link' \in FarClosed(s)
    BY <1>2, <2>1, FarClosedEases
  <2>2. ASSUME NEW n \in 1..(Size - link[s].sent), link' = Written(s, n)
        PROVE  \E m : Eases(link[s], m) /\ link' = [link EXCEPT ![s] = m]
    <3>1. n \in 0..(Size - link[s].sent)
      BY <1>2
    <3> QED
      BY <1>1, <1>2, <2>2, <3>1, WrittenEases
  <2> QED
    BY <2>1, <2>2 DEF WriteResponse
<1> QED
  BY <1>1, <1>2, <1>3, OneKeeps

LEMMA CommandEndsKeeps ==
    ASSUME Inv, CommandEnds
    PROVE  Inv' /\ CallStep
<1> DEFINE s == server.serving
<1>1. /\ server.pc = "exec" /\ UNCHANGED <<outcome, runs, answer, client>>
      /\ server' = [server EXCEPT !.pc = "work", !.serving = 0]
  BY DEF CommandEnds
<1>2. /\ server \in ServerRecords /\ s \in 1..Len(link) /\ link[s].far = "open"
      /\ Answering(link[s]) /\ link[s].sent = 0
  BY <1>1, ServerParts DEF Executes
<1>3. server' \in ServerRecords /\ server'.pc # "exec" /\ server'.serving = 0
  <2>1. 0 \in 0..MaxSockets
    BY RpcAssumption
  <2> QED
    BY <1>1, <1>2, <2>1 DEF ServerRecords
<1>4. \E m : Eases(link[s], m) /\ link' = [link EXCEPT ![s] = m]
  <2>1. CASE link' \in FarClosed(s)
    BY <1>2, <2>1, FarClosedEases
  <2>2. ASSUME NEW n \in 0..Size, link' = Written(s, n)
        PROVE  \E m : Eases(link[s], m) /\ link' = [link EXCEPT ![s] = m]
    <3>1. n \in 0..(Size - link[s].sent)
      BY <1>2, RpcAssumption
    <3> QED
      BY <1>2, <2>2, <3>1, WrittenEases
  <2> QED
    BY <2>1, <2>2 DEF CommandEnds
<1> QED
  BY <1>1, <1>2, <1>3, <1>4, OneKeeps

\* The client of a call whose request the server has got whole writes it no
\* more.
LEMMA WrittenWhole ==
    ASSUME NEW oc, NEW cl, NEW ln, NEW sv, Wires(cl, ln, sv),
           NEW s \in 1..Len(ln), NEW m, Keeps(ln[s], m), Answering(m),
           NEW c \in Clients, cl[c].pc = "work", cl[c].state = "WRITE_REQUEST"
    PROVE  cl[c].fd # s
<1> SUFFICES ASSUME cl[c].fd = s
             PROVE  FALSE
  OBVIOUS
<1>1. cl[c] \in ClientRecords /\ Fits(cl[c], ln) /\ s # 0
  BY DEF Wires
<1>2. Owns(cl[c], m)
  BY <1>1 DEF Fits, Keeps
<1> QED
  BY <1>2 DEF Owns, Writes

\* A call is executed: what is due on its connection is not any more.
LEMMA SpentAfterRun ==
    ASSUME Wires(client, link, server), Spent(outcome, runs, client, link),
           NEW s \in 1..Len(link), NEW k \in Calls, Awaits(link[s], k),
           NEW m, Keeps(link[s], m), Answering(m),
           \A j \in Calls : Serves(m, j) => j = k,
           NEW r, Len(r) = Len(link), r[s] = m, \A t \in 1..Len(link) : t # s => r[t] = link[t],
           NEW rv, rv = [runs EXCEPT ![k] = runs[k] + 1]
    PROVE  /\ Spent(outcome, rv, client, r)
           /\ runs[k] < 2 /\ outcome[k] # "none"
<1>1. \A t \in 1..Len(link) : r[t] = link[t] \/ Keeps(link[t], r[t])
  OBVIOUS
<1>2. /\ runs \in [Calls -> Nat]
      /\ \A j \in Calls : Spare(outcome, client, j) \in Nat /\ IsFiniteSet(Due(client, link, j))
                          /\ Within(runs[j], Due(client, link, j), Spare(outcome, client, j))
                          /\ Due(client, r, j) \subseteq Due(client, link, j)
  <2>1. \A j \in Calls : Due(client, r, j) \subseteq Due(client, link, j)
    BY <1>1, DueAfterServer
  <2>2. link \in Seq(LinkRecords)
    BY DEF Wires
  <2>3. \A j \in Calls : Spare(outcome, client, j) \in Nat /\ IsFiniteSet(Due(client, link, j))
    BY <2>2, SpareBounds, DueFinite
  <2> QED
    BY <2>1, <2>3 DEF Spent
<1>3. s \in Due(client, link, k)
  BY DEF Due
<1>4. s \notin Due(client, r, k)
  <2>1. ~Awaits(m, k)
    BY DEF Awaits
  <2>2. \A c \in Clients : Sends(client[c], k) => client[c].fd # s
    BY WrittenWhole DEF Sends
  <2> QED
    BY <2>1, <2>2 DEF Due
<1>5. Within(runs[k] + 1, Due(client, r, k), Spare(outcome, client, k)) /\ runs[k] < 2
  <2>1. Due(client, r, k) \in SUBSET (Due(client, link, k) \ {s}) /\ runs[k] \in Nat
    BY <1>2, <1>4
  <2> QED
    BY <1>2, <1>3, <2>1, BudgetRun
<1>6. outcome[k] # "none"
  <2> SUFFICES ASSUME outcome[k] = "none"
               PROVE  FALSE
    OBVIOUS
  <2>1. Spare(outcome, client, k) = 2
    BY DEF Spare
  <2>2. IsFiniteSet(Due(client, r, k))
    BY <1>2, FS_Subset
  <2>3. Cardinality(Due(client, r, k)) \in Nat
    BY <2>2, FS_CardinalityType
  <2> QED
    BY <1>2, <1>5, <2>1, <2>3 DEF Within
<1>7. rv \in [Calls -> Nat] /\ rv[k] = runs[k] + 1 /\ \A j \in Calls \ {k} : rv[j] = runs[j]
  BY <1>2
<1>8. ASSUME NEW j \in Calls
      PROVE  Within(rv[j], Due(client, r, j), Spare(outcome, client, j))
  <2>1. CASE j = k
    BY <1>5, <1>7, <2>1
  <2>2. CASE j # k
    <3>1. /\ runs[j] \in Nat /\ Spare(outcome, client, j) <= Spare(outcome, client, j)
          /\ Due(client, r, j) \in SUBSET Due(client, link, j)
      BY <1>2
    <3>2. Within(runs[j], Due(client, r, j), Spare(outcome, client, j))
      BY <1>2, <3>1, BudgetKept
    <3> QED
      BY <1>7, <2>2, <3>2
  <2> QED
    BY <2>1, <2>2
<1>9. ASSUME NEW j \in Calls, NEW t \in 1..Len(r), Serves(r[t], j)
      PROVE  rv[j] > 0
  <2>1. CASE t = s
    <3>1. j = k
      BY <1>9, <2>1
    <3> QED
      BY <1>2, <1>7, <3>1
  <2>2. CASE t # s
    <3>1. runs[j] > 0
      BY <1>9, <2>2 DEF Spent
    <3> QED
      BY <1>2, <1>7, <3>1
  <2> QED
    BY <2>1, <2>2
<1> QED
  BY <1>5, <1>6, <1>7, <1>8, <1>9 DEF Spent

LEMMA ReadRequestKeeps ==
    ASSUME Inv, NEW s, ReadRequest(s)
    PROVE  Inv' /\ CallStep
<1>1. Serving(s) /\ ~Answering(link[s]) /\ UNCHANGED <<outcome, answer, client>>
  BY DEF ReadRequest, Answering
<1>2. /\ s \in 1..Len(link) /\ link[s] \in LinkRecords /\ Sound(link[s])
      /\ link[s].far = "open"
      /\ server \in ServerRecords /\ server.pc = "work" /\ server.serving = 0
  BY <1>1, ServingParts
<1> DEFINE l == link[s]
           k == Head(l.up)
<1>3. PICK n \in 1..Len(l.up) :
        /\ link' = [link EXCEPT ![s] = ReadRecord(l, n)]
        /\ runs' = IF l.got + n = Size THEN [runs EXCEPT ![k] = runs[k] + 1] ELSE runs
        /\ server' = IF l.got + n = Size
                     THEN [server EXCEPT !.pc = "exec", !.serving = s] ELSE server
  BY DEF ReadRequest, ReadRecord
<1> DEFINE m == ReadRecord(l, n)
<1>4. /\ Keeps(l, m) /\ k \in Calls /\ Awaits(l, k)
      /\ Answering(m) <=> l.got + n = Size
      /\ ~Answering(m) => Eases(l, m)
      /\ Answering(m) => \A j \in Calls : Serves(m, j) => j = k
  BY <1>1, <1>2, RequestRead
<1>5. link' = [link EXCEPT ![s] = m]
  BY <1>3
<1>6. m.far = l.far /\ m.sent = l.sent
  BY <1>2 DEF ReadRecord, LinkRecords
<1> HIDE DEF m, k
<1>7. CASE ~Answering(m)
  <2>1. runs' = runs /\ server' = server /\ Eases(l, m)
    BY <1>3, <1>4, <1>7
  <2> QED
    BY <1>1, <1>2, <1>5, <2>1, OneKeeps
<1>8. CASE Answering(m)
  <2>1. /\ runs' = [runs EXCEPT ![k] = runs[k] + 1]
        /\ server' = [server EXCEPT !.pc = "exec", !.serving = s]
    BY <1>3, <1>4, <1>8
  <2> DEFINE r == [link EXCEPT ![s] = m]
             rv == [runs EXCEPT ![k] = runs[k] + 1]
  <2> HIDE DEF rv
  <2>2. /\ link \in Seq(LinkRecords) /\ Len(link) \in Nat /\ m \in LinkRecords
        /\ Wires(client, link, server) /\ Callers(outcome, client)
        /\ Spent(outcome, runs, client, link)
    BY <1>4, ServerParts DEF Right, Keeps
  <2>3. /\ r \in Seq(LinkRecords) /\ Len(r) = Len(link) /\ r[s] = m
        /\ \A t \in 1..Len(link) : t # s => r[t] = link[t]
    BY <1>2, <2>2
  <2> HIDE DEF r
  <2>4. \A t \in 1..Len(link) : r[t] = link[t] \/ Keeps(link[t], r[t])
    BY <1>4, <2>3
  <2>5. server' \in ServerRecords /\ Executes(server', r)
    <3>1. Len(link) <= MaxSockets /\ MaxSockets \in Nat
      BY <2>2, RpcAssumption DEF Wires
    <3>2. s \in 0..MaxSockets /\ s # 0
      BY <1>2, <2>2, <3>1
    <3>3. server' \in ServerRecords /\ server'.pc = "exec" /\ server'.serving = s
      BY <1>2, <2>1, <3>2 DEF ServerRecords
    <3>4. l.sent = 0
      BY <1>1, <1>2 DEF Sound
    <3> QED
      BY <1>2, <1>6, <1>8, <2>3, <3>2, <3>3, <3>4 DEF Executes
  <2>6. Wires(client, r, server')
    BY <2>2, <2>3, <2>4, <2>5, WiresAfterServer
  <2>7. Spent(outcome, rv, client, r) /\ runs[k] < 2 /\ outcome[k] # "none"
    <3>1. \A j \in Calls : Serves(m, j) => j = k
      BY <1>4, <1>8
    <3> QED
      <4>1. Keeps(link[s], m) /\ Awaits(link[s], k) /\ Answering(m) /\ k \in Calls
        BY <1>4, <1>8
      <4>2. Wires(client, link, server) /\ Spent(outcome, runs, client, link)
        BY <2>2
      <4>3. rv = [runs EXCEPT ![k] = runs[k] + 1]
        BY DEF rv
      <4> QED
        <5>1. s \in 1..Len(link) /\ Len(r) = Len(link) /\ r[s] = m
              /\ \A t \in 1..Len(link) : t # s => r[t] = link[t]
          BY <1>2, <2>3
        <5> HIDE DEF l
        <5> QED
          BY <3>1, <4>1, <4>2, <4>3, <5>1, SpentAfterRun
  <2>8. runs' = rv /\ link' = r
    BY <1>5, <2>1 DEF r, rv
  <2>9. Right(outcome', runs', client', link', server')
    BY <1>1, <2>2, <2>6, <2>7, <2>8 DEF Right
  <2>10. Inv'
    BY <1>1, <2>9, ServerParts DEF Inv
  <2>11. Call!Run(k)
    BY <1>1, <2>1, <2>7 DEF Call!Run
  <2> QED
    BY <1>4, <2>10, <2>11 DEF CallStep, Call!Next
<1> QED
  BY <1>7, <1>8

-----------------------------------------------------------------------------
(* The death of the server's process, and of the call its command makes.   *)

\* A client that works on no call is made anew.
LEMMA RestingClient ==
    ASSUME NEW oc, NEW ru, NEW cl, NEW ln, NEW sv, Right(oc, ru, cl, ln, sv),
           NEW c \in Clients, cl[c].pc \notin {"setup", "work"},
           NEW o \in ClientRecords, o.pc \in {"idle", "crashed"}, o.call = 0,
           NEW r, Tends(cl, ln, r, cl[c].fd), o.fd \in {0, cl[c].fd}, Fits(o, r)
    PROVE  Right(oc, ru, [cl EXCEPT ![c] = o], r, sv)
<1> DEFINE el == [cl EXCEPT ![c] = o]
<1>1. Wires(cl, ln, sv) /\ Callers(oc, cl) /\ Spent(oc, ru, cl, ln)
  BY DEF Right
<1>2. /\ cl \in [Clients -> ClientRecords] /\ cl[c] \in ClientRecords
      /\ ln \in Seq(LinkRecords) /\ Len(ln) \in Nat /\ Len(ln) <= MaxSockets
      /\ cl[c].fd \in 0..Len(ln) /\ \A s \in 1..Len(ln) : Sound(ln[s])
      /\ oc \in [Calls -> {"none", "pending", "answered", "failed"}]
      /\ cl[c].call = 0
  BY RightParts
<1>3. r \in Seq(LinkRecords) /\ Len(r) = Len(ln) /\ Len(ln) <= Len(r)
      /\ Len(r) <= MaxSockets
      /\ \A s \in 1..Len(ln) : s # cl[c].fd => r[s] = ln[s]
  BY <1>2 DEF Tends
<1>4. /\ \A s \in 1..Len(ln) : r[s] = ln[s] \/ Touches(ln[s], r[s])
      /\ \A s \in 1..Len(r) : Sound(r[s])
      /\ \A s \in 1..Len(r), k \in Calls : Awaits(r[s], k) => s \in Due(cl, ln, k)
      /\ \A s \in 1..Len(r), k \in Calls : s > Len(ln) => ~Serves(r[s], k)
  <2>1. /\ \A s \in 1..Len(ln) : r[s] = ln[s] \/ Touches(ln[s], r[s])
        /\ \A s \in 1..Len(r) : Sound(r[s])
        /\ \A s \in 1..Len(ln), k \in Calls : Awaits(r[s], k) => s \in Due(cl, ln, k)
    BY <1>2, Tended
  <2>2. \A s \in 1..Len(r) : s \in 1..Len(ln) /\ ~(s > Len(ln))
    BY <1>2, <1>3
  <2> QED
    BY <2>1, <2>2
<1>5. Wires(el, r, sv)
  BY <1>1, <1>2, <1>3, <1>4, WiresAfterClient
<1>6. Callers(oc, el)
  <2>1. Numbered(oc) /\ Attends(o, oc)
    BY <1>1 DEF Callers, Attends
  <2> QED
    BY <1>1, <1>2, <2>1, CallersAfterClient
<1>7. Spent(oc, ru, el, r)
  BY <1>1, <1>3, <1>4, SpentAfterClient
<1> QED
  BY <1>5, <1>6, <1>7 DEF Right

\* The client's end of a connection is closed, what is under way being lost
\* or not.
LEMMA NearEnds ==
    ASSUME NEW l \in LinkRecords, Sound(l)
    PROVE  LET m == [l EXCEPT !.near = "closed"] IN
           /\ Touches(l, m) /\ \A k \in Calls : Awaits(m, k) => Awaits(l, k)
<1> DEFINE m == [l EXCEPT !.near = "closed"]
<1>1. /\ m \in LinkRecords /\ m.up = l.up /\ m.down = l.down /\ m.far = l.far
      /\ m.state = l.state /\ m.got = l.got /\ m.request = l.request
      /\ m.sent = l.sent
  BY DEF LinkRecords
<1> HIDE DEF m
<1>2. (Live(m) <=> Live(l)) /\ (Answering(m) <=> Answering(l))
  BY <1>1 DEF Live, Answering
<1>3. \A k : Carries(m, k) <=> Carries(l, k)
  BY <1>1 DEF Carries
<1>4. Sound(m)
  BY <1>1, <1>2, <1>3 DEF Sound
<1> QED
  BY <1>1, <1>2, <1>4 DEF Touches, Awaits, Serves, m

\* What becomes of the connections when the server's process dies.
CrashedLinks ==
    [s \in DOMAIN link |-> IF client[Nested].fd = s
                           THEN [AllFarClosed[s] EXCEPT !.near = "closed"]
                           ELSE AllFarClosed[s]]

LEMMA CrashedLinksTend ==
    ASSUME Inv
    PROVE  Tends(client, AllFarClosed, CrashedLinks, client[Nested].fd)
<1> DEFINE f == client[Nested].fd
           a == AllFarClosed
           m == [a[f] EXCEPT !.near = "closed"]
           r == CrashedLinks
<1>1. /\ a \in Seq(LinkRecords) /\ Len(a) = Len(link) /\ Len(link) \in Nat
      /\ DOMAIN link = 1..Len(link)
      /\ \A s \in 1..Len(link) : Sound(a[s]) /\ a[s] \in LinkRecords
  <2>1. /\ a \in Seq(LinkRecords) /\ Len(a) = Len(link)
        /\ \A s \in 1..Len(link) : a[s] = link[s] \/ Eases(link[s], a[s])
    BY AllFarClosedEases
  <2> QED
    BY <2>1, ServerParts DEF Eases, Keeps
<1>2. f \in 0..Len(link)
  BY ClientParts, RpcAssumption
<1> HIDE DEF f, a
<1>3. r = [s \in 1..Len(link) |-> IF f = s THEN [a[s] EXCEPT !.near = "closed"] ELSE a[s]]
  BY <1>1 DEF CrashedLinks, f, a
<1>4. ASSUME NEW s \in 1..Len(link)
      PROVE  r[s] \in LinkRecords /\ (s # f => r[s] = a[s]) /\ (s = f => r[s] = m)
  <2>1. [a[s] EXCEPT !.near = "closed"] \in LinkRecords
    BY <1>1, NearEnds DEF Touches
  <2> QED
    BY <1>1, <1>3, <2>1
<1>5. r \in Seq(LinkRecords) /\ Len(r) = Len(a)
  BY <1>1, <1>3, <1>4
<1>6. ASSUME f # 0
      PROVE  /\ Touches(a[f], r[f])
             /\ \A k \in Calls : Awaits(r[f], k) => f \in Due(client, a, k)
  <2>1. f \in 1..Len(link) /\ r[f] = m
    BY <1>2, <1>4, <1>6
  <2>2. Touches(a[f], m) /\ \A k \in Calls : Awaits(m, k) => Awaits(a[f], k)
    BY <1>1, <2>1, NearEnds
  <2> HIDE DEF m, r
  <2> QED
    BY <1>1, <2>1, <2>2 DEF Due
<1> HIDE DEF r
<1> QED
  BY <1>1, <1>4, <1>5, <1>6 DEF Tends, f, a, r

LEMMA ServerCrashKeeps ==
    ASSUME Inv, ServerCrash
    PROVE  Inv' /\ CallStep
<1> DEFINE o == client[Nested]
           k == o.call
           a == AllFarClosed
           r == CrashedLinks
           p == NewClient
<1>1. /\ server' = [server EXCEPT !.pc = "stopped", !.listening = FALSE,
                      !.inWork = FALSE, !.interrupted = FALSE, !.serving = 0]
      /\ link' = r /\ client' = [client EXCEPT ![Nested] = p]
      /\ outcome' = [j \in Calls |-> IF j = k THEN "failed" ELSE outcome[j]]
      /\ runs' = runs /\ answer' = answer
  BY DEF ServerCrash, CrashedLinks
<1>2. Nested \in Clients /\ 0 \in 0..MaxSockets /\ 0 \notin Calls
  BY RpcAssumption DEF Calls
<1>3. PICK tv : tv = server'
  OBVIOUS
<1>4. tv \in ServerRecords /\ tv.pc # "exec" /\ tv.serving = 0
  BY <1>1, <1>2, <1>3, ServerParts DEF ServerRecords
<1>5. p \in ClientRecords /\ p.pc = "idle" /\ p.call = 0 /\ p.fd = 0 /\ Fits(p, r)
  <2>1. [NewClient EXCEPT !.pc = "idle"] = p
    BY DEF NewClient
  <2> QED
    BY <2>1, CrashedFits
<1>6. Tends(client, a, r, o.fd)
  BY CrashedLinksTend
<1>7. Right(outcome, runs, client, a, tv)
  <2>1. /\ a \in Seq(LinkRecords) /\ Len(a) = Len(link)
        /\ \A s \in 1..Len(link) : a[s] = link[s] \/ Eases(link[s], a[s])
    BY AllFarClosedEases
  <2> HIDE DEF a
  <2>2. Executes(tv, a)
    BY <1>4, NotServing
  <2> QED
    BY <1>4, <2>1, <2>2, ServerParts, EasedKeeps
<1> HIDE DEF a, r, p
<1>8. outcome \in [Calls -> {"none", "pending", "answered", "failed"}]
  BY <1>2, ClientParts
<1>9. CASE o.pc \in {"setup", "work"}
  <2>1. k \in Calls /\ outcome[k] = "pending"
    BY <1>2, <1>9, ClientParts
  <2>2. Right([outcome EXCEPT ![k] = "failed"], runs, [client EXCEPT ![Nested] = p], r, tv)
    BY <1>2, <1>5, <1>6, <1>7, <1>9, EndedClient
  <2>3. outcome' = [outcome EXCEPT ![k] = "failed"]
    BY <1>1, <1>8
  <2>4. Right(outcome', runs', client', link', server')
    BY <1>1, <1>3, <2>2, <2>3
  <2>5. Call!Failed(k)
    BY <1>1, <2>1, <2>3 DEF Call!Failed
  <2> QED
    BY <1>1, <2>1, <2>4, <2>5, ServerParts DEF Inv, CallStep, Call!Next
<1>10. CASE o.pc \notin {"setup", "work"}
  <2>1. k = 0
    BY <1>2, <1>10, ClientParts
  <2>2. Right(outcome, runs, [client EXCEPT ![Nested] = p], r, tv)
    BY <1>2, <1>5, <1>6, <1>7, <1>10, RestingClient
  <2>3. outcome' = outcome
    BY <1>1, <1>2, <1>8, <2>1
  <2>4. Right(outcome', runs', client', link', server')
    BY <1>1, <1>3, <2>2, <2>3
  <2> QED
    BY <1>1, <2>3, <2>4, ServerParts DEF Inv, CallStep, callVars
<1> QED
  BY <1>9, <1>10

-----------------------------------------------------------------------------
(* The theorems.                                                           *)

LEMMA InitInv ==
    ASSUME Init
    PROVE  Inv
<1>1. /\ 0 \in 0..MaxSockets /\ 0 \in 0..MaxCalls /\ 0 \in 0..Size /\ 1 \in 1..MaxStarts
      /\ MaxCalls \in Nat /\ MaxSockets \in Nat
  BY RpcAssumption
<1>2. /\ NewClient \in ClientRecords /\ NewClient.fd = 0 /\ NewClient.pc = "idle"
      /\ NewClient.call = 0 /\ NewClient.state = "NO_CONNECTION"
  BY <1>1 DEF NewClient, ClientRecords
<1>3. NewServer \in ServerRecords /\ NewServer.pc = "loop" /\ NewServer.serving = 0
  BY <1>1 DEF NewServer, ServerRecords
<1>4. /\ link = <<>> /\ server = NewServer /\ client = [c \in Clients |-> NewClient]
      /\ outcome = [k \in Calls |-> "none"] /\ runs = [k \in Calls |-> 0]
      /\ answer = [k \in Calls |-> 0]
  BY DEF Init
<1>5. link \in Seq(LinkRecords) /\ Len(link) = 0 /\ 1..Len(link) = {}
  BY <1>4
<1>6. \A c \in Clients : client[c] = NewClient
  BY <1>4
<1>7. Wires(client, link, server)
  <2>1. client \in [Clients -> ClientRecords]
    BY <1>2, <1>4
  <2>2. \A c \in Clients : Fits(client[c], link)
    BY <1>2, <1>6 DEF Fits
  <2>3. Executes(server, link)
    BY <1>3, <1>4, NotServing
  <2>4. Len(link) <= MaxSockets
    BY <1>1, <1>5
  <2> QED
    BY <1>2, <1>3, <1>4, <1>5, <1>6, <2>1, <2>2, <2>3, <2>4 DEF Wires
<1>8. Callers(outcome, client)
  <2>1. \A k \in Calls : ~(k <= 0)
    BY DEF Calls
  <2>2. Numbered(outcome)
    BY <1>1, <1>4, <2>1 DEF Numbered
  <2>3. \A c \in Clients : Attends(client[c], outcome)
    BY <1>2, <1>6 DEF Attends
  <2> QED
    BY <1>2, <1>4, <1>6, <2>2, <2>3 DEF Callers
<1>9. Spent(outcome, runs, client, link)
  <2>1. ASSUME NEW k \in Calls
        PROVE  Within(runs[k], Due(client, link, k), Spare(outcome, client, k))
    <3>1. Due(client, link, k) = {}
      BY <1>5 DEF Due
    <3>2. Cardinality(Due(client, link, k)) = 0
      BY <3>1, FS_EmptySet
    <3>3. Spare(outcome, client, k) = 2 /\ runs[k] = 0
      BY <1>4 DEF Spare
    <3> QED
      BY <3>2, <3>3 DEF Within
  <2> QED
    BY <1>4, <1>5, <2>1 DEF Spent
<1>10. answer \in [Calls -> 0..MaxCalls]
  BY <1>1, <1>4
<1> QED
  BY <1>7, <1>8, <1>9, <1>10 DEF Inv, Right

LEMMA ServerKeeps ==
    ASSUME Inv, ServerStep \/ Interrupt \/ ServerCrash
    PROVE  Inv' /\ CallStep
<1>1. CASE \E s \in Sockets : Handle(s)
  BY <1>1, AcceptKeeps, ReadRequestKeeps, RequestEndsKeeps, WriteResponseKeeps DEF Handle
<1> QED
  BY <1>1, LoopKeeps, StopKeeps, CommandEndsKeeps, ServerCrashKeeps DEF ServerStep

LEMMA StepKeeps ==
    ASSUME Inv, [Next]_vars
    PROVE  Inv' /\ CallStep
<1>1. CASE UNCHANGED vars
  <2>1. /\ outcome' = outcome /\ runs' = runs /\ answer' = answer
        /\ client' = client /\ link' = link /\ server' = server
    BY <1>1 DEF vars
  <2>2. Right(outcome', runs', client', link', server')
    BY <2>1 DEF Inv
  <2> QED
    BY <2>1, <2>2 DEF Inv, CallStep, callVars
<1>2. CASE Next
  BY <1>2, ClientKeeps, ServerKeeps DEF Next
<1> QED
  BY <1>1, <1>2

LEMMA Invariance == Spec => []Inv
<1>1. Init => Inv
  BY InitInv
<1>2. Inv /\ [Next]_vars => Inv'
  BY StepKeeps
<1> QED
  BY <1>1, <1>2, PTL DEF Spec

\* A connection has one owner at the most.
LEMMA OneOwner ==
    ASSUME Inv, NEW s \in 1..Len(link)
    PROVE  Cardinality({c \in Clients : client[c].fd = s}) <= 1
<1> DEFINE O == {c \in Clients : client[c].fd = s}
<1>1. \A c, d \in O : c = d
  BY ServerParts DEF Right, Wires
<1>2. CASE O = {}
  BY <1>2, FS_EmptySet
<1>3. CASE O # {}
  <2>1. PICK c : c \in O
    BY <1>3
  <2>2. O = {c}
    BY <1>1, <2>1
  <2> HIDE DEF O
  <2>3. Cardinality(O) = 1
    BY <2>2, FS_Singleton
  <2> QED
    BY <2>3 DEF O
<1> QED
  BY <1>2, <1>3

LEMMA InvType ==
    ASSUME Inv
    PROVE  TypeOK
<1>1. /\ server \in ServerRecords /\ Executes(server, link)
      /\ link \in Seq(LinkRecords) /\ Len(link) \in Nat /\ DOMAIN link = 1..Len(link)
      /\ \A s \in 1..Len(link) : Sound(link[s]) /\ link[s] \in LinkRecords
      /\ client \in [Clients -> ClientRecords]
      /\ answer \in [Calls -> 0..MaxCalls]
  BY ServerParts
<1>2. outcome \in [Calls -> {"none", "pending", "answered", "failed"}]
      /\ runs \in [Calls -> Nat]
  BY ServerParts DEF Right, Callers, Spent
<1>3. ASSUME NEW s \in DOMAIN link
      PROVE  /\ Len(link[s].up) <= Size /\ Len(link[s].down) <= Size
             /\ Cardinality({c \in Clients : client[c].fd = s}) <= 1
  <2>1. s \in 1..Len(link) /\ Sound(link[s]) /\ link[s] \in LinkRecords
    BY <1>1
  <2> DEFINE l == link[s]
  <2>2. /\ Len(l.up) \in Nat /\ Len(l.down) \in Nat /\ l.got \in Nat /\ l.sent \in Nat
        /\ Size \in Nat
    BY <2>1, LinkFields
  <2>3. Len(l.up) <= Size /\ Len(l.down) <= Size
    BY <2>1, <2>2 DEF Sound
  <2> QED
    BY <2>1, <2>3, OneOwner
<1>4. ASSUME NEW c \in Clients
      PROVE  /\ client[c].fd \in DOMAIN link \cup {0}
             /\ client[c].fd # 0 => link[client[c].fd].near = "open"
             /\ client[c].pc = "work" => client[c].fd # 0
  BY <1>1, ClientParts DEF Fits, Owns
<1>5. (server.pc = "exec") <=> (server.serving # 0)
  BY <1>1 DEF Executes
<1> QED
  BY <1>1, <1>2, <1>3, <1>4, <1>5
     DEF TypeOK, ClientRecords, LinkRecords, ServerRecords

(* Type correctness: a connection never carries more than a message either *)
(* way, it has one owner at most and the owner's end is open, and          *)
(* the server executes a request exactly while it serves a connection,     *)
(* for XmlRpcClient, XmlRpcServerConnection and XmlRpcServer::work.        *)
THEOREM TypeCorrect == Spec => []TypeOK
<1>1. Inv => TypeOK
  BY InvType
<1> QED
  BY <1>1, Invariance, PTL

(* The calls of execute() are those RpcCall promises: each returns once,   *)
(* an answered one was executed and has its own answer, and none is        *)
(* executed more than twice, whatever connections are lost, whenever a     *)
(* client gives up, and whenever the server stops or dies.                 *)
THEOREM CallImplemented == Spec => ImplementsRpcCall
<1>1. Init => Call!Init
  BY DEF Init, Call!Init
<1>2. Inv /\ [Next]_vars => [Call!Next]_(Call!vars)
  BY StepKeeps DEF CallStep, Call!vars, callVars
<1> QED
  BY <1>1, <1>2, Invariance, PTL DEF Spec, ImplementsRpcCall, Call!Spec

\* What a caller of execute() may rely on.
Kept ==
    \A k \in Calls :
        /\ runs[k] <= 2
        /\ outcome[k] = "none" => runs[k] = 0
        /\ outcome[k] = "answered" => runs[k] > 0 /\ answer[k] = k

(* A call that returned true was executed, once or twice, and has the      *)
(* answer to itself; one that was not made yet was not executed.           *)
THEOREM AnswersAreOwn == Spec => []Kept
<1>1. Init => Kept
  BY DEF Init, Kept
<1>2. ASSUME Inv, Kept, [Next]_vars
      PROVE  Kept'
  <2>1. CallStep
    BY <1>2, StepKeeps
  <2>2. /\ outcome \in [Calls -> {"none", "pending", "answered", "failed"}]
        /\ runs \in [Calls -> Nat] /\ answer \in [Calls -> 0..MaxCalls]
    BY <1>2, ServerParts DEF Right, Callers, Spent
  <2>3. CASE UNCHANGED callVars
    BY <1>2, <2>3 DEF Kept, callVars
  <2>4. ASSUME NEW k \in Calls, Call!Issue(k) \/ Call!Failed(k)
        PROVE  Kept'
    BY <1>2, <2>2, <2>4 DEF Kept, Call!Issue, Call!Failed
  <2>5. ASSUME NEW k \in Calls, Call!Answered(k)
        PROVE  Kept'
    BY <1>2, <2>2, <2>5 DEF Kept, Call!Answered
  <2>6. ASSUME NEW k \in Calls, Call!Run(k)
        PROVE  Kept'
    BY <1>2, <2>2, <2>6 DEF Kept, Call!Run
  <2> QED
    BY <2>1, <2>3, <2>4, <2>5, <2>6 DEF CallStep, Call!Next
<1>3. Inv /\ Kept /\ [Next]_vars => Kept'
  BY <1>2
<1> QED
  BY <1>1, <1>3, Invariance, PTL DEF Spec
=============================================================================
