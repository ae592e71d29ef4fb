-------------------------------- MODULE Rpc --------------------------------
(***************************************************************************)
(* Remote calls: XmlRpcClient, XmlRpcServer with its connections, the      *)
(* event loop XmlRpcDispatch under both, and how src/src/mkt/xmlrpc.cpp    *)
(* uses them (exec_remote, the server thread, the method mkt_exec).        *)
(*                                                                         *)
(* A message (request or response) is Size pieces, the first Header of     *)
(* them its HTTP header; a piece is the number of its call.  A TCP         *)
(* connection carries pieces in order, any number of them at a time, and   *)
(* loses those that are under way when an end is closed.  A client runs    *)
(* one call at a time; the server is one thread that serves all its        *)
(* connections and runs commands itself.  A command run by the server may  *)
(* make a remote call to the same server, by the client Nested.            *)
(***************************************************************************)
EXTENDS Naturals, Sequences, FiniteSets

CONSTANTS Clients,    \* the client objects, each used by one thread
          Fresh,      \* those made anew for each call, as exec_remote does
          Nested,     \* the client of the command the server is running
          Header, Size, \* the pieces of a header, and of a whole message
          MaxCalls,   \* bound: calls issued in all
          MaxSockets, \* the descriptors there are for connections
          MaxStarts   \* bound: server threads started in all

ASSUME RpcAssumption ==
    /\ Fresh \subseteq Clients /\ Nested \in Fresh
    /\ Header \in Nat \ {0} /\ Size \in Nat /\ Header < Size
    /\ {MaxCalls, MaxSockets} \subseteq Nat /\ MaxStarts \in Nat \ {0}

Calls == 1..MaxCalls
Sockets == 1..MaxSockets

VARIABLES outcome, runs, answer, \* of each call, as in RpcCall
          client,     \* the client objects
          link,       \* the TCP connections made, in order; a connection
                      \* also holds the XmlRpcServerConnection at its end
          server      \* the server thread and its XmlRpcServer

callVars == <<outcome, runs, answer>>
vars == <<outcome, runs, answer, client, link, server>>

NewClient ==
    [pc |-> "idle", state |-> "NO_CONNECTION", fd |-> 0, eof |-> FALSE,
     call |-> 0, attempts |-> 0, written |-> 0, got |-> 0, from |-> 0]

NewServer ==
    [pc |-> "loop", listening |-> TRUE, inWork |-> FALSE, doClear |-> FALSE,
     interrupted |-> FALSE, serving |-> 0, starts |-> 1]

TypeOK ==
    /\ outcome \in [Calls -> {"none", "pending", "answered", "failed"}]
    /\ runs \in [Calls -> Nat]
    /\ answer \in [Calls -> 0..MaxCalls]
    /\ client \in [Clients ->
         [pc : {"idle", "setup", "work", "crashed"},
          state : {"NO_CONNECTION", "WRITE_REQUEST", "READ_HEADER",
                   "READ_RESPONSE", "IDLE"},
          fd : 0..MaxSockets, eof : BOOLEAN, call : 0..MaxCalls,
          attempts : {0, 1}, written : 0..Size, got : 0..Size,
          from : 0..MaxCalls]]
    /\ link \in Seq(
         [near : {"open", "closed"},
          far : {"backlog", "open", "closed", "refused"},
          up : Seq(Calls), down : Seq(Calls),
          state : {"READ_HEADER", "READ_REQUEST", "WRITE_RESPONSE"},
          got : 0..Size, request : 0..MaxCalls, sent : 0..Size])
    /\ \A s \in DOMAIN link :
         /\ Len(link[s].up) <= Size /\ Len(link[s].down) <= Size
         /\ Cardinality({c \in Clients : client[c].fd = s}) <= 1
    /\ \A c \in Clients :
         /\ client[c].fd \in DOMAIN link \cup {0}
         /\ client[c].fd # 0 => link[client[c].fd].near = "open"
         /\ client[c].pc = "work" => client[c].fd # 0
    /\ server \in
         [pc : {"loop", "work", "exec", "stopped"}, listening : BOOLEAN,
          inWork : BOOLEAN, doClear : BOOLEAN, interrupted : BOOLEAN,
          serving : 0..MaxSockets, starts : 1..MaxStarts]
    /\ (server.pc = "exec") <=> (server.serving # 0)

Init ==
    /\ outcome = [k \in Calls |-> "none"]
    /\ runs = [k \in Calls |-> 0]
    /\ answer = [k \in Calls |-> 0]
    /\ client = [c \in Clients |-> NewClient]
    /\ link = <<>>
    /\ server = NewServer

----------------------------------------------------------------------------
(* The client.  A call is one execute(): set up, work, return.             *)

Pieces(k, n) == [i \in 1..n |-> k]

Issued == Cardinality({k \in Calls : outcome[k] # "none"})

\* exec_remote makes a client and drops it after the call; its destructor
\* closes nothing, so the old connection stays open without an owner.
Execute(c) ==
    /\ client[c].pc = "idle"
    /\ Issued < MaxCalls
    /\ c = Nested => server.pc = "exec"
    /\ outcome' = [outcome EXCEPT ![Issued + 1] = "pending"]
    /\ client' = [client EXCEPT ![c] =
         [(IF c \in Fresh THEN NewClient ELSE @)
          EXCEPT !.pc = "setup", !.call = Issued + 1, !.attempts = 0]]
    /\ UNCHANGED <<runs, answer, link, server>>

\* execute() returns false, the client object being in the state o.
Fails(c, o) ==
    /\ outcome' = [outcome EXCEPT ![o.call] = "failed"]
    /\ client' = [client EXCEPT ![c] = [o EXCEPT !.pc = "idle", !.call = 0]]
    /\ UNCHANGED <<runs, answer>>

\* close() of the client's end of connection s (0: there is none).
NearClosed(s) ==
    IF s = 0 THEN link
    ELSE [link EXCEPT ![s].near = "closed", ![s].down = <<>>]

\* doConnect after links became l: connect() returns before the connection
\* stands, so that a port nobody listens on is noticed only by a write.
Connects(c, l, attempts) ==
    /\ Len(l) < MaxSockets
    /\ link' = Append(l,
         [near |-> "open",
          far |-> IF server.listening THEN "backlog" ELSE "refused",
          up |-> <<>>, down |-> <<>>, state |-> "READ_HEADER",
          got |-> 0, request |-> 0, sent |-> 0])
    /\ client' = [client EXCEPT ![c] =
         [@ EXCEPT !.pc = "work", !.state = "WRITE_REQUEST", !.eof = FALSE,
                   !.written = 0, !.fd = Len(l) + 1, !.attempts = attempts]]
    /\ UNCHANGED callVars

\* Mutant: the descriptor that was closed is kept.
NotConnectedKeepsFd(o) == [o EXCEPT !.state = "NO_CONNECTION", !.eof = FALSE]

NotConnected(o) ==
    [o EXCEPT !.state = "NO_CONNECTION", !.fd = 0, !.eof = FALSE]

\* Mutant: only the end of the connection is looked at.
LeftOverEof(o) == o.eof

\* What an earlier call left unfinished is closed before this one starts.
LeftOver(o) == o.state \notin {"NO_CONNECTION", "IDLE"} \/ o.eof

\* setupConnection; doConnect may fail, always when descriptors ran out.
Setup(c) ==
    LET o == client[c] IN
    /\ o.pc = "setup"
    /\ \/ /\ ~LeftOver(o) /\ o.state # "NO_CONNECTION"
          /\ client' = [client EXCEPT ![c] =
               [@ EXCEPT !.pc = "work", !.state = "WRITE_REQUEST",
                         !.written = 0]]
          /\ UNCHANGED <<outcome, runs, answer, link>>
       \/ /\ LeftOver(o) \/ o.state = "NO_CONNECTION"
          /\ \/ Connects(c, NearClosed(o.fd), 0)
             \/ Fails(c, NotConnected(o)) /\ link' = NearClosed(o.fd)
    /\ UNCHANGED server

Link(c) == link[client[c].fd]

\* writeRequest: what is sent to an end that was closed is lost.
WriteRequest(c) ==
    LET o == client[c] IN
    /\ o.pc = "work" /\ o.state = "WRITE_REQUEST"
    /\ Link(c).far # "refused"
    /\ \E n \in 1..(Size - o.written) :
         /\ client' = [client EXCEPT ![c] =
              [o EXCEPT !.written = o.written + n,
                        !.state = IF o.written + n = Size
                                  THEN "READ_HEADER" ELSE o.state,
                        !.got = 0, !.from = 0]]
         /\ link' = IF Link(c).far = "closed" THEN link
                    ELSE [link EXCEPT ![o.fd].up = @ \o Pieces(o.call, n)]
    /\ UNCHANGED <<outcome, runs, answer, server>>

\* The write fails: the loop stops monitoring its only source and returns.
WriteRequestFails(c) ==
    LET o == client[c] IN
    /\ o.pc = "work" /\ o.state = "WRITE_REQUEST"
    /\ Link(c).far \in {"refused", "closed"}
    /\ Fails(c, o)
    /\ UNCHANGED <<link, server>>

\* readHeader and readResponse: n pieces arrive, and with the last of them
\* perhaps the end of the connection, which matters to the next call only.
ReadResponse(c) ==
    LET o == client[c] IN
    /\ o.pc = "work" /\ o.state \in {"READ_HEADER", "READ_RESPONSE"}
    /\ \E n \in 1..Len(Link(c).down) : \E eof \in BOOLEAN :
         LET done == o.got + n = Size
             from == Head(Link(c).down)
         IN /\ eof => n = Len(Link(c).down) /\ Link(c).far = "closed" /\ done
            /\ link' = [link EXCEPT ![o.fd].down =
                          SubSeq(@, n + 1, Len(@))]
            /\ client' = [client EXCEPT ![c] =
                 [o EXCEPT !.pc = IF done THEN "idle" ELSE o.pc,
                           !.state = IF done THEN "IDLE"
                                     ELSE IF o.got + n < Header
                                          THEN "READ_HEADER"
                                          ELSE "READ_RESPONSE",
                           !.eof = eof, !.got = o.got + n, !.from = from,
                           !.call = IF done THEN 0 ELSE o.call]]
            /\ outcome' = IF done
                          THEN [outcome EXCEPT ![o.call] = "answered"]
                          ELSE outcome
            /\ answer' = IF done THEN [answer EXCEPT ![o.call] = from]
                         ELSE answer
    /\ UNCHANGED <<runs, server>>

\* The process of c dies: the kernel closes its connections.
Crash(c) ==
    /\ outcome' = [outcome EXCEPT ![client[c].call] = "failed"]
    /\ client' = [client EXCEPT ![c] = [NewClient EXCEPT !.pc = "crashed"]]
    /\ link' = NearClosed(client[c].fd)
    /\ UNCHANGED <<runs, answer>>

\* A connection that ended before anything was read is made anew once.
MayRetry(o) == o.state = "READ_HEADER" /\ o.got = 0 /\ o.attempts = 0

\* The end or a reset of the connection with nothing left to read.  When the
\* new connection cannot be made, close() has removed the source from the
\* list the loop is going through, and the loop erases it again: the process
\* may die of that, or the call fails.
ResponseEnds(c) ==
    LET o == client[c] IN
    /\ o.pc = "work" /\ o.state \in {"READ_HEADER", "READ_RESPONSE"}
    /\ Link(c).far = "closed" /\ Link(c).down = <<>>
    /\ \/ /\ MayRetry(o)
          /\ \/ Connects(c, NearClosed(o.fd), 1)
             \/ Fails(c, NotConnected(o)) /\ link' = NearClosed(o.fd)
             \/ Crash(c)
       \/ /\ ~MayRetry(o)
          /\ \E eof \in BOOLEAN : Fails(c, [o EXCEPT !.eof = eof])
          /\ UNCHANGED link
    /\ UNCHANGED server

\* Mutant: the time is looked at only after something was read.
WorkTimesOutAfterRead(c) ==
    /\ client[c].pc = "work" /\ client[c].got > 0
    /\ Fails(c, client[c])
    /\ UNCHANGED <<link, server>>

\* work() returns at its end time, with whatever the call has got so far.
WorkTimesOut(c) ==
    /\ client[c].pc = "work"
    /\ Fails(c, client[c])
    /\ UNCHANGED <<link, server>>

ClientStep(c) ==
    \/ Setup(c) \/ WriteRequest(c) \/ WriteRequestFails(c)
    \/ ReadResponse(c) \/ ResponseEnds(c) \/ WorkTimesOut(c)

----------------------------------------------------------------------------
(* The server thread.                                                      *)

\* A server's end is closed; what the client has not read may be lost.
FarClosed(s) ==
    {[link EXCEPT ![s].far = "closed", ![s].up = <<>>, ![s].down = d,
                  ![s].state = "READ_HEADER", ![s].got = 0,
                  ![s].request = 0, ![s].sent = 0] :
       d \in {link[s].down, <<>>}}

AllFarClosed ==
    [s \in DOMAIN link |->
       IF link[s].far \in {"backlog", "open"}
       THEN [link[s] EXCEPT !.far = "closed", !.up = <<>>, !.down = <<>>,
                            !.state = "READ_HEADER", !.got = 0,
                            !.request = 0, !.sent = 0]
       ELSE link[s]]

\* XmlRpcDispatch::clear, from shutdown(): inside work() it only asks the
\* loop to close everything.
Clear(srv) ==
    IF srv.inWork
    THEN /\ server' = [srv EXCEPT !.doClear = TRUE]
         /\ UNCHANGED link
    ELSE /\ server' = [srv EXCEPT !.listening = FALSE]
         /\ link' = AllFarClosed

\* The thread is asked to end: exit, interrupt, ctrl-C.
Interrupt ==
    /\ server.pc # "stopped" /\ ~server.interrupted
    /\ server' = [server EXCEPT !.interrupted = TRUE]
    /\ UNCHANGED <<outcome, runs, answer, client, link>>

Work ==
    /\ server.pc = "loop" /\ ~server.interrupted
    /\ server' = [server EXCEPT !.pc = "work", !.inWork = TRUE,
                                !.doClear = FALSE]
    /\ UNCHANGED <<outcome, runs, answer, client, link>>

WorkEnds ==
    /\ server.pc = "work"
    /\ server' = [server EXCEPT !.pc = "loop", !.inWork = FALSE]
    /\ UNCHANGED <<outcome, runs, answer, client, link>>

Shutdown ==
    /\ server.pc = "loop" /\ server.interrupted
    /\ Clear([server EXCEPT !.pc = "stopped", !.interrupted = FALSE])
    /\ UNCHANGED <<outcome, runs, answer, client>>

\* The process of the server dies, with the call its command was making.
ServerCrash ==
    /\ server.pc # "stopped" /\ server.starts < MaxStarts
    /\ server' = [server EXCEPT !.pc = "stopped", !.listening = FALSE,
                    !.inWork = FALSE, !.interrupted = FALSE, !.serving = 0]
    /\ link' = [s \in DOMAIN link |->
                  IF client[Nested].fd = s
                  THEN [AllFarClosed[s] EXCEPT !.near = "closed"]
                  ELSE AllFarClosed[s]]
    /\ client' = [client EXCEPT ![Nested] = NewClient]
    /\ outcome' = [k \in Calls |-> IF k = client[Nested].call
                                   THEN "failed" ELSE outcome[k]]
    /\ UNCHANGED <<runs, answer>>

\* The command "server" again; bindAndListen fails while the port is held.
Start ==
    /\ server.pc = "stopped" /\ ~server.listening
    /\ server.starts < MaxStarts
    /\ server' = [NewServer EXCEPT !.starts = server.starts + 1]
    /\ UNCHANGED <<outcome, runs, answer, client, link>>

\* handleEvent of the listening socket.
Accept(s) ==
    /\ server.pc = "work" /\ server.listening
    /\ s \in DOMAIN link /\ link[s].far = "backlog"
    /\ \A t \in 1..(s - 1) : link[t].far # "backlog"
    /\ link' = [link EXCEPT ![s].far = "open"]
    /\ UNCHANGED <<outcome, runs, answer, client, server>>

Serving(s) == server.pc = "work" /\ s \in DOMAIN link /\ link[s].far = "open"

\* readHeader and readRequest; with the whole request there, the same event
\* starts to execute it, and the thread does nothing else until that ends.
ReadRequest(s) ==
    LET l == link[s] IN
    /\ Serving(s) /\ l.state \in {"READ_HEADER", "READ_REQUEST"}
    /\ \E n \in 1..Len(l.up) :
         LET k == Head(l.up)
             got == l.got + n
             whole == got = Size
         IN /\ got <= Size
            /\ link' = [link EXCEPT ![s] =
                 [l EXCEPT !.up = SubSeq(l.up, n + 1, Len(l.up)), !.got = got,
                           !.request = k,
                           !.state = IF whole THEN "WRITE_RESPONSE"
                                     ELSE IF got < Header THEN "READ_HEADER"
                                     ELSE "READ_REQUEST"]]
            /\ runs' = IF whole THEN [runs EXCEPT ![k] = @ + 1] ELSE runs
            /\ server' = IF whole
                         THEN [server EXCEPT !.pc = "exec", !.serving = s]
                         ELSE server
    /\ UNCHANGED <<outcome, answer, client>>

\* The client's end was closed, with a request unfinished or none begun.
RequestEnds(s) ==
    /\ Serving(s) /\ link[s].state \in {"READ_HEADER", "READ_REQUEST"}
    /\ link[s].up = <<>> /\ link[s].near = "closed"
    /\ link' \in FarClosed(s)
    /\ UNCHANGED <<outcome, runs, answer, client, server>>

\* Mutant: the connection is not set to read the next request.
WrittenKeepsState(s, n) ==
    LET l == link[s] IN
    [link EXCEPT ![s] =
       [l EXCEPT !.down = IF l.near = "closed" THEN @
                          ELSE @ \o Pieces(l.request, n),
                 !.sent = @ + n]]

\* writeResponse of n pieces; after the last the next request is awaited.
Written(s, n) ==
    LET l == link[s]
        sent == l.sent + n
    IN [link EXCEPT ![s] =
          [l EXCEPT !.down = IF l.near = "closed" THEN l.down
                             ELSE l.down \o Pieces(l.request, n),
                    !.sent = IF sent = Size THEN 0 ELSE sent,
                    !.got = IF sent = Size THEN 0 ELSE l.got,
                    !.request = IF sent = Size THEN 0 ELSE l.request,
                    !.state = IF sent = Size THEN "READ_HEADER" ELSE l.state]]

\* The command returned or threw a mkt::exception: either is a response.
CommandEnds ==
    /\ server.pc = "exec" /\ client[Nested].pc = "idle"
    /\ LET s == server.serving IN
         \/ \E n \in 0..Size : link' = Written(s, n)
         \/ link[s].near = "closed" /\ link' \in FarClosed(s)
    /\ server' = [server EXCEPT !.pc = "work", !.serving = 0]
    /\ UNCHANGED <<outcome, runs, answer, client>>

\* It threw something else, an interruption for one: work() is left by the
\* exception and still counts as running when shutdown() is called.
CommandThrows ==
    /\ server.pc = "exec" /\ client[Nested].pc = "idle"
    /\ Clear([server EXCEPT !.pc = "stopped", !.serving = 0,
                            !.interrupted = FALSE])
    /\ UNCHANGED <<outcome, runs, answer, client>>

WriteResponse(s) ==
    /\ Serving(s) /\ link[s].state = "WRITE_RESPONSE"
    /\ \/ \E n \in 1..(Size - link[s].sent) : link' = Written(s, n)
       \/ link[s].near = "closed" /\ link' \in FarClosed(s)
    /\ UNCHANGED <<outcome, runs, answer, client, server>>

Handle(s) ==
    Accept(s) \/ ReadRequest(s) \/ RequestEnds(s) \/ WriteResponse(s)

ServerStep ==
    \/ Work \/ WorkEnds \/ Shutdown \/ Start \/ CommandEnds \/ CommandThrows
    \/ \E s \in Sockets : Handle(s)

Next ==
    \/ \E c \in Clients : Execute(c) \/ ClientStep(c)
    \/ ServerStep
    \/ Interrupt \/ ServerCrash

Spec == Init /\ [][Next]_vars

(* A client's thread goes on, and the clock with it.  The loop of the      *)
(* server passes over all its sources in each round, so each event is      *)
(* handled again and again as long as it is there.  A command ends.        *)
FairSpec ==
    /\ Spec
    /\ \A c \in Clients : WF_vars(ClientStep(c))
    /\ WF_vars(Work \/ Shutdown \/ CommandEnds)
    /\ \A s \in Sockets : SF_vars(Handle(s))

----------------------------------------------------------------------------
(* Properties.                                                             *)

(* Every call returns, or its process has died in the retry: whoever is    *)
(* busy, gone or waiting for the caller itself, work() has an end time.    *)
CallsReturn ==
    \A c \in Clients :
        client[c].pc = "setup" ~> client[c].pc \in {"idle", "crashed"}

(* What a client has sent to a server that goes on is read: no connection  *)
(* of the server is starved by the others, and one that has answered a     *)
(* request is ready for the next.                                          *)
Unread(s) ==
    /\ s \in DOMAIN link
    /\ link[s].far \in {"backlog", "open"} /\ link[s].up # <<>>
    /\ server.pc # "stopped"

RequestsAreRead == \A s \in Sockets : Unread(s) ~> ~Unread(s)

(* Each call is issued and returns once, is answered by its own answer and *)
(* only if it was executed, and is executed twice at the most: once for    *)
(* each of the two times its request may be sent.                          *)
Call == INSTANCE RpcCall WITH
          Calls <- Calls, MaxRuns <- 2,
          outcome <- outcome, runs <- runs, answer <- answer

ImplementsRpcCall == Call!Spec
=============================================================================
