-------------------------------- MODULE Xml --------------------------------
(***************************************************************************)
(* What a remote call carries: an argument built with the operations of    *)
(* XmlRpcValue, sent in a request (XmlRpcClient), read and executed by the *)
(* server (XmlRpcServerConnection, the built-in methods of XmlRpcServer,   *)
(* mkt_exec), and the result, or a fault, sent back and used by the caller *)
(* (exec_remote).  Module XmlText has the encodings.                       *)
(*                                                                         *)
(* Names and fixed texts are words with a number.  The method Same stands  *)
(* for one of a user of the library that gives back its argument.          *)
(***************************************************************************)
EXTENDS XmlText

CONSTANTS Leaves,    \* the scalar values an argument may be
          Items,     \* those that are put into arrays and structs
          Names,     \* the member names used, texts
          Outputs,   \* what a command may leave in its variable "_", texts
          MaxItems,  \* bound: the items of an array or struct
          MaxDepth   \* bound: how deep values are nested

ASSUME XmlAssumption == MaxItems \in Nat /\ MaxDepth \in Nat

VARIABLES step,    \* "build", "request", "response", "done" or "lost"
          value,   \* the argument
          method,  \* the method called
          calls,   \* the calls of a multicall
          wire,    \* the message under way
          ran,     \* what the command did on the server
          result   \* what the caller gets

vars == <<step, value, method, calls, wire, ran, result>>

Same == <<Word, 1>>
MktExec == <<Word, 2>>
ListMethods == <<Word, 3>>
MethodHelp == <<Word, 4>>
MultiCall == <<Word, 5>>
Other == <<Word, 6>>
Found == <<MktExec, Same, ListMethods, MethodHelp>>  \* the map _methods
Methods == Range(Found) \cup {MultiCall, Other}

Success == <<Word, 7>>
Error == <<Word, 8>>
Help == <<Word, 9>>
FaultCode == <<Word, 10>>
FaultString == <<Word, 11>>
MethodName == <<Word, 12>>
MethodParams == <<Word, 13>>

String(text) == Scalar("string", text)
Outcome(kind, got) == [kind |-> kind, value |-> got]
Nothing == Outcome("none", Invalid)

RECURSIVE Depth(_)
Depth(v) ==
    IF v.type \notin {"array", "struct"} THEN 0
    ELSE 1 + Max({0} \cup {Depth(v.items[i]) : i \in DOMAIN v.items})

TypeOK ==
    /\ step \in {"build", "request", "response", "done", "lost"}
    /\ method \in Methods
    /\ Depth(value) <= MaxDepth
    /\ Len(value.items) <= MaxItems
    /\ value.type = "struct" => IsInjective(value.names)
    /\ DOMAIN value.names = IF value.type = "struct"
                            THEN DOMAIN value.items ELSE {}
    /\ ran.kind \in {"none", "returned", "error"}
    /\ ran.kind # "none" =>
         method = MktExec /\ step \in {"response", "done", "lost"}
    /\ (step \in {"done", "lost"}) <=> (result.kind # "none")

Init ==
    /\ step = "build"
    /\ value = Invalid
    /\ method = Same
    /\ calls = <<>>
    /\ wire = <<>>
    /\ ran = Nothing
    /\ result = Nothing

----------------------------------------------------------------------------
(* Building the argument.  An operation on a value of another type throws  *)
(* an XmlRpcException and changes nothing, so that it is no step here.     *)

\* operator=, also of the invalid value, which is clear().
Assign(v) ==
    /\ step = "build"
    /\ Depth(v) <= MaxDepth
    /\ value' = v
    /\ UNCHANGED <<step, method, calls, wire, ran, result>>

\* assertArray: an array of the size asked for, filled with invalid values.
Sized(v, n) ==
    Array([i \in 1..Max({n, Len(v.items)}) |->
             IF i <= Len(v.items) THEN v.items[i] ELSE Invalid])

\* value[i] = v
SetItem(i, v) ==
    /\ value.type \in {"invalid", "array"}
    /\ Assign([Sized(value, i) EXCEPT !.items = [@ EXCEPT ![i] = v]])

\* The member of s with this name, the name being there.
Member(s, name) == SelectInSeq(s.names, LAMBDA m : m = name)

HasMember(s, name) == s.type = "struct" /\ name \in Range(s.names)

\* value[name] = v
SetMember(name, v) ==
    /\ value.type \in {"invalid", "struct"}
    /\ IF HasMember(value, name)
       THEN Assign([value EXCEPT !.items =
                      [@ EXCEPT ![Member(value, name)] = v]])
       ELSE /\ Len(value.items) < MaxItems
            /\ Assign(Inserted(Struct(value.names, value.items), name, v))

\* The conversion operators: assertTypeOrInvalid gives the default value.
Convert(type) ==
    /\ value.type = "invalid"
    /\ Assign(Scalar(type, CASE type \in {"string", "base64"} -> <<>>
                             [] type = "time" -> <<0, 0, 0, 0, 0, 0>>
                             [] type = "double" -> <<0, 0>>
                             [] OTHER -> <<0>>))

\* Another value gets this one as an item or a member, and is used on.
Nest ==
    \/ Assign(Array(<<value>>))
    \/ \E name \in Names : Assign(Struct(<<name>>, <<value>>))

----------------------------------------------------------------------------
(* The request.                                                            *)

\* generateRequest: each element of the array of parameters is one.
Request(params) ==
    Wrapped("params", FlattenSeq([i \in 1..Len(params) |->
                        Wrapped("param", ToXml(params[i]))]))

RECURSIVE ParamsFrom(_, _, _)
ParamsFrom(x, o, params) ==
    IF ~NextTagIs("param", x, o) THEN params
    ELSE LET r == FromXml(x, Past("param", x, o)) IN
         ParamsFrom(x, Past("/param", x, r.at), Append(params, r.value))

\* parseRequest
Params(x) == Array(ParamsFrom(x, FindTag("params", x, 1), <<>>))

CallOf(name, params) ==
    Struct(<<MethodName, MethodParams>>, <<name, params>>)

Plain == CallOf(String(Same), Array(<<value>>))

\* What may stand between two calls of Same in a multicall: calls with the
\* argument as their parameter or as their parameters, an array or not, one
\* whose name is the argument, a string or not, and one with no parameters.
\* Calls that run commands, and a multicall inside another, are left out.
Calls ==
    {CallOf(String(m), Array(<<value>>)) : m \in {MethodHelp, Other}}
    \cup {CallOf(String(m), value) : m \in {Same, ListMethods}}
    \cup {CallOf(value, Array(<<value>>)),
          Struct(<<MethodName>>, <<String(Same)>>)}

\* execute() of the client, as far as the request.
Send(m) ==
    /\ step = "build"
    /\ step' = "request"
    /\ method' = m
    /\ wire' = Request(<<value>>)
    /\ UNCHANGED <<value, calls, ran, result>>

SendCalls(c) ==
    /\ step = "build"
    /\ step' = "request"
    /\ method' = MultiCall
    /\ calls' = c
    /\ wire' = Request(<<Array(c)>>)
    /\ UNCHANGED <<value, ran, result>>

----------------------------------------------------------------------------
(* The server.                                                             *)

FaultStruct ==
    Struct(<<FaultCode, FaultString>>, <<Scalar("int", <<0 - 1>>), String(Error)>>)

\* params[0] throws if params is neither an array nor invalid; an array with
\* no items gets one.
HasItems(params) == params.type \in {"invalid", "array"}
First(params) == IF params.items = <<>> THEN Invalid ELSE params.items[1]

\* Mutant: the name of the method is not looked at.
RunsCommandAlways(m, params) == First(params).type \in {"invalid", "string"}

\* Whether a command is run: the conversion of params[0] may throw.
RunsCommand(m, params) ==
    m = MktExec /\ First(params).type \in {"invalid", "string"}

\* Mutant: the caller is always told that the command succeeded.
PairSuccess(o) == Array(<<o.value, String(Success)>>)

\* What mkt_exec makes of what exec() did, the value of "_" or a message.
Pair(o) ==
    Array(<<o.value, String(IF o.kind = "returned" THEN Success ELSE Error)>>)

\* executeMethod, o being what a command does if one is run: the result, an
\* empty string for an invalid one, or the invalid value for a fault.
Called(m, params, o) ==
    LET p == First(params) IN
    CASE m = ListMethods ->
           Array([i \in 1..(Len(Found) + 1) |->
                    String(IF i > Len(Found) THEN MultiCall ELSE Found[i])])
      [] m # ListMethods /\ ~HasItems(params) -> Invalid
      [] m = Same /\ HasItems(params) ->
           IF p = Invalid THEN String(<<>>) ELSE p
      [] RunsCommand(m, params) -> Pair(o)
      [] m = MethodHelp /\ p \in {String(k) : k \in Range(Found)} ->
           String(Help)
      [] OTHER -> Invalid

\* A call of a multicall, and what is not one.
Formed(c) == HasMember(c, MethodName) /\ HasMember(c, MethodParams)
Named(c) == c.items[Member(c, MethodName)]
Given(c) == c.items[Member(c, MethodParams)]

\* The name of one is converted to a string where nothing catches.
NameThrows(c) == Formed(c) /\ Named(c).type \notin {"invalid", "string"}

One(c, o) ==
    LET r == IF Formed(c) THEN Called(Named(c).data, Given(c), o) ELSE Invalid
    IN IF r = Invalid THEN FaultStruct ELSE Array(<<r>>)

\* Mutant: the calls after one that fails get the fault as well.
MulticallStops(params, o) ==
    LET list == First(params).items IN
    IF First(params).type # "array" \/ \E c \in Range(list) : NameThrows(c)
    THEN Invalid
    ELSE Array([i \in DOMAIN list |->
                  IF \E j \in 1..i : One(list[j], o) = FaultStruct
                  THEN FaultStruct ELSE One(list[i], o)])

\* executeMulticall: for each call an array with its result, or a struct
\* that describes its fault.
Multicall(params, o) ==
    LET list == First(params).items IN
    IF \/ Len(params.items) # 1 \/ First(params).type # "array"
       \/ \E c \in Range(list) : NameThrows(c)
    THEN Invalid
    ELSE Array([i \in DOMAIN list |-> One(list[i], o)])

\* generateResponse, and generateFaultResponse for the invalid value.
Response(v) ==
    LET blank == Text(<<Blank, 0>>) IN
    Wrapped("methodResponse",
      IF v = Invalid
      THEN Wrapped("fault", blank \o ToXml(FaultStruct) \o blank)
      ELSE Wrapped("params", Wrapped("param", blank \o ToXml(v) \o blank)))

\* executeRequest
Execute ==
    /\ step = "request"
    /\ LET params == Params(wire) IN
         \E o \in IF RunsCommand(method, params)
                  THEN [kind : {"returned", "error"},
                        value : {String(t) : t \in Outputs}]
                  ELSE {Nothing} :
           /\ ran' = o
           /\ wire' = Response(IF method = MultiCall
                               THEN Multicall(params, Nothing)
                               ELSE Called(method, params, o))
    /\ step' = "response"
    /\ UNCHANGED <<value, method, calls, result>>

----------------------------------------------------------------------------
(* The answer.                                                             *)

\* parseResponse; the invalid value makes execute() return false.
ParseResponse(x) ==
    LET p == FindTag("methodResponse", x, 1) IN
    IF NextTagIs("params", x, p)
    THEN Outcome("value", FromXml(x, Past("param", x, Past("params", x, p))).value)
    ELSE Outcome("fault", FromXml(x, Past("fault", x, p)).value)

\* exec_remote does not look at what execute() returned: result[0] of an
\* invalid result is made an empty string, result[1] is not "error", and
\* result[0] of the struct that describes a fault throws.
ExecRemote(v) ==
    CASE v.type = "array" /\ v.items[2] = String(Error) ->
           Outcome("error", v.items[1])
      [] v.type = "array" /\ v.items[2] # String(Error) ->
           Outcome("returned", v.items[1])
      [] v.type = "invalid" -> Outcome("returned", String(<<>>))
      [] OTHER -> Outcome("exception", Invalid)

Ends(how, r) ==
    /\ step' = how
    /\ result' = r
    /\ UNCHANGED <<value, method, calls, wire, ran>>

Receive ==
    /\ step = "response"
    /\ Ends("done", IF method = MktExec
                    THEN ExecRemote(ParseResponse(wire).value)
                    ELSE ParseResponse(wire))

\* No answer comes, before or after the server executed the call.
Lost ==
    /\ step \in {"request", "response"}
    /\ Ends("lost", IF method = MktExec THEN ExecRemote(Invalid)
                    ELSE Outcome("failed", Invalid))

Next ==
    \/ \E v \in Leaves : Assign(v)
    \/ \E v \in Items :
         \/ \E i \in 1..MaxItems : SetItem(i, v)
         \/ \E name \in Names : SetMember(name, v)
    \/ \E type \in {"boolean", "int", "double", "string", "time", "base64"} :
         Convert(type)
    \/ Nest
    \/ \E m \in Methods : Send(m)
    \/ \E c \in Calls : SendCalls(<<Plain, c, Plain>>)
    \/ Execute \/ Receive \/ Lost

Spec == Init /\ [][Next]_vars

----------------------------------------------------------------------------
(* Properties.                                                             *)

(* What a message carries as it is: values with nothing invalid in them,   *)
(* no member name that XML would have to encode, doubles of six decimals   *)
(* whose whole digits fit into the buffer of doubleToXml, and times whose  *)
(* year has four digits (so not a struct tm as the C library fills it,     *)
(* which counts years from 1900).                                          *)
RECURSIVE Transparent(_)
Transparent(v) ==
    CASE v.type = "invalid" -> FALSE
      [] v.type = "double" ->
           v.data[1] % 10 = 0 /\ v.data[2] < BufferDigits(v.data[1])
      [] v.type = "time" -> v.data[1] \in 1000..9999
      [] v.type \in {"array", "struct"} ->
           /\ \A i \in DOMAIN v.items : Transparent(v.items[i])
           /\ \A i \in DOMAIN v.names : v.names[i][1] # Markup
      [] OTHER -> TRUE

(* A value goes to the server and comes back as it was if it is one of     *)
(* those, and only then: toXml and fromXml in both directions, with the    *)
(* tags of request and response around them.                               *)
RoundTrip ==
    step = "done" /\ method = Same /\ result.kind = "value" =>
        (result.value = value <=> Transparent(value))

(* exec_remote returns or throws as the command did on the server, with    *)
(* its value or message, whatever characters are in it.                    *)
RemoteAnswers ==
    step = "done" /\ ran.kind # "none" => result = ran

\* What a call is answered with if it is made by itself.
Alone(c) ==
    ParseResponse(Response(IF Formed(c) THEN Called(Named(c).data, Given(c), Nothing)
                           ELSE Invalid)).value

(* Each call of a multicall is answered in its place, as a call of its own *)
(* would be, whatever the calls before it came to, and a call that is none *)
(* by a fault; only a name that is not a string, which executeMulticall    *)
(* converts outside its try block, turns the whole answer into a fault.    *)
(* An argument that cannot be read ends the list of calls in the middle,   *)
(* so it is asked of the others only.                                      *)
MulticallAnswersEach ==
    step = "done" /\ calls # <<>> /\ Transparent(Array(calls)) =>
        IF \E c \in Range(calls) : NameThrows(c)
        THEN result = Outcome("fault", FaultStruct)
        ELSE /\ result.kind = "value"
             /\ Len(result.value.items) = Len(calls)
             /\ \A i \in DOMAIN calls :
                  result.value.items[i] \in {FaultStruct, Array(<<Alone(calls[i])>>)}
             /\ \A i \in DOMAIN calls :
                  result.value.items[i] = FaultStruct => Alone(calls[i]) = FaultStruct
=============================================================================
