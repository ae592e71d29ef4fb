----------------------------- MODULE MCCommands -----------------------------
(***************************************************************************)
(* The instance of Commands for TLC: a thread that executes one line, two  *)
(* that import and expunge a module each with a command of its own, and    *)
(* the meaning of a line.                                                  *)
(***************************************************************************)
EXTENDS LineResults, TLC

CONSTANTS t1, t2, m1, m2

OwnModules == (t1 :> {m1}) @@ (t2 :> {m2})
OwnCommands == (m1 :> {"x"}) @@ (m2 :> {"y"})
SomeNumbers == ("0" :> 0) @@ ("2" :> 2)

Words == {<<"version">>, <<"echo", "a">>, <<"x">>}
SomeLines ==
    Words
    \cup {<<>>, <<"serial">>, <<"serial", "then", "version">>,
          <<"repeat", "many", "version">>, <<"repeat", "0", "version">>,
          <<"serial", "version", "then", "repeat", "0", "x">>,
          <<"serial", "x", "then", "y">>,
          <<"repeat", "2", "serial", "x", "then", "version">>}
    \cup {<<"repeat", "2">> \o c : c \in Words}
    \cup {<<"serial">> \o c \o <<"then", "version">> : c \in Words}

SomePhrases == SomeLines \cup {<<"y">>, <<"repeat", "0", "x">>}

\* What a line that throws nothing leaves in "_", given what was there: the
\* value of the last command that was executed in it.
RECURSIVE LastValue(_, _)
LastValue(args, was) ==
    CASE args = <<>> -> ""
      [] args # <<>> /\ args[1] = "version" -> Set("version", was)
      [] args # <<>> /\ args[1] \in {"x", "y"} -> Set("module", was)
      [] args # <<>> /\ args[1] = "serial" ->
           FoldLeft(LAMBDA v, c : LastValue(c, v), was, Split(Tail(args)))
      [] args # <<>> /\ args[1] = "repeat" /\ args[2] = "2" ->
           FoldLeft(LAMBDA v, i : LastValue(Tail(Tail(args)), v), was, <<1, 2>>)
      [] OTHER -> ""
LastValues(phrases, was) == FoldLeft(LAMBDA v, c : LastValue(c, v), was, phrases)

\* Every line ends, whatever is imported and expunged while it is executed.
LinesEnd == outcome = "running" ~> outcome # "running" \/ crashed \/ exited
=============================================================================
