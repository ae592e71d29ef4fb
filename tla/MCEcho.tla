------------------------------- MODULE MCEcho -------------------------------
(***************************************************************************)
(* The instance of Echo, and so of Log, for TLC: two threads that echo     *)
(* and one that reads the log, in which others write meanwhile.            *)
(***************************************************************************)
EXTENDS Echo, TLC

SomeSignals == ("echo_function_registered" :> "echo")
               @@ ("command_pre_exec" :> "command_pre_exec")
ConsoleAndRemote == <<0, 2>>
=============================================================================
