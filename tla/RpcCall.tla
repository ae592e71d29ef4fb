------------------------------ MODULE RpcCall ------------------------------
(***************************************************************************)
(* What a remote procedure call over the XML-RPC client and server of      *)
(* src/src/xmlrpc promises to its caller, whatever happens to connections  *)
(* and to the server.                                                      *)
(*                                                                         *)
(* A call is issued once and comes back once, answered or failed.  A call  *)
(* that is answered has been executed and has its own answer.  A call is   *)
(* executed at most MaxRuns times: it can be executed twice because the    *)
(* client sends a request again when a connection ends before an answer,   *)
(* and it can be executed after it has failed, because a request outlives  *)
(* the caller that stopped waiting for it.                                 *)
(***************************************************************************)
EXTENDS Naturals

CONSTANTS Calls,    \* the calls, positive numbers
          MaxRuns   \* how often one call may be executed

VARIABLES outcome,  \* "none", "pending", "answered" or "failed", by call
          runs,     \* how often the server executed the call
          answer    \* the call whose answer this one has got, 0 for none

vars == <<outcome, runs, answer>>

Init ==
    /\ outcome = [k \in Calls |-> "none"]
    /\ runs = [k \in Calls |-> 0]
    /\ answer = [k \in Calls |-> 0]

Issue(k) ==
    /\ outcome[k] = "none"
    /\ outcome' = [outcome EXCEPT ![k] = "pending"]
    /\ UNCHANGED <<runs, answer>>

Run(k) ==
    /\ outcome[k] # "none"
    /\ runs[k] < MaxRuns
    /\ runs' = [runs EXCEPT ![k] = @ + 1]
    /\ UNCHANGED <<outcome, answer>>

Answered(k) ==
    /\ outcome[k] = "pending"
    /\ runs[k] > 0
    /\ outcome' = [outcome EXCEPT ![k] = "answered"]
    /\ answer' = [answer EXCEPT ![k] = k]
    /\ UNCHANGED runs

Failed(k) ==
    /\ outcome[k] = "pending"
    /\ outcome' = [outcome EXCEPT ![k] = "failed"]
    /\ UNCHANGED <<runs, answer>>

Next == \E k \in Calls : Issue(k) \/ Run(k) \/ Answered(k) \/ Failed(k)

Spec == Init /\ [][Next]_vars
=============================================================================
