------------------------------- MODULE Assets -------------------------------
(***************************************************************************)
(* src/xch/assets.cpp: the name -> id map, the id -> name map and the      *)
(* threads that call the API, as the commands of the submodule do.  Each   *)
(* region under _asset_map_mutex is one action, so a call that takes the   *)
(* lock several times (set_asset_id: has_asset, get_asset_id inside        *)
(* remove_asset, the erasure, the write) is interleaved with the others.   *)
(* A region under a shared lock is one action too, also when its           *)
(* operator[] inserts: racing insertions count as made one after another.  *)
(***************************************************************************)
EXTENDS Integers

CONSTANTS
    Threads,   \* threads that call the assets API
    Names,     \* asset names, the two below among them
    Ids,       \* asset ids, the two below among them
    NamesOf,   \* NamesOf[t]: the names t registers and removes
    IdsOf,     \* IdsOf[t]: the ids t registers and removes
    Null,      \* the name "null", get_asset_name's answer for an unknown id
    Empty,     \* the name "", what operator[] inserts for a missing id
    None       \* no entry in a map

NoId == -1        \* get_asset_id's answer for an unknown name
DefaultId == 0    \* what operator[] inserts for a missing name

ASSUME NamesAssumption ==
    /\ {Null, Empty} \subseteq Names
    /\ None \notin Names
ASSUME IdsAssumption ==
    /\ Ids \subseteq Int
    /\ {NoId, DefaultId} \subseteq Ids
    /\ None \notin Ids
ASSUME ArgumentsAssumption ==
    /\ NamesOf \in [Threads -> SUBSET Names]
    /\ IdsOf \in [Threads -> SUBSET Ids]

VARIABLES
    asset_map,           \* name -> id
    reverse_asset_map,   \* id -> name
    pc,                  \* the region each thread enters next
    op,                  \* the call it is in
    name,                \* its asset_name
    id,                  \* its asset_id argument
    found                \* the id get_asset_id answered inside it

vars == <<asset_map, reverse_asset_map, pc, op, name, id, found>>
maps == <<asset_map, reverse_asset_map>>
locals == <<op, name, id, found>>

ByName == {"get_asset_id", "remove_asset(name)"}
ById   == {"get_asset_name", "remove_asset(id)"}

TypeOK ==
    /\ asset_map \in [Names -> Ids \cup {None}]
    /\ reverse_asset_map \in [Ids -> Names \cup {None}]
    /\ pc \in [Threads -> {"idle", "check", "find name", "read id", "find id",
                           "read name", "erase", "write"}]
    /\ op \in [Threads -> {"set_asset_id"} \cup ByName \cup ById]
    /\ name \in [Threads -> Names]
    /\ id \in [Threads -> Ids]
    /\ found \in [Threads -> Ids]

Init ==
    /\ asset_map = [n \in Names |-> None]
    /\ reverse_asset_map = [i \in Ids |-> None]
    /\ pc = [t \in Threads |-> "idle"]
    /\ op = [t \in Threads |-> "get_asset_id"]
    /\ name = [t \in Threads |-> Null]
    /\ id = [t \in Threads |-> NoId]
    /\ found = [t \in Threads |-> NoId]

Goto(t, label) == pc' = [pc EXCEPT ![t] = label]

\* A call of the API: nothing is read yet.
Call(t, call, n, i) ==
    /\ pc[t] = "idle"
    /\ Goto(t, IF call = "set_asset_id" THEN "check"
               ELSE IF call \in ByName THEN "find name" ELSE "find id")
    /\ op' = [op EXCEPT ![t] = call]
    /\ name' = [name EXCEPT ![t] = n]
    /\ id' = [id EXCEPT ![t] = i]
    /\ found' = [found EXCEPT ![t] = NoId]
    /\ UNCHANGED maps

\* set_asset_id: throws "There is already an asset with id", or goes on to
\* remove_asset(asset_name).
Check(t) ==
    /\ pc[t] = "check"
    /\ Goto(t, IF reverse_asset_map[id[t]] # None THEN "idle" ELSE "find name")
    /\ UNCHANGED <<maps, locals>>

\* get_asset_id: has_asset(asset_name), whose answer is acted on later.  An
\* unknown name answers -1; remove_asset(name) takes that as the id to erase.
FindName(t) ==
    /\ pc[t] = "find name"
    /\ Goto(t, IF asset_map[name[t]] # None THEN "read id"
               ELSE IF op[t] = "get_asset_id" THEN "idle" ELSE "erase")
    /\ found' = [found EXCEPT ![t] = NoId]
    /\ UNCHANGED <<maps, op, name, id>>

\* get_asset_id: asset_map[asset_name], which inserts the name with id 0 when
\* it has gone since has_asset saw it.
ReadId(t) ==
    /\ pc[t] = "read id"
    /\ asset_map' = [asset_map EXCEPT ![name[t]] = IF @ = None THEN DefaultId ELSE @]
    /\ found' = [found EXCEPT ![t] = asset_map'[name[t]]]
    /\ Goto(t, IF op[t] = "get_asset_id" THEN "idle" ELSE "erase")
    /\ UNCHANGED <<reverse_asset_map, op, name, id>>

\* get_asset_name: has_asset(asset_id).  An unknown id answers "null".
FindId(t) ==
    /\ pc[t] = "find id"
    /\ Goto(t, IF reverse_asset_map[id[t]] # None THEN "read name"
               ELSE IF op[t] = "get_asset_name" THEN "idle" ELSE "erase")
    /\ name' = [name EXCEPT ![t] = Null]
    /\ UNCHANGED <<maps, op, id, found>>

\* get_asset_name: reverse_asset_map[asset_id], which inserts the id with an
\* empty name when it has gone.
ReadName(t) ==
    /\ pc[t] = "read name"
    /\ reverse_asset_map' =
         [reverse_asset_map EXCEPT ![id[t]] = IF @ = None THEN Empty ELSE @]
    /\ name' = [name EXCEPT ![t] = reverse_asset_map'[id[t]]]
    /\ Goto(t, IF op[t] = "get_asset_name" THEN "idle" ELSE "erase")
    /\ UNCHANGED <<asset_map, op, id, found>>

\* A mutation: remove_asset(name) does not look the id up.
GivenId(t) == id[t]

\* The id remove_asset erases: the one it looked up, or the one it was given.
ErasedId(t) == IF op[t] = "remove_asset(id)" THEN id[t] ELSE found[t]

\* remove_asset: both entries go under the lock.
Erase(t) ==
    /\ pc[t] = "erase"
    /\ asset_map' = [asset_map EXCEPT ![name[t]] = None]
    /\ reverse_asset_map' = [reverse_asset_map EXCEPT ![ErasedId(t)] = None]
    /\ Goto(t, IF op[t] = "set_asset_id" THEN "write" ELSE "idle")
    /\ UNCHANGED locals

\* set_asset_id: both entries are written under the lock.
Write(t) ==
    /\ pc[t] = "write"
    /\ asset_map' = [asset_map EXCEPT ![name[t]] = id[t]]
    /\ reverse_asset_map' = [reverse_asset_map EXCEPT ![id[t]] = name[t]]
    /\ Goto(t, "idle")
    /\ UNCHANGED locals

Next ==
    \E t \in Threads :
      \/ \E n \in NamesOf[t], i \in IdsOf[t] : Call(t, "set_asset_id", n, i)
      \/ \E n \in NamesOf[t] : Call(t, "remove_asset(name)", n, NoId)
      \/ \E i \in IdsOf[t] : Call(t, "remove_asset(id)", Null, i)
      \/ \E n \in Names : Call(t, "get_asset_id", n, NoId)
      \/ \E i \in Ids : Call(t, "get_asset_name", Null, i)
      \/ Check(t)
      \/ FindName(t)
      \/ ReadId(t)
      \/ FindId(t)
      \/ ReadName(t)
      \/ Erase(t)
      \/ Write(t)

Spec == Init /\ [][Next]_vars

-----------------------------------------------------------------------------
\* No two threads register or remove the same name, or the same id, and no
\* name or id they register is one of the answers for "unknown".  Any thread may
\* look any of them up meanwhile.
OwnRegistrations ==
    /\ \A t, u \in Threads : t # u =>
         NamesOf[t] \cap NamesOf[u] = {} /\ IdsOf[t] \cap IdsOf[u] = {}
    /\ \A t \in Threads : NoId \notin IdsOf[t] /\ {Null, Empty} \cap NamesOf[t] = {}

\* Between any two regions of any calls a name leads to an id that leads back to
\* it, although lookups act on stale answers of has_asset: all that these leave
\* behind are names under id 0 and ids under the empty name (get_asset_id and
\* get_asset_name, through operator[]).
PairsMatch ==
    \A n \in Names \ {Empty}, i \in Ids :
      /\ reverse_asset_map[i] = n => asset_map[n] = i
      /\ asset_map[n] = i /\ i # DefaultId => reverse_asset_map[i] = n
=============================================================================
