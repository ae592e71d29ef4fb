-------------------------------- MODULE Vars --------------------------------
(***************************************************************************)
(* src/mkt/vars.cpp and inc/mkt/vars.h: the variable map of each thread    *)
(* key, the set and unset commands, and the copies that the slots of       *)
(* thread_initialized and thread_finalized make between a caller's map and *)
(* the map of the thread it started (inc/mkt/threads.h, init_thread).      *)
(*                                                                         *)
(* Each region under _var_map_mutex is one action.  A variable_value holds *)
(* a shared_ptr to its data, and copying one copies the pointer: an entry  *)
(* has a cell, and entries of one name with the same cell share their data.*)
(* The key a call takes by default, thread_key(), is read in the action    *)
(* that uses it, except at the start of a thread.                          *)
(***************************************************************************)
EXTENDS Integers, FiniteSets

CONSTANTS
    Main,       \* the main thread
    Workers,    \* threads that may be started, once each
    MainKey,    \* the key of the main thread
    Unknown,    \* the key of a thread that has none
    KeyOf,      \* KeyOf[w]: the name w is started under
    Globals,    \* names of variables
    Locals,     \* names that begin with "_"
    Values,     \* values, Empty among them
    Empty,      \* what get_var gives to a variable it creates
    Sets,       \* Sets[t]: the variables the commands of t set
    Unsetters,  \* threads whose commands also unset them
    MaxTime,    \* bound: the largest time
    None        \* no entry, no key, no name, no thread

Threads == Workers \cup {Main}
Names == Globals \cup Locals
Keys == {MainKey, Unknown} \cup {KeyOf[w] : w \in Workers}

ASSUME ThreadsAssumption ==
    /\ IsFiniteSet(Workers)
    /\ Main \notin Workers
    /\ None \notin Threads
    /\ Unsetters \subseteq Threads
ASSUME KeysAssumption ==
    /\ \A w \in Workers : KeyOf[w] \notin {MainKey, Unknown}
    /\ MainKey # Unknown
    /\ None \notin Keys
ASSUME NamesAssumption ==
    /\ Globals \cap Locals = {}
    /\ None \notin Names
    /\ Sets \in [Threads -> SUBSET Names]
ASSUME ValuesAssumption == Empty \in Values
ASSUME BoundAssumption == MaxTime \in Nat

VARIABLES
    var_maps,     \* key -> name -> entry; a key without a map has no entries
    clock,        \* now()
    pc,           \* where each thread is
    varname,      \* the name an unset or a notification is about
    registered,   \* threads that are in the map of threads
    child,        \* the thread that start_thread has yet to register
    caller_key,   \* per thread: _caller_thread_key
    this_key      \* per thread: the key thread_signals was given

vars == <<var_maps, clock, pc, varname, registered, child, caller_key, this_key>>
thread_vars == <<registered, child, caller_key, this_key>>

\* A cell is named by a key; there are enough, since a map has at most one.
Entries == [value: Values, time: 0..MaxTime, cell: Keys]

ASSUME EntriesAssumption == None \notin Entries

TypeOK ==
    /\ var_maps \in [Keys -> [Names -> Entries \cup {None}]]
    /\ clock \in 0..MaxTime
    /\ pc \in [Threads -> {"unborn", "start", "copy in", "run", "erase", "notify",
                           "copy out", "done"}]
    /\ varname \in [Threads -> Names \cup {None}]
    /\ registered \subseteq Threads
    /\ child \in [Threads -> Workers \cup {None}]
    /\ caller_key \in [Threads -> Keys \cup {None}]
    /\ this_key \in [Threads -> Keys \cup {None}]
    /\ \A t \in Threads : pc[t] \in {"erase", "notify"} => varname[t] \in Names
    /\ \A w \in Workers :
         /\ pc[w] # "unborn" => caller_key[w] \in Keys
         /\ pc[w] \notin {"unborn", "start"} => this_key[w] \in Keys

Init ==
    /\ var_maps = [k \in Keys |-> [n \in Names |-> None]]
    /\ clock = 0
    /\ pc = [t \in Threads |-> IF t = Main THEN "run" ELSE "unborn"]
    /\ varname = [t \in Threads |-> None]
    /\ registered = {Main}
    /\ child = [t \in Threads |-> None]
    /\ caller_key = [t \in Threads |-> None]
    /\ this_key = [t \in Threads |-> None]

Goto(t, label) == pc' = [pc EXCEPT ![t] = label]

\* The key a thread has while it is in the map of threads.
ListedKey(t) == IF t = Main THEN MainKey ELSE KeyOf[t]

thread_key(t) == IF t \in registered THEN ListedKey(t) ELSE Unknown

Has(k, n) == var_maps[k][n] # None

\* Two maps hold the same data for a name.
Shares(j, k, n) ==
    Has(j, n) /\ Has(k, n) /\ var_maps[j][n].cell = var_maps[k][n].cell

\* A cell no map refers to.
NewCell(n) == CHOOSE c \in Keys : \A k \in Keys : Has(k, n) => var_maps[k][n].cell # c

\* variable_value::data(in): the data behind the pointer is overwritten for
\* every map that shares it, the time of this one entry only.
Assign(k, n, v) ==
    LET cell == IF Has(k, n) THEN var_maps[k][n].cell ELSE NewCell(n)
    IN  var_maps' = [j \in Keys |-> [var_maps[j] EXCEPT ![n] =
          IF j = k THEN [value |-> v, time |-> clock, cell |-> cell]
          ELSE IF Shares(j, k, n) THEN [@ EXCEPT !.value = v]
          ELSE @]]

\* Mutations of the copy: whatever its time, and locals too.
CopyAnyTime(to, from) ==
    var_maps' = [var_maps EXCEPT ![to] = [n \in Names |->
        IF n \in Globals /\ Has(from, n) THEN var_maps[from][n] ELSE @[n]]]
CopyLocalsToo(to, from) ==
    var_maps' = [var_maps EXCEPT ![to] = [n \in Names |->
        IF /\ Has(from, n)
           /\ Has(to, n) => var_maps[to][n].time < var_maps[from][n].time
        THEN var_maps[from][n] ELSE @[n]]]

\* vars_copy: globals only, and only if newer.
Copy(to, from) ==
    var_maps' = [var_maps EXCEPT ![to] = [n \in Names |->
        IF /\ n \in Globals
           /\ Has(from, n)
           /\ Has(to, n) => var_maps[to][n].time < var_maps[from][n].time
        THEN var_maps[from][n] ELSE @[n]]]

Tick ==
    /\ clock < MaxTime
    /\ clock' = clock + 1
    /\ UNCHANGED <<var_maps, pc, varname, thread_vars>>

-----------------------------------------------------------------------------
\* Commands

\* set_var, when the variable does not have the value yet; var_changed follows.
Set(t, n, v) ==
    /\ n \in Sets[t]
    /\ pc[t] = "run" /\ child[t] = None
    /\ Has(thread_key(t), n) => var_maps[thread_key(t)][n].value # v
    /\ Assign(thread_key(t), n, v)
    /\ varname' = [varname EXCEPT ![t] = n]
    /\ Goto(t, "notify")
    /\ UNCHANGED <<clock, thread_vars>>

\* The unset command reads the value first, which creates a missing variable.
UnsetGet(t, n) ==
    /\ t \in Unsetters /\ n \in Sets[t]
    /\ pc[t] = "run" /\ child[t] = None
    /\ IF Has(thread_key(t), n) THEN UNCHANGED var_maps
                                ELSE Assign(thread_key(t), n, Empty)
    /\ varname' = [varname EXCEPT ![t] = n]
    /\ Goto(t, "erase")
    /\ UNCHANGED <<clock, thread_vars>>

\* unset_var
UnsetErase(t) ==
    /\ pc[t] = "erase"
    /\ var_maps' = [var_maps EXCEPT ![thread_key(t)][varname[t]] = None]
    /\ Goto(t, "notify")
    /\ UNCHANGED <<clock, varname, thread_vars>>

\* var_changed: the slot of log.cpp gets the variable, which creates it anew
\* when it is missing.
Notify(t) ==
    /\ pc[t] = "notify"
    /\ IF Has(thread_key(t), varname[t]) THEN UNCHANGED var_maps
                                         ELSE Assign(thread_key(t), varname[t], Empty)
    /\ varname' = [varname EXCEPT ![t] = None]
    /\ Goto(t, "run")
    /\ UNCHANGED <<clock, thread_vars>>

-----------------------------------------------------------------------------
\* Threads

\* start_thread: init_thread reads the caller's key, and the thread is created,
\* which may run before start_thread enters it in the map of threads.  The name
\* is not in the map by then, but its last thread may still have to copy out.
Spawn(t, w) ==
    /\ pc[t] = "run" /\ child[t] = None
    /\ pc[w] = "unborn"
    /\ \A u \in Workers : KeyOf[u] = KeyOf[w] =>
         u \notin registered /\ pc[u] \in {"unborn", "copy out", "done"}
    /\ caller_key' = [caller_key EXCEPT ![w] = thread_key(t)]
    /\ child' = [child EXCEPT ![t] = w]
    /\ Goto(w, "start")
    /\ UNCHANGED <<var_maps, clock, varname, registered, this_key>>

\* start_thread: threads(key, val) enters the thread in the map.
Register(t) ==
    /\ child[t] # None
    /\ registered' = registered \cup {child[t]}
    /\ child' = [child EXCEPT ![t] = None]
    /\ UNCHANGED <<var_maps, clock, pc, varname, caller_key, this_key>>

\* init_thread::operator(): thread_key() for thread_signals.
ReadKey(w) ==
    /\ pc[w] = "start"
    /\ this_key' = [this_key EXCEPT ![w] = thread_key(w)]
    /\ Goto(w, "copy in")
    /\ UNCHANGED <<var_maps, clock, varname, registered, child, caller_key>>

\* vars_copy_on_thread_init
CopyOnInit(w) ==
    /\ pc[w] = "copy in"
    /\ Copy(this_key[w], caller_key[w])
    /\ Goto(w, "run")
    /\ UNCHANGED <<clock, varname, thread_vars>>

\* The command is over: ~thread_feedback removes the thread from the map.
Leave(w) ==
    /\ w \in Workers
    /\ pc[w] = "run" /\ child[w] = None
    /\ registered' = registered \ {w}
    /\ Goto(w, "copy out")
    /\ UNCHANGED <<var_maps, clock, varname, child, caller_key, this_key>>

\* A mutation: the caller's variables are copied once more.
CopyBack(w) ==
    /\ pc[w] = "copy out"
    /\ Copy(this_key[w], caller_key[w])
    /\ Goto(w, "done")
    /\ UNCHANGED <<clock, varname, thread_vars>>

\* vars_copy_on_thread_final.  Nothing is done with the thread's own map.
CopyOnFinal(w) ==
    /\ pc[w] = "copy out"
    /\ Copy(caller_key[w], this_key[w])
    /\ Goto(w, "done")
    /\ UNCHANGED <<clock, varname, thread_vars>>

Next ==
    \/ Tick
    \/ \E t \in Threads :
         \/ \E n \in Names, v \in Values : Set(t, n, v)
         \/ \E n \in Names : UnsetGet(t, n)
         \/ UnsetErase(t)
         \/ Notify(t)
         \/ \E w \in Workers : Spawn(t, w)
         \/ Register(t)
    \/ \E w \in Workers :
         \/ ReadKey(w)
         \/ CopyOnInit(w)
         \/ Leave(w)
         \/ CopyOnFinal(w)

Spec == Init /\ [][Next]_vars

-----------------------------------------------------------------------------
\* Copies never put an older value over a newer one: the modification time of
\* a variable that stays in a map never goes back.
TimesForward ==
    [][\A k \in Keys, n \in Names :
         Has(k, n) /\ var_maps'[k][n] # None =>
             var_maps[k][n].time <= var_maps'[k][n].time]_vars

\* What one thread keeps in a local variable never reaches another map, along
\* any chain of threads that start threads: no two maps share its data.
LocalsArePrivate ==
    \A j, k \in Keys, n \in Locals : j # k => ~Shares(j, k, n)

\* No two threads are started under one name.
OwnNames == \A u, w \in Workers : KeyOf[u] = KeyOf[w] => u = w

\* What a thread's command left in its map is in its caller's map from then on,
\* or a newer value is ("copy vars from new thread to caller thread on
\* finalize"), if the thread was registered before it ran and no command of the
\* caller unsets variables.  It is not said of a thread that started others:
\* they may outlive it and write into its map after its end.
ResultsReachCaller ==
    \A w \in Workers, n \in Globals :
        /\ pc[w] = "done" /\ this_key[w] = KeyOf[w] /\ Has(KeyOf[w], n)
        /\ caller_key[w] \notin {Unknown} \cup {ListedKey(u) : u \in Unsetters}
        /\ \A u \in Workers : caller_key[u] # KeyOf[w]
        => /\ Has(caller_key[w], n)
           /\ var_maps[caller_key[w]][n].time >= var_maps[KeyOf[w]][n].time
=============================================================================
