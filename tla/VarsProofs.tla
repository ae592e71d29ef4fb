----------------------------- MODULE VarsProofs -----------------------------
(***************************************************************************)
(* Theorems about Vars for any finite set of threads, and any names,       *)
(* values and bound on the time.                                           *)
(***************************************************************************)
EXTENDS Vars, FiniteSetTheorems, TLAPS

USE ThreadsAssumption, KeysAssumption, NamesAssumption, ValuesAssumption, BoundAssumption

Maps == [Keys -> [Names -> Entries \cup {None}]]

\* There are finitely many keys: a thread has one.
LEMMA KeysFinite == IsFiniteSet(Keys)
<1> DEFINE Listed == {KeyOf[w] : w \in Workers}
           f == [w \in Workers |-> KeyOf[w]]
<1>1. f \in Surjection(Workers, Listed)
  BY DEF Surjection
<1>2. IsFiniteSet(Listed)
  BY <1>1, FS_Surjection
<1>3. IsFiniteSet((Listed \cup {MainKey}) \cup {Unknown})
  BY <1>2, FS_AddElement
<1>4. Keys = (Listed \cup {MainKey}) \cup {Unknown}
  BY DEF Keys
<1>5. QED
  BY <1>3, <1>4

\* When a map misses a name, a cell is left for it: the others hold at most one
\* cell each.
LEMMA NewCellIsNew ==
  ASSUME var_maps \in Maps, NEW k \in Keys, NEW n \in Names, ~Has(k, n)
  PROVE  /\ NewCell(n) \in Keys
         /\ \A j \in Keys : Has(j, n) => var_maps[j][n].cell # NewCell(n)
<1> DEFINE Unused(c) == \A j \in Keys : Has(j, n) => var_maps[j][n].cell # c
<1>1. \E c \in Keys : Unused(c)
  <2> SUFFICES ASSUME \A c \in Keys : ~Unused(c) PROVE FALSE
    OBVIOUS
  <2> DEFINE Others == Keys \ {k}
             f == [j \in Others |-> IF Has(j, n) THEN var_maps[j][n].cell ELSE k]
  <2>1. \A j \in Keys : Has(j, n) => var_maps[j][n].cell \in Keys
    BY DEF Maps, Has, Entries
  <2>2. f \in [Others -> Keys]
    BY <2>1
  <2>3. ASSUME NEW c \in Keys PROVE \E j \in Others : f[j] = c
    <3>1. PICK j \in Keys : Has(j, n) /\ var_maps[j][n].cell = c
      OBVIOUS
    <3>2. j \in Others
      BY <3>1
    <3>3. QED
      BY <3>1, <3>2
  <2>4. f \in Surjection(Others, Keys)
    BY <2>2, <2>3 DEF Surjection
  <2>5. IsFiniteSet(Others) /\ Cardinality(Others) = Cardinality(Keys) - 1
    BY KeysFinite, FS_RemoveElement
  <2>6. Cardinality(Keys) <= Cardinality(Others)
    BY <2>4, <2>5, FS_Surjection
  <2>7. Cardinality(Keys) \in Nat
    BY KeysFinite, FS_CardinalityType
  <2>8. QED
    BY <2>5, <2>6, <2>7
<1>2. NewCell(n) \in Keys /\ Unused(NewCell(n))
  BY <1>1 DEF NewCell
<1>3. QED
  BY <1>2

\* What an assignment does to each entry.
LEMMA AssignEffect ==
  ASSUME var_maps \in Maps, clock \in 0..MaxTime,
         NEW k \in Keys, NEW n \in Names, NEW v \in Values, Assign(k, n, v)
  PROVE  /\ var_maps' \in Maps
         /\ \A j \in Keys, m \in Names : m # n => var_maps'[j][m] = var_maps[j][m]
         /\ \A j \in Keys : j # k /\ ~Shares(j, k, n) => var_maps'[j][n] = var_maps[j][n]
         /\ \A j \in Keys : j # k /\ Shares(j, k, n) =>
              /\ Has(j, n)
              /\ var_maps'[j][n] = [var_maps[j][n] EXCEPT !.value = v]
         /\ \E c \in Keys :
              /\ var_maps'[k][n] = [value |-> v, time |-> clock, cell |-> c]
              /\ Has(k, n) => c = var_maps[k][n].cell
              /\ ~Has(k, n) => \A j \in Keys : Has(j, n) => var_maps[j][n].cell # c
<1> DEFINE c == IF Has(k, n) THEN var_maps[k][n].cell ELSE NewCell(n)
           new(j) == IF j = k THEN [value |-> v, time |-> clock, cell |-> c]
                     ELSE IF Shares(j, k, n) THEN [var_maps[j][n] EXCEPT !.value = v]
                     ELSE var_maps[j][n]
<1>1. c \in Keys /\ (~Has(k, n) => \A j \in Keys : Has(j, n) => var_maps[j][n].cell # c)
  BY NewCellIsNew DEF Has, Maps, Entries
<1>2. var_maps' = [j \in Keys |-> [var_maps[j] EXCEPT ![n] = new(j)]]
  BY DEF Assign, Maps
<1>3. \A j \in Keys : new(j) \in Entries \cup {None}
  BY <1>1 DEF Maps, Entries, Shares, Has
<1> HIDE DEF c, new
<1>4. var_maps' \in Maps
  BY <1>2, <1>3 DEF Maps
<1>5. \A j \in Keys, m \in Names : m # n => var_maps'[j][m] = var_maps[j][m]
  BY <1>2 DEF Maps
<1>6. \A j \in Keys : var_maps'[j][n] = new(j)
  BY <1>2 DEF Maps
<1>7. QED
  BY <1>1, <1>4, <1>5, <1>6 DEF c, new, Shares

\* What a copy does to each entry.
LEMMA CopyEffect ==
  ASSUME var_maps \in Maps, NEW to \in Keys, NEW from \in Keys, Copy(to, from)
  PROVE  /\ var_maps' \in Maps
         /\ \A j \in Keys, m \in Names :
              \/ var_maps'[j][m] = var_maps[j][m]
              \/ /\ m \in Globals
                 /\ Has(from, m)
                 /\ Has(j, m) => var_maps[j][m].time < var_maps[from][m].time
                 /\ var_maps'[j][m] = var_maps[from][m]
<1> DEFINE new(m) ==
      IF /\ m \in Globals
         /\ Has(from, m)
         /\ Has(to, m) => var_maps[to][m].time < var_maps[from][m].time
      THEN var_maps[from][m] ELSE var_maps[to][m]
<1>1. var_maps' = [var_maps EXCEPT ![to] = [m \in Names |-> new(m)]]
  BY DEF Copy
<1>2. \A m \in Names : new(m) \in Entries \cup {None}
  BY DEF Maps
<1>3. [m \in Names |-> new(m)] \in [Names -> Entries \cup {None}]
  BY <1>2
<1>4. var_maps' \in Maps
  BY <1>1, <1>3 DEF Maps
<1>5. \A m \in Names : var_maps'[to][m] = new(m)
  BY <1>1 DEF Maps
<1>6. \A j \in Keys, m \in Names : j # to => var_maps'[j][m] = var_maps[j][m]
  BY <1>1 DEF Maps
<1>7. QED
  BY <1>4, <1>5, <1>6

\* What an erasure does to each entry.
LEMMA EraseEffect ==
  ASSUME var_maps \in Maps, NEW k \in Keys, NEW n \in Names,
         var_maps' = [var_maps EXCEPT ![k][n] = None]
  PROVE  /\ var_maps' \in Maps
         /\ \A j \in Keys, m \in Names :
              var_maps'[j][m] = IF j = k /\ m = n THEN None ELSE var_maps[j][m]
BY DEF Maps

Labels == {"unborn", "start", "copy in", "run", "erase", "notify", "copy out", "done"}

\* The variables other than the maps have their types.
Places ==
    /\ clock \in 0..MaxTime
    /\ pc \in [Threads -> Labels]
    /\ varname \in [Threads -> Names \cup {None}]
    /\ registered \subseteq Threads
    /\ child \in [Threads -> Workers \cup {None}]
    /\ caller_key \in [Threads -> Keys \cup {None}]
    /\ this_key \in [Threads -> Keys \cup {None}]
    /\ \A t \in Threads : pc[t] \in {"erase", "notify"} => varname[t] \in Names
    /\ \A w \in Workers :
         /\ pc[w] # "unborn" => caller_key[w] \in Keys
         /\ pc[w] \notin {"unborn", "start"} => this_key[w] \in Keys

LEMMA TypeParts == TypeOK <=> var_maps \in Maps /\ Places
BY DEF TypeOK, Maps, Places, Labels

LEMMA ThreadKeys == \A t \in Threads : thread_key(t) \in Keys
BY DEF thread_key, ListedKey, Threads, Keys

\* A step that writes the maps is an assignment to the map of a thread, an
\* erasure in the map of a thread that unsets, or one of the copies.
MapStep ==
    \/ UNCHANGED var_maps
    \/ \E t \in Threads, n \in Names, v \in Values : Assign(thread_key(t), n, v)
    \/ \E t \in Threads, n \in Names :
         /\ pc[t] = "erase"
         /\ var_maps' = [var_maps EXCEPT ![thread_key(t)][n] = None]
    \/ \E w \in Workers : pc[w] = "copy in" /\ Copy(this_key[w], caller_key[w])
    \/ \E w \in Workers : pc[w] = "copy out" /\ Copy(caller_key[w], this_key[w])

\* What holds of all of them holds of any map.
AnyMapStep ==
    \/ UNCHANGED var_maps
    \/ \E k \in Keys, n \in Names, v \in Values : Assign(k, n, v)
    \/ \E k \in Keys, n \in Names : var_maps' = [var_maps EXCEPT ![k][n] = None]
    \/ \E to \in Keys, from \in Keys : Copy(to, from)

LEMMA Steps == ASSUME TypeOK, [Next]_vars PROVE MapStep /\ Places'
<1> Places
  BY TypeParts
<1> USE TypeParts, ThreadKeys DEF MapStep
<1>1. CASE Tick
  BY <1>1 DEF Tick, Places, thread_vars
<1>2. ASSUME NEW t \in Threads, NEW n \in Names, NEW v \in Values, Set(t, n, v)
      PROVE MapStep /\ Places'
  BY <1>2 DEF Set, Goto, Places, thread_vars, Labels, Threads
<1>3. ASSUME NEW t \in Threads, NEW n \in Names, UnsetGet(t, n)
      PROVE MapStep /\ Places'
  BY <1>3 DEF UnsetGet, Goto, Places, thread_vars, Labels, Threads
<1>4. ASSUME NEW t \in Threads, UnsetErase(t) PROVE MapStep /\ Places'
  BY <1>4 DEF UnsetErase, Goto, Places, thread_vars, Labels, Threads
<1>5. ASSUME NEW t \in Threads, Notify(t) PROVE MapStep /\ Places'
  BY <1>5 DEF Notify, Goto, Places, thread_vars, Labels, Threads
<1>6. ASSUME NEW t \in Threads, NEW w \in Workers, Spawn(t, w)
      PROVE MapStep /\ Places'
  BY <1>6 DEF Spawn, Goto, Places, Labels, Threads
<1>7. ASSUME NEW t \in Threads, Register(t) PROVE MapStep /\ Places'
  BY <1>7 DEF Register, Places, Threads
<1>8. ASSUME NEW w \in Workers, ReadKey(w) PROVE MapStep /\ Places'
  BY <1>8 DEF ReadKey, Goto, Places, Labels, Threads
<1>9. ASSUME NEW w \in Workers, CopyOnInit(w) PROVE MapStep /\ Places'
  BY <1>9 DEF CopyOnInit, Goto, Places, thread_vars, Labels, Threads
<1>10. ASSUME NEW w \in Workers, Leave(w) PROVE MapStep /\ Places'
  BY <1>10 DEF Leave, Goto, Places, Labels, Threads
<1>11. ASSUME NEW w \in Workers, CopyOnFinal(w) PROVE MapStep /\ Places'
  BY <1>11 DEF CopyOnFinal, Goto, Places, thread_vars, Labels, Threads
<1>12. CASE UNCHANGED vars
  BY <1>12 DEF vars, thread_vars, Places
<1>13. QED
  BY <1>1, <1>2, <1>3, <1>4, <1>5, <1>6, <1>7, <1>8, <1>9, <1>10, <1>11, <1>12 DEF Next

LEMMA AnySteps == ASSUME TypeOK, [Next]_vars PROVE AnyMapStep
<1>1. \A w \in Workers : pc[w] \in {"copy in", "copy out"} => this_key[w] \in Keys /\ caller_key[w] \in Keys
  BY TypeParts DEF Places
<1>2. QED
  BY <1>1, Steps, ThreadKeys DEF MapStep, AnyMapStep

LEMMA TypeCorrectStep == TypeOK /\ [Next]_vars => TypeOK'
<1> SUFFICES ASSUME TypeOK, [Next]_vars PROVE var_maps' \in Maps /\ Places'
  BY DEF TypeOK, Maps, Places, Labels
<1>1. var_maps \in Maps /\ clock \in 0..MaxTime
  BY TypeParts DEF Places
<1>2. AnyMapStep /\ Places'
  BY Steps, AnySteps
<1>3. CASE UNCHANGED var_maps
  BY <1>1, <1>2, <1>3
<1>4. ASSUME NEW k \in Keys, NEW n \in Names, NEW v \in Values, Assign(k, n, v)
      PROVE var_maps' \in Maps
  BY <1>1, <1>4, AssignEffect
<1>5. ASSUME NEW k \in Keys, NEW n \in Names,
             var_maps' = [var_maps EXCEPT ![k][n] = None]
      PROVE var_maps' \in Maps
  BY <1>1, <1>5, EraseEffect
<1>6. ASSUME NEW to \in Keys, NEW from \in Keys, Copy(to, from)
      PROVE var_maps' \in Maps
  BY <1>1, <1>6, CopyEffect
<1>7. QED
  BY <1>2, <1>3, <1>4, <1>5, <1>6 DEF AnyMapStep

\* The type invariant: in particular, there is a cell for each variable.
THEOREM TypeCorrect == Spec => []TypeOK
<1>1. Init => TypeOK
  BY DEF Init, TypeOK, Threads, Keys
<1>2. TypeOK /\ [Next]_vars => TypeOK'
  BY TypeCorrectStep
<1>3. QED
  BY <1>1, <1>2, PTL DEF Spec

-----------------------------------------------------------------------------
\* A local variable is never shared: only copies share, and they leave it out.
THEOREM Private == Spec => []LocalsArePrivate
<1>1. Init => LocalsArePrivate
  BY DEF Init, LocalsArePrivate, Shares, Has, Names
<1>2. TypeOK /\ LocalsArePrivate /\ [Next]_vars => LocalsArePrivate'
  <2> SUFFICES ASSUME TypeOK, LocalsArePrivate, [Next]_vars,
                      NEW i \in Keys, NEW j \in Keys, NEW m \in Locals, i # j,
                      Shares(i, j, m)'
               PROVE FALSE
    BY DEF LocalsArePrivate
  <2>1. var_maps \in Maps /\ clock \in 0..MaxTime
    BY TypeParts DEF Places
  <2>2. m \in Names /\ m \notin Globals
    BY DEF Names
  <2>3. /\ var_maps'[i][m] # None /\ var_maps'[j][m] # None
        /\ var_maps'[i][m].cell = var_maps'[j][m].cell
    BY DEF Shares, Has
  <2>4. \A p, q \in Keys : p # q => ~Shares(p, q, m)
    BY DEF LocalsArePrivate
  <2>5. CASE UNCHANGED var_maps
    BY <2>3, <2>4, <2>5 DEF Shares, Has
  <2>6. ASSUME NEW k \in Keys, NEW n \in Names, NEW v \in Values, Assign(k, n, v)
        PROVE FALSE
    <3>1. CASE m # n
      BY <2>1, <2>2, <2>3, <2>4, <2>6, <3>1, AssignEffect DEF Shares, Has
    <3>2. CASE m = n
      <4>1. \A q \in Keys : q # k => var_maps'[q][m] = var_maps[q][m]
        BY <2>1, <2>2, <2>4, <2>6, <3>2, AssignEffect
      <4>2. PICK c \in Keys :
              /\ var_maps'[k][n] = [value |-> v, time |-> clock, cell |-> c]
              /\ Has(k, n) => c = var_maps[k][n].cell
              /\ ~Has(k, n) => \A q \in Keys : Has(q, n) => var_maps[q][n].cell # c
        BY <2>1, <2>6, AssignEffect
      <4>3. CASE i # k /\ j # k
        BY <2>3, <2>4, <4>1, <4>3 DEF Shares, Has
      <4>4. ASSUME NEW q \in Keys, q # k, var_maps'[q][m] # None,
                   var_maps'[q][m].cell = var_maps'[k][m].cell
            PROVE FALSE
        <5>1. Has(q, m) /\ var_maps[q][m].cell = c
          BY <3>2, <4>1, <4>2, <4>4 DEF Has
        <5>2. Has(k, m) => var_maps[k][m].cell = c
          BY <3>2, <4>2
        <5>3. Has(k, m)
          BY <3>2, <4>2, <5>1
        <5>4. QED
          BY <2>4, <4>4, <5>1, <5>2, <5>3 DEF Shares
      <4>5. QED
        BY <2>3, <4>3, <4>4
    <3>3. QED
      BY <3>1, <3>2
  <2>7. ASSUME NEW k \in Keys, NEW n \in Names,
               var_maps' = [var_maps EXCEPT ![k][n] = None]
        PROVE FALSE
    <3>1. \A q \in Keys : var_maps'[q][m] = None \/ var_maps'[q][m] = var_maps[q][m]
      BY <2>1, <2>2, <2>7, EraseEffect
    <3>2. QED
      BY <2>3, <2>4, <3>1 DEF Shares, Has
  <2>8. ASSUME NEW to \in Keys, NEW from \in Keys, Copy(to, from)
        PROVE FALSE
    <3>1. \A q \in Keys : var_maps'[q][m] = var_maps[q][m]
      BY <2>1, <2>2, <2>8, CopyEffect
    <3>2. QED
      BY <2>3, <2>4, <3>1 DEF Shares, Has
  <2>9. QED
    BY <2>5, <2>6, <2>7, <2>8, AnySteps DEF AnyMapStep
<1>3. QED
  BY <1>1, <1>2, TypeCorrect, PTL DEF Spec

-----------------------------------------------------------------------------
\* No entry is from the future.
Past == \A k \in Keys, n \in Names : Has(k, n) => var_maps[k][n].time <= clock

\* One step: the entries stay in the past, and their times do not go back.
LEMMA TimeStep ==
  ASSUME TypeOK, Past, [Next]_vars
  PROVE  /\ Past'
         /\ \A k \in Keys, n \in Names :
              Has(k, n) /\ var_maps'[k][n] # None =>
                  var_maps[k][n].time <= var_maps'[k][n].time
<1> SUFFICES ASSUME NEW j \in Keys, NEW m \in Names, var_maps'[j][m] # None
             PROVE  /\ var_maps'[j][m].time <= clock
                    /\ Has(j, m) => var_maps[j][m].time <= var_maps'[j][m].time
  <2>1. clock \in Nat /\ clock' \in Nat /\ clock <= clock'
    <3>1. clock \in 0..MaxTime
      BY TypeParts DEF Places
    <3>2. CASE Tick
      BY <3>1, <3>2 DEF Tick
    <3>3. CASE ~Tick
      <4>1. clock' = clock
        BY <3>3 DEF Next, Set, UnsetGet, UnsetErase, Notify, Spawn, Register,
           ReadKey, CopyOnInit, Leave, CopyOnFinal, vars
      <4>2. QED
        BY <3>1, <4>1
    <3>4. QED
      BY <3>2, <3>3
  <2>2. \A k \in Keys, n \in Names : var_maps'[k][n] # None => var_maps'[k][n].time \in Nat
    <3>1. var_maps' \in Maps
      BY TypeCorrectStep DEF TypeOK, Maps, Entries, Keys, Names
    <3>2. ASSUME NEW k \in Keys, NEW n \in Names, var_maps'[k][n] # None
          PROVE var_maps'[k][n].time \in Nat
      <4>1. var_maps'[k][n] \in Entries
        BY <3>1, <3>2 DEF Maps
      <4>2. QED
        BY <4>1 DEF Entries
    <3>3. QED
      BY <3>2
  <2>3. QED
    BY <2>1, <2>2 DEF Past, Has
<1>1. /\ var_maps \in Maps /\ clock \in 0..MaxTime
      /\ \A k \in Keys, n \in Names : Has(k, n) => var_maps[k][n] \in Entries
      /\ \A k \in Keys, n \in Names : Has(k, n) => var_maps[k][n].time \in Nat /\ var_maps[k][n].time <= clock
  BY TypeParts DEF Places, Maps, Has, Past, Entries
<1>2. CASE UNCHANGED var_maps
  BY <1>1, <1>2 DEF Has
<1>3. ASSUME NEW k \in Keys, NEW n \in Names, NEW v \in Values, Assign(k, n, v)
      PROVE  /\ var_maps'[j][m].time <= clock
             /\ Has(j, m) => var_maps[j][m].time <= var_maps'[j][m].time
  <2>1. CASE m # n \/ (j # k /\ ~Shares(j, k, n))
    <3>1. var_maps'[j][m] = var_maps[j][m]
      BY <1>1, <1>3, <2>1, AssignEffect
    <3>2. QED
      BY <1>1, <3>1 DEF Has
  <2>2. CASE m = n /\ j = k
    <3>1. var_maps'[j][m].time = clock
      <4>1. PICK c \in Keys : var_maps'[k][n] = [value |-> v, time |-> clock, cell |-> c]
        BY <1>1, <1>3, AssignEffect
      <4>2. QED
        BY <2>2, <4>1
    <3>2. QED
      BY <1>1, <3>1
  <2>3. CASE m = n /\ j # k /\ Shares(j, k, n)
    <3>1. Has(j, m) /\ var_maps'[j][m] = [var_maps[j][m] EXCEPT !.value = v]
      BY <1>1, <1>3, <2>3, AssignEffect
    <3>2. var_maps[j][m] \in Entries
      BY <1>1, <3>1
    <3>3. var_maps'[j][m].time = var_maps[j][m].time
      BY <3>1, <3>2 DEF Entries
    <3>4. QED
      BY <1>1, <3>1, <3>3
  <2>4. QED
    BY <2>1, <2>2, <2>3
<1>4. ASSUME NEW k \in Keys, NEW n \in Names,
             var_maps' = [var_maps EXCEPT ![k][n] = None]
      PROVE  /\ var_maps'[j][m].time <= clock
             /\ Has(j, m) => var_maps[j][m].time <= var_maps'[j][m].time
  <2>1. var_maps'[j][m] = var_maps[j][m]
    BY <1>1, <1>4, EraseEffect
  <2>2. QED
    BY <1>1, <2>1 DEF Has
<1>5. ASSUME NEW to \in Keys, NEW from \in Keys, Copy(to, from)
      PROVE  /\ var_maps'[j][m].time <= clock
             /\ Has(j, m) => var_maps[j][m].time <= var_maps'[j][m].time
  <2>1. CASE var_maps'[j][m] = var_maps[j][m]
    BY <1>1, <2>1 DEF Has
  <2>2. CASE var_maps'[j][m] # var_maps[j][m]
    <3>1. /\ Has(from, m)
          /\ Has(j, m) => var_maps[j][m].time < var_maps[from][m].time
          /\ var_maps'[j][m] = var_maps[from][m]
      BY <1>1, <1>5, <2>2, CopyEffect
    <3>2. QED
      BY <1>1, <3>1
  <2>3. QED
    BY <2>1, <2>2
<1>6. QED
  BY <1>2, <1>3, <1>4, <1>5, AnySteps DEF AnyMapStep

\* No step puts an older value over a newer one.
THEOREM Forward == Spec => TimesForward
<1>1. Init => Past
  BY DEF Init, Past, Has
<1>2. TypeOK /\ Past /\ [Next]_vars => Past'
  BY TimeStep
<1>3. TypeOK /\ Past /\ [Next]_vars =>
        [\A k \in Keys, n \in Names :
           Has(k, n) /\ var_maps'[k][n] # None =>
               var_maps[k][n].time <= var_maps'[k][n].time]_vars
  BY TimeStep
<1>4. QED
  BY <1>1, <1>2, <1>3, TypeCorrect, PTL DEF Spec, TimesForward

-----------------------------------------------------------------------------
\* The life of a thread: it is registered at most once, before it ends if it has
\* read its own key, and only threads that unset are about to erase.
Lives ==
    /\ \A w \in Workers : pc[w] = "unborn" => w \notin registered /\ caller_key[w] = None
    /\ \A w \in Workers, t \in Threads :
         child[t] = w => pc[w] # "unborn" /\ w \notin registered
    /\ \A t, u \in Threads : child[t] # None /\ child[t] = child[u] => t = u
    /\ \A w \in Workers : pc[w] \notin {"unborn", "start"} =>
         /\ this_key[w] \in {Unknown, KeyOf[w]}
         /\ this_key[w] = KeyOf[w] => \A t \in Threads : child[t] # w
    /\ \A w \in Workers :
         pc[w] \in {"copy out", "done"} /\ this_key[w] = KeyOf[w] => w \notin registered
    /\ \A t \in Threads : pc[t] = "erase" => t \in Unsetters

LEMMA Children ==
  ASSUME TypeOK
  PROVE  \A t \in Threads : child[t] # None => \E w \in Workers : child[t] = w
BY DEF TypeOK

LEMMA LivesStep == ASSUME TypeOK, Lives, [Next]_vars PROVE Lives'
<1> Places
  BY TypeParts
<1> USE DEF Places, Lives, Threads
<1>1. CASE Tick
  BY <1>1 DEF Tick, thread_vars
<1>2. ASSUME NEW t \in Threads, NEW n \in Names, NEW v \in Values, Set(t, n, v) PROVE Lives'
  BY <1>2 DEF Set, Goto, thread_vars
<1>3. ASSUME NEW t \in Threads, NEW n \in Names, UnsetGet(t, n) PROVE Lives'
  BY <1>3, ZenonT(30) DEF UnsetGet, Goto, thread_vars
<1>4. ASSUME NEW t \in Threads, UnsetErase(t) PROVE Lives'
  BY <1>4 DEF UnsetErase, Goto, thread_vars
<1>5. ASSUME NEW t \in Threads, Notify(t) PROVE Lives'
  BY <1>5 DEF Notify, Goto, thread_vars
<1>6. ASSUME NEW t \in Threads, NEW w \in Workers, Spawn(t, w) PROVE Lives'
  <2>1. /\ child' = [child EXCEPT ![t] = w] /\ child[t] = None
        /\ pc' = [pc EXCEPT ![w] = "start"] /\ pc[w] = "unborn" /\ pc[t] = "run"
        /\ caller_key' = [caller_key EXCEPT ![w] = thread_key(t)]
        /\ UNCHANGED <<registered, this_key>>
    BY <1>6 DEF Spawn, Goto
  <2>2. w \notin registered /\ \A u \in Threads : child[u] # w
    BY <2>1
  <2>3. QED
    BY <2>1, <2>2
<1>7. ASSUME NEW t \in Threads, Register(t) PROVE Lives'
  <2>1. PICK w \in Workers : child[t] = w
    BY <1>7, Children, Zenon DEF Register
  <2>2. /\ registered' = registered \cup {w}
        /\ child' = [child EXCEPT ![t] = None]
        /\ UNCHANGED <<pc, caller_key, this_key>>
    BY <1>7, <2>1 DEF Register
  <2>3. pc[w] # "unborn" /\ \A u \in Threads : child[u] = w => u = t
    BY <2>1
  <2>4. \A x \in Workers : pc[x] \notin {"unborn", "start"} /\ this_key[x] = KeyOf[x] => x # w
    BY <2>1
  <2>5. \A u \in Threads : child'[u] = IF u = t THEN None ELSE child[u]
    BY <2>2
  <2>6. \A x \in Workers : pc[x] = "unborn" => x \notin registered' /\ caller_key[x] = None
    BY <2>2, <2>3
  <2>7. \A x \in Workers, u \in Threads :
          child'[u] = x => pc[x] # "unborn" /\ x \notin registered'
    <3> SUFFICES ASSUME NEW x \in Workers, NEW u \in Threads, child'[u] = x
                 PROVE pc[x] # "unborn" /\ x \notin registered'
      OBVIOUS
    <3>1. u # t /\ child[u] = x
      BY <2>5
    <3>2. x # w
      BY <2>3, <3>1
    <3>3. pc[x] # "unborn" /\ x \notin registered
      BY <3>1
    <3>4. QED
      BY <2>2, <3>2, <3>3
  <2>8. \A u, x \in Threads : child'[u] # None /\ child'[u] = child'[x] => u = x
    BY <2>5
  <2>9. \A x \in Workers : pc[x] \notin {"unborn", "start"} =>
          /\ this_key[x] \in {Unknown, KeyOf[x]}
          /\ this_key[x] = KeyOf[x] => \A u \in Threads : child'[u] # x
    <3>1. \A x \in Workers : x # None
      BY ZenonT(30)
    <3>2. \A x \in Workers, u \in Threads : child'[u] = x => child[u] = x
      BY <2>5, <3>1
    <3>3. QED
      BY <3>2
  <2>10. \A x \in Workers :
           pc[x] \in {"copy out", "done"} /\ this_key[x] = KeyOf[x] => x \notin registered'
    BY <2>2, <2>4
  <2>11. QED
    BY <2>2, <2>6, <2>7, <2>8, <2>9, <2>10
<1>8. ASSUME NEW w \in Workers, ReadKey(w) PROVE Lives'
  BY <1>8, ZenonT(30) DEF ReadKey, Goto, thread_key, ListedKey
<1>9. ASSUME NEW w \in Workers, CopyOnInit(w) PROVE Lives'
  BY <1>9 DEF CopyOnInit, Goto, thread_vars
<1>10. ASSUME NEW w \in Workers, Leave(w) PROVE Lives'
  BY <1>10 DEF Leave, Goto
<1>11. ASSUME NEW w \in Workers, CopyOnFinal(w) PROVE Lives'
  BY <1>11 DEF CopyOnFinal, Goto, thread_vars
<1>12. CASE UNCHANGED vars
  BY <1>12 DEF vars, thread_vars
<1>13. QED
  BY <1>1, <1>2, <1>3, <1>4, <1>5, <1>6, <1>7, <1>8, <1>9, <1>10, <1>11, <1>12 DEF Next

\* A thread that is over keeps its keys, and had them unless it ends just now.
LEMMA Ended ==
  ASSUME TypeOK, Lives, [Next]_vars, NEW w \in Workers, pc'[w] = "done"
  PROVE  /\ pc[w] = "done" \/ CopyOnFinal(w)
         /\ pc[w] \in {"copy out", "done"}
         /\ this_key'[w] = this_key[w] /\ caller_key'[w] = caller_key[w]
         /\ \A u \in Workers : caller_key[u] \in {None, caller_key'[u]}
<1> Places
  BY TypeParts
<1> USE DEF Places, Lives, Threads
<1>1. CASE Tick
  BY <1>1 DEF Tick, thread_vars
<1>2. ASSUME NEW t \in Threads, NEW n \in Names, NEW v \in Values, Set(t, n, v)
      PROVE pc[w] = "done" /\ UNCHANGED <<this_key, caller_key>>
  BY <1>2 DEF Set, Goto, thread_vars
<1>3. ASSUME NEW t \in Threads, NEW n \in Names, UnsetGet(t, n)
      PROVE pc[w] = "done" /\ UNCHANGED <<this_key, caller_key>>
  BY <1>3 DEF UnsetGet, Goto, thread_vars
<1>4. ASSUME NEW t \in Threads, UnsetErase(t)
      PROVE pc[w] = "done" /\ UNCHANGED <<this_key, caller_key>>
  BY <1>4 DEF UnsetErase, Goto, thread_vars
<1>5. ASSUME NEW t \in Threads, Notify(t)
      PROVE pc[w] = "done" /\ UNCHANGED <<this_key, caller_key>>
  BY <1>5 DEF Notify, Goto, thread_vars
<1>6. ASSUME NEW t \in Threads, NEW x \in Workers, Spawn(t, x)
      PROVE  /\ pc[w] = "done" /\ UNCHANGED this_key /\ caller_key'[w] = caller_key[w]
             /\ \A u \in Workers : caller_key[u] \in {None, caller_key'[u]}
  BY <1>6 DEF Spawn, Goto
<1>7. ASSUME NEW t \in Threads, Register(t)
      PROVE pc[w] = "done" /\ UNCHANGED <<this_key, caller_key>>
  BY <1>7 DEF Register
<1>8. ASSUME NEW x \in Workers, ReadKey(x)
      PROVE pc[w] = "done" /\ this_key'[w] = this_key[w] /\ UNCHANGED caller_key
  BY <1>8 DEF ReadKey, Goto
<1>9. ASSUME NEW x \in Workers, CopyOnInit(x)
      PROVE pc[w] = "done" /\ UNCHANGED <<this_key, caller_key>>
  BY <1>9 DEF CopyOnInit, Goto, thread_vars
<1>10. ASSUME NEW x \in Workers, Leave(x)
       PROVE pc[w] = "done" /\ UNCHANGED <<this_key, caller_key>>
  BY <1>10 DEF Leave, Goto
<1>11. ASSUME NEW x \in Workers, CopyOnFinal(x)
       PROVE (pc[w] = "done" \/ (x = w /\ pc[w] = "copy out")) /\ UNCHANGED <<this_key, caller_key>>
  BY <1>11 DEF CopyOnFinal, Goto, thread_vars
<1>12. CASE UNCHANGED vars
  BY <1>12 DEF vars
<1>13. QED
  BY <1>1, <1>2, <1>3, <1>4, <1>5, <1>6, <1>7, <1>8, <1>9, <1>10, <1>11, <1>12,
     ZenonT(30) DEF Next

\* What an assignment to another map, an erasure there or a copy to there does
\* to a variable of a map.
LEMMA Elsewhere ==
  ASSUME var_maps \in Maps, clock \in 0..MaxTime, NEW k \in Keys, NEW n \in Names,
         var_maps'[k][n] # None,
         NEW q \in Keys, q # k,
         \/ \E m \in Names, v \in Values : Assign(q, m, v)
         \/ \E m \in Names : var_maps' = [var_maps EXCEPT ![q][m] = None]
         \/ \E from \in Keys : Copy(q, from)
  PROVE  Has(k, n) /\ var_maps'[k][n].time = var_maps[k][n].time
<1>1. ASSUME NEW m \in Names, NEW v \in Values, Assign(q, m, v)
      PROVE Has(k, n) /\ var_maps'[k][n].time = var_maps[k][n].time
  <2>1. CASE m # n \/ ~Shares(k, q, m)
    <3>1. var_maps'[k][n] = var_maps[k][n]
      BY <1>1, <2>1, AssignEffect
    <3>2. QED
      BY <3>1 DEF Has
  <2>2. CASE m = n /\ Shares(k, q, m)
    <3>1. Has(k, n) /\ var_maps'[k][n] = [var_maps[k][n] EXCEPT !.value = v]
      BY <1>1, <2>2, AssignEffect
    <3>2. var_maps[k][n] \in Entries
      BY <3>1 DEF Maps, Has
    <3>3. QED
      BY <3>1, <3>2 DEF Entries
  <2>3. QED
    BY <2>1, <2>2
<1>2. ASSUME NEW m \in Names, var_maps' = [var_maps EXCEPT ![q][m] = None]
      PROVE Has(k, n) /\ var_maps'[k][n].time = var_maps[k][n].time
  <2>1. var_maps'[k][n] = var_maps[k][n]
    BY <1>2, EraseEffect
  <2>2. QED
    BY <2>1 DEF Has
<1>3. ASSUME NEW from \in Keys, Copy(q, from)
      PROVE Has(k, n) /\ var_maps'[k][n].time = var_maps[k][n].time
  <2>1. var_maps'[k][n] = var_maps[k][n]
    BY <1>3 DEF Copy, Maps
  <2>2. QED
    BY <2>1 DEF Has
<1>4. QED
  BY <1>1, <1>2, <1>3

\* The map of a thread that is over does not change but in the data it shares,
\* if nobody else has its key or copies to it.
LEMMA OwnMapRests ==
  ASSUME OwnNames, TypeOK, Lives, [Next]_vars,
         NEW w \in Workers, pc[w] = "done", this_key[w] = KeyOf[w],
         \A u \in Workers : caller_key[u] # KeyOf[w],
         NEW k \in Keys, k = KeyOf[w], NEW n \in Names, var_maps'[k][n] # None
  PROVE  Has(k, n) /\ var_maps'[k][n].time = var_maps[k][n].time
<1>1. var_maps \in Maps /\ clock \in 0..MaxTime
  BY TypeParts DEF Places
<1>2. \A u \in Workers : pc[u] \in {"copy in", "copy out"} =>
        this_key[u] \in Keys /\ caller_key[u] \in Keys
  BY TypeParts DEF Places
<1>3. \A t \in Threads : thread_key(t) \in Keys /\ thread_key(t) # k
  <2>1. w \notin registered
    BY DEF Lives
  <2>2. \A t \in registered : ListedKey(t) # k
    BY <2>1 DEF ListedKey, OwnNames, TypeOK, Threads
  <2>3. QED
    BY <2>2, ThreadKeys DEF thread_key
<1>4. \A u \in Workers : pc[u] = "copy in" => this_key[u] # k
  <2>1. \A u \in Workers : KeyOf[u] = k => pc[u] = "done"
    BY DEF OwnNames
  <2>2. \A u \in Workers : pc[u] = "copy in" => this_key[u] \in {Unknown, KeyOf[u]}
    BY DEF Lives
  <2>3. QED
    BY <2>1, <2>2
<1>5. CASE UNCHANGED var_maps
  BY <1>5 DEF Has
<1>6. CASE ~UNCHANGED var_maps
  <2>1. \E q \in Keys : q # k /\
          (\/ \E m \in Names, v \in Values : Assign(q, m, v)
           \/ \E m \in Names : var_maps' = [var_maps EXCEPT ![q][m] = None]
           \/ \E from \in Keys : Copy(q, from))
    BY <1>2, <1>3, <1>4, <1>6, Steps, Zenon DEF MapStep
  <2>2. QED
    BY <1>1, <2>1, Elsewhere
<1>7. QED
  BY <1>5, <1>6

\* A map keeps its variables, if only threads that do not unset have its key.
LEMMA CallerKeeps ==
  ASSUME TypeOK, Lives, [Next]_vars,
         NEW k \in Keys, k \notin {Unknown} \cup {ListedKey(u) : u \in Unsetters},
         NEW n \in Names, Has(k, n)
  PROVE  var_maps'[k][n] # None
<1>1. var_maps \in Maps /\ clock \in 0..MaxTime /\ var_maps[k][n] \in Entries
  BY TypeParts DEF Places, Maps, Has
<1>2. \A u \in Workers : pc[u] \in {"copy in", "copy out"} =>
        this_key[u] \in Keys /\ caller_key[u] \in Keys
  BY TypeParts DEF Places
<1>3. CASE UNCHANGED var_maps
  BY <1>3 DEF Has
<1>4. ASSUME NEW q \in Keys, NEW m \in Names, NEW v \in Values, Assign(q, m, v)
      PROVE var_maps'[k][n] # None
  <2>1. CASE m # n \/ (k # q /\ ~Shares(k, q, m))
    <3>1. var_maps'[k][n] = var_maps[k][n]
      BY <1>1, <1>4, <2>1, AssignEffect
    <3>2. QED
      BY <3>1 DEF Has
  <2>2. CASE m = n /\ k = q
    <3>1. \E c \in Keys : var_maps'[q][m] = [value |-> v, time |-> clock, cell |-> c]
      <4> var_maps \in Maps /\ clock \in 0..MaxTime
        BY <1>1
      <4> QED
        BY <1>4, AssignEffect, SMTT(20)
    <3>2. var_maps'[k][n] \in Entries
      BY <1>1, <2>2, <3>1 DEF Entries
    <3>3. QED
      BY <3>2, EntriesAssumption
  <2>3. CASE m = n /\ k # q /\ Shares(k, q, m)
    <3>1. var_maps'[k][n] = [var_maps[k][n] EXCEPT !.value = v]
      BY <1>1, <1>4, <2>3, AssignEffect
    <3>2. var_maps'[k][n] \in Entries
      BY <1>1, <3>1 DEF Entries
    <3>3. QED
      BY <3>2, EntriesAssumption
  <2>4. QED
    BY <2>1, <2>2, <2>3
<1>5. ASSUME NEW t \in Threads, NEW m \in Names, pc[t] = "erase",
             var_maps' = [var_maps EXCEPT ![thread_key(t)][m] = None]
      PROVE var_maps'[k][n] # None
  <2>1. t \in Unsetters
    BY <1>5 DEF Lives
  <2>2. thread_key(t) \in Keys /\ k # thread_key(t)
    BY <2>1, ThreadKeys DEF thread_key
  <2>3. ASSUME NEW q \in Keys, q # k, var_maps' = [var_maps EXCEPT ![q][m] = None]
        PROVE var_maps'[k][n] # None
    BY <1>1, <2>3 DEF Has, Maps
  <2>4. QED
    BY <1>5, <2>2, <2>3
<1>6. ASSUME NEW to \in Keys, NEW from \in Keys, Copy(to, from)
      PROVE var_maps'[k][n] # None
  BY <1>1, <1>6, CopyEffect DEF Has
<1>7. QED
  BY <1>2, <1>3, <1>4, <1>5, <1>6, Steps, ThreadKeys, Zenon DEF MapStep

\* After a copy the target has each global of the source, and none is older.
LEMMA CopyReaches ==
  ASSUME var_maps \in Maps, NEW to \in Keys, NEW from \in Keys, Copy(to, from),
         NEW n \in Globals, var_maps'[from][n] # None
  PROVE  /\ var_maps'[to][n] # None
         /\ var_maps'[to][n].time >= var_maps'[from][n].time
<1>1. n \in Names
  BY DEF Names
<1>2. var_maps'[to][n] =
        IF /\ Has(from, n)
           /\ Has(to, n) => var_maps[to][n].time < var_maps[from][n].time
        THEN var_maps[from][n] ELSE var_maps[to][n]
  BY <1>1 DEF Copy, Maps
<1>3. var_maps'[from][n] = var_maps[from][n]
  BY <1>1, CopyEffect DEF Copy, Maps
<1>4. Has(from, n)
  BY <1>3 DEF Has
<1>5. \A k \in Keys : Has(k, n) => var_maps[k][n].time \in Nat
  <2> SUFFICES ASSUME NEW k \in Keys, Has(k, n) PROVE var_maps[k][n].time \in Nat
    OBVIOUS
  <2>1. var_maps[k][n] \in Entries
    BY <1>1 DEF Maps, Has
  <2>2. QED
    BY <2>1 DEF Entries
<1>6. QED
  BY <1>2, <1>3, <1>4, <1>5 DEF Has

\* Results reach the caller, whatever the threads do and in whatever order they
\* end, if no two of them are started under one name.
THEOREM Results ==
  ASSUME OwnNames
  PROVE  Spec => []ResultsReachCaller
<1>1. Init => Past /\ Lives /\ ResultsReachCaller
  BY DEF Init, Past, Has, Lives, ResultsReachCaller, Threads
<1>2. TypeOK /\ Past /\ Lives /\ ResultsReachCaller /\ [Next]_vars => ResultsReachCaller'
  <2> SUFFICES ASSUME TypeOK, Past, Lives, ResultsReachCaller, [Next]_vars,
                      NEW w \in Workers, NEW n \in Globals,
                      pc'[w] = "done", this_key'[w] = KeyOf[w],
                      var_maps'[KeyOf[w]][n] # None,
                      caller_key'[w] \notin {Unknown} \cup {ListedKey(u) : u \in Unsetters},
                      \A u \in Workers : caller_key'[u] # KeyOf[w]
               PROVE  /\ var_maps'[caller_key'[w]][n] # None
                      /\ var_maps'[caller_key'[w]][n].time >= var_maps'[KeyOf[w]][n].time
    BY DEF ResultsReachCaller, Has, ListedKey
  <2>1. /\ pc[w] \in {"copy out", "done"} /\ (pc[w] = "done" \/ CopyOnFinal(w))
        /\ this_key[w] = KeyOf[w] /\ caller_key'[w] = caller_key[w]
        /\ \A u \in Workers : caller_key[u] \in {None, caller_key'[u]}
    BY Ended
  <2>2. n \in Names /\ KeyOf[w] \in Keys /\ caller_key[w] \in Keys /\ var_maps \in Maps
    BY <2>1, TypeParts DEF Names, Keys, Places
  <2>3. CASE pc[w] = "done"
    <3>1. \A u \in Workers : caller_key[u] # KeyOf[w]
      BY <2>1, <2>2
    <3>2. Has(KeyOf[w], n) /\ var_maps'[KeyOf[w]][n].time = var_maps[KeyOf[w]][n].time
      BY <2>1, <2>2, <2>3, <3>1, OwnMapRests
    <3>3. /\ Has(caller_key[w], n)
          /\ var_maps[caller_key[w]][n].time >= var_maps[KeyOf[w]][n].time
      BY <2>1, <2>3, <3>1, <3>2 DEF ResultsReachCaller
    <3>4. var_maps'[caller_key[w]][n] # None
      BY <2>1, <2>2, <3>3, CallerKeeps
    <3>5. var_maps[caller_key[w]][n].time <= var_maps'[caller_key[w]][n].time
      BY <2>2, <3>3, <3>4, TimeStep
    <3>6. var_maps' \in Maps
      BY TypeCorrectStep DEF TypeOK, Maps, Entries, Keys, Names
    <3>7. /\ var_maps[caller_key[w]][n] \in Entries /\ var_maps[KeyOf[w]][n] \in Entries
          /\ var_maps'[caller_key[w]][n] \in Entries
      BY <2>2, <3>2, <3>3, <3>4, <3>6 DEF Maps, Has
    <3>8. /\ var_maps[caller_key[w]][n].time \in Nat /\ var_maps[KeyOf[w]][n].time \in Nat
          /\ var_maps'[caller_key[w]][n].time \in Nat
      BY <3>7 DEF Entries
    <3>9. var_maps'[caller_key[w]][n].time >= var_maps'[KeyOf[w]][n].time
      BY <3>2, <3>3, <3>5, <3>8
    <3>10. QED
      BY <2>1, <3>4, <3>9
  <2>4. CASE CopyOnFinal(w)
    <3>1. Copy(caller_key[w], KeyOf[w])
      BY <2>1, <2>4 DEF CopyOnFinal
    <3>2. QED
      BY <2>1, <2>2, <3>1, CopyReaches
  <2>5. QED
    BY <2>1, <2>3, <2>4
<1>3. TypeOK /\ Past /\ [Next]_vars => Past'
  BY TimeStep
<1>4. TypeOK /\ Lives /\ [Next]_vars => Lives'
  BY LivesStep
<1>5. QED
  BY <1>1, <1>2, <1>3, <1>4, TypeCorrect, PTL DEF Spec
=============================================================================
