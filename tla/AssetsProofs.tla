---------------------------- MODULE AssetsProofs ----------------------------
(***************************************************************************)
(* Proofs about Assets, for any number of threads, names and ids.          *)
(***************************************************************************)
EXTENDS Assets, TLAPS

\* One step of thread t, whatever it is.
Step(t) ==
    \/ \E n \in NamesOf[t], i \in IdsOf[t] : Call(t, "set_asset_id", n, i)
    \/ \E n \in NamesOf[t] : Call(t, "remove_asset(name)", n, NoId)
    \/ \E i \in IdsOf[t] : Call(t, "remove_asset(id)", Null, i)
    \/ \E n \in Names : Call(t, "get_asset_id", n, NoId)
    \/ \E i \in Ids : Call(t, "get_asset_name", Null, i)
    \/ Check(t)
    \/ FindName(t)
    \/ ReadId(t)
    \/ FindId(t)
    \/ ReadName(t)
    \/ Erase(t)
    \/ Write(t)

LEMMA ArgumentTypes ==
    /\ \A t \in Threads : NamesOf[t] \subseteq Names /\ IdsOf[t] \subseteq Ids
    /\ Null \in Names /\ Empty \in Names
    /\ NoId \in Ids /\ DefaultId \in Ids
    /\ None \notin Names /\ None \notin Ids
  BY NamesAssumption, IdsAssumption, ArgumentsAssumption

\* The state stays of its type, whatever the threads share.
THEOREM TypeCorrect == Spec => []TypeOK
<1> USE ArgumentTypes DEF ByName, ById
<1>1. Init => TypeOK
  BY DEF Init, TypeOK
<1>2. TypeOK /\ [Next]_vars => TypeOK'
  <2> SUFFICES ASSUME TypeOK, [Next]_vars
               PROVE  TypeOK'
    OBVIOUS
  <2>1. ASSUME NEW t \in Threads, NEW call \in {"set_asset_id"} \cup ByName \cup ById,
               NEW n \in Names, NEW i \in Ids, Call(t, call, n, i)
        PROVE  TypeOK'
    BY <2>1 DEF Call, Goto, maps, TypeOK
  <2>2. ASSUME NEW t \in Threads, Check(t)
        PROVE  TypeOK'
    BY <2>2 DEF Check, Goto, maps, locals, TypeOK
  <2>3. ASSUME NEW t \in Threads, FindName(t)
        PROVE  TypeOK'
    BY <2>3 DEF FindName, Goto, maps, TypeOK
  <2>4. ASSUME NEW t \in Threads, ReadId(t)
        PROVE  TypeOK'
    <3>1. asset_map' \in [Names -> Ids \cup {None}] /\ asset_map'[name[t]] \in Ids
      BY <2>4 DEF ReadId, TypeOK
    <3> QED
      BY <2>4, <3>1 DEF ReadId, Goto, TypeOK
  <2>5. ASSUME NEW t \in Threads, FindId(t)
        PROVE  TypeOK'
    BY <2>5 DEF FindId, Goto, maps, TypeOK
  <2>6. ASSUME NEW t \in Threads, ReadName(t)
        PROVE  TypeOK'
    <3>1. /\ reverse_asset_map' \in [Ids -> Names \cup {None}]
          /\ reverse_asset_map'[id[t]] \in Names
      BY <2>6 DEF ReadName, TypeOK
    <3> QED
      BY <2>6, <3>1 DEF ReadName, Goto, TypeOK
  <2>7. ASSUME NEW t \in Threads, Erase(t)
        PROVE  TypeOK'
    BY <2>7 DEF Erase, ErasedId, Goto, locals, TypeOK
  <2>8. ASSUME NEW t \in Threads, Write(t)
        PROVE  TypeOK'
    BY <2>8 DEF Write, Goto, locals, TypeOK
  <2>9. CASE UNCHANGED vars
    BY <2>9 DEF vars, TypeOK
  <2> QED
    BY <2>1, <2>2, <2>3, <2>4, <2>5, <2>6, <2>7, <2>8, <2>9 DEF Next
<1> QED
  BY <1>1, <1>2, PTL DEF Spec

-----------------------------------------------------------------------------
\* Every entry was made by the thread that owns its name and its id, or by a
\* lookup.
Owned ==
    \A n \in Names, i \in Ids :
      /\ asset_map[n] = i =>
           i = DefaultId \/ \E t \in Threads : n \in NamesOf[t] /\ i \in IdsOf[t]
      /\ reverse_asset_map[i] = n =>
           n = Empty \/ \E t \in Threads : n \in NamesOf[t] /\ i \in IdsOf[t]

\* The calls that register or remove by name, and by id.
UsesName(t) == op[t] \in {"set_asset_id", "remove_asset(name)"}
UsesId(t) == op[t] \in {"set_asset_id", "remove_asset(id)"}

\* What a thread inside a call has been given.
CallOK(t) ==
    /\ pc[t] \in {"check", "write"} => op[t] = "set_asset_id"
    /\ pc[t] \in {"find name", "read id"} => op[t] \in {"set_asset_id"} \cup ByName
    /\ pc[t] \in {"find id", "read name"} => op[t] \in ById
    /\ pc[t] = "erase" => UsesName(t) \/ UsesId(t)
    /\ pc[t] # "idle" /\ UsesName(t) => name[t] \in NamesOf[t]
    /\ pc[t] # "idle" /\ UsesId(t) => id[t] \in IdsOf[t]
    /\ pc[t] = "erase" => name[t] \in NamesOf[t] \cup {Null, Empty}

\* What a thread has learnt from its earlier regions and still holds, whoever
\* has looked up the same name or id since: when it erases by name the id it
\* found is the only one that leads to the name, when it erases by id the name
\* it found is the only one the id leads to, and set_asset_id erases nothing of
\* its id and writes a name that nothing leads to.
NameFound(t) ==
    pc[t] = "erase" /\ UsesName(t) =>
      /\ \A j \in Ids : reverse_asset_map[j] = name[t] => j = found[t]
      /\ found[t] \in {NoId, DefaultId} \/ asset_map[name[t]] = found[t]
IdFound(t) ==
    pc[t] = "erase" /\ op[t] = "remove_asset(id)" =>
      /\ reverse_asset_map[id[t]] \in {None, Empty, name[t]}
      /\ name[t] \in {Null, Empty} \/ asset_map[name[t]] = id[t]
IdFree(t) ==
    op[t] = "set_asset_id" /\ pc[t] \in {"find name", "read id", "erase", "write"} =>
      reverse_asset_map[id[t]] \in {None, Empty}
NameFree(t) ==
    pc[t] = "write" => \A j \in Ids : reverse_asset_map[j] # name[t]
Learnt(t) == NameFound(t) /\ IdFound(t) /\ IdFree(t) /\ NameFree(t)

RegistryInv ==
    /\ TypeOK
    /\ Owned
    /\ PairsMatch
    /\ \A t \in Threads : CallOK(t) /\ Learnt(t)

\* The labels under which a thread changes a map.
LEMMA Labels ==
    ASSUME NEW t \in Threads, Step(t)
    PROVE  /\ ReadId(t) \/ Erase(t) \/ Write(t) \/ UNCHANGED asset_map
           /\ ReadName(t) \/ Erase(t) \/ Write(t) \/ UNCHANGED reverse_asset_map
<1>1. Check(t) \/ FindName(t) \/ FindId(t) => UNCHANGED maps
  BY DEF Check, FindName, FindId, maps
<1>2. \A call, m, j : Call(t, call, m, j) => UNCHANGED maps
  BY DEF Call
<1>3. ReadName(t) => UNCHANGED asset_map
  BY DEF ReadName
<1>4. ReadId(t) => UNCHANGED reverse_asset_map
  BY DEF ReadId
<1> QED
  BY <1>1, <1>2, <1>3, <1>4 DEF Step, maps

\* A step of one thread changes none of another thread's locals, and of the
\* other's names and ids only what a lookup adds, so that what the other has
\* learnt still holds.
LEMMA Frame ==
    ASSUME RegistryInv, OwnRegistrations, NEW t \in Threads, Step(t),
           NEW u \in Threads, u # t
    PROVE  CallOK(u)' /\ Learnt(u)'
<1> USE ArgumentTypes DEF RegistryInv, TypeOK
<1>1. ASSUME NEW n \in NamesOf[u]
      PROVE  asset_map[n] # None => asset_map'[n] = asset_map[n]
  <2>1. n \in Names
    OBVIOUS
  <2>2. CASE UNCHANGED asset_map
    BY <2>2
  <2>3. CASE ReadId(t)
    BY <2>1, <2>3 DEF ReadId
  <2>4. CASE Erase(t)
    <3>1. name[t] \in NamesOf[t] \cup {Null, Empty}
      BY <2>4 DEF Erase, CallOK
    <3>2. n # name[t]
      BY <3>1, ZenonT(30) DEF OwnRegistrations
    <3> QED
      BY <2>1, <2>4, <3>2 DEF Erase
  <2>5. CASE Write(t)
    <3>1. name[t] \in NamesOf[t]
      BY <2>5 DEF Write, CallOK, UsesName
    <3>2. n # name[t]
      BY <3>1 DEF OwnRegistrations
    <3> QED
      BY <2>1, <2>5, <3>2 DEF Write
  <2> QED
    BY <2>2, <2>3, <2>4, <2>5, Labels
<1>2. ASSUME NEW j \in Ids
      PROVE  \/ reverse_asset_map'[j] \in {reverse_asset_map[j], None, Empty}
             \/ j \in IdsOf[t] /\ reverse_asset_map'[j] \in NamesOf[t]
  <2>1. CASE UNCHANGED reverse_asset_map
    BY <2>1
  <2>2. CASE ReadName(t)
    BY <2>2 DEF ReadName
  <2>3. CASE Erase(t)
    BY <2>3 DEF Erase
  <2>4. CASE Write(t)
    <3>1. name[t] \in NamesOf[t] /\ id[t] \in IdsOf[t]
      BY <2>4 DEF Write, CallOK, UsesName, UsesId
    <3> QED
      BY <2>4, <3>1 DEF Write
  <2> QED
    BY <2>1, <2>2, <2>3, <2>4, Labels
<1>3. /\ pc'[u] = pc[u] /\ op'[u] = op[u] /\ name'[u] = name[u]
      /\ id'[u] = id[u] /\ found'[u] = found[u]
  BY ZenonT(30) DEF Step, Call, Check, FindName, FindId, ReadId, ReadName, Erase, Write,
     Goto, locals
<1>4. CallOK(u)'
  BY <1>3 DEF CallOK, UsesName, UsesId
<1>5. Learnt(u)'
  <2>1. ASSUME NEW j \in Ids, pc[u] # "idle", UsesName(u),
               reverse_asset_map'[j] = name[u]
        PROVE  reverse_asset_map[j] = name[u]
    <3>1. name[u] \in NamesOf[u]
      BY <2>1 DEF CallOK
    <3>2. name[u] \notin {None, Empty} /\ name[u] \notin NamesOf[t]
      BY <3>1 DEF OwnRegistrations
    <3> QED
      BY <1>2, <2>1, <3>2
  <2>2. pc[u] # "idle" /\ UsesId(u) =>
          /\ id[u] \in Ids
          /\ reverse_asset_map'[id[u]] \in {reverse_asset_map[id[u]], None, Empty}
    <3>1. ASSUME pc[u] # "idle", UsesId(u)
          PROVE  id[u] \in Ids /\ id[u] \notin IdsOf[t]
      BY <3>1 DEF CallOK, OwnRegistrations
    <3> QED
      BY <1>2, <3>1
  <2>3. NameFound(u)'
    <3>1. ASSUME pc[u] = "erase", UsesName(u)
          PROVE  /\ \A j \in Ids : reverse_asset_map'[j] = name[u] => j = found[u]
                 /\ found[u] \in {NoId, DefaultId} \/ asset_map'[name[u]] = found[u]
      <4>1. /\ \A j \in Ids : reverse_asset_map[j] = name[u] => j = found[u]
            /\ found[u] \in {NoId, DefaultId} \/ asset_map[name[u]] = found[u]
        BY <3>1 DEF Learnt, NameFound
      <4>2. name[u] \in NamesOf[u] /\ found[u] # None
        BY <3>1 DEF CallOK
      <4> QED
        BY <1>1, <2>1, <3>1, <4>1, <4>2
    <3> QED
      BY <1>3, <3>1 DEF NameFound, UsesName
  <2>4. IdFound(u)'
    <3>1. ASSUME pc[u] = "erase", op[u] = "remove_asset(id)"
          PROVE  /\ reverse_asset_map'[id[u]] \in {None, Empty, name[u]}
                 /\ name[u] \in {Null, Empty} \/ asset_map'[name[u]] = id[u]
      <4>1. /\ reverse_asset_map[id[u]] \in {None, Empty, name[u]}
            /\ name[u] \in {Null, Empty} \/ asset_map[name[u]] = id[u]
        BY <3>1 DEF Learnt, IdFound
      <4>2. name[u] \in NamesOf[u] \cup {Null, Empty} /\ id[u] # None
        BY <3>1 DEF CallOK
      <4>3. UsesId(u)
        BY <3>1 DEF UsesId
      <4> QED
        BY <1>1, <2>2, <3>1, <4>1, <4>2, <4>3
    <3> QED
      BY <1>3, <3>1 DEF IdFound
  <2>5. IdFree(u)'
    BY <1>3, <2>2 DEF Learnt, IdFree, UsesId
  <2>6. NameFree(u)'
    BY <1>3, <2>1 DEF Learnt, NameFree, CallOK, UsesName
  <2> QED
    BY <2>3, <2>4, <2>5, <2>6 DEF Learnt
<1> QED
  BY <1>4, <1>5

\* A region that reads keeps the maps.
LEMMA MapsKept ==
    ASSUME RegistryInv, UNCHANGED maps
    PROVE  Owned' /\ PairsMatch'
<1>1. asset_map' = asset_map /\ reverse_asset_map' = reverse_asset_map
  BY DEF maps
<1> QED
  BY <1>1, Zenon DEF RegistryInv, Owned, PairsMatch

\* A step keeps names and ids paired and owned, and its own thread knows what it
\* has learnt by it.
LEMMA StepKeeps ==
    ASSUME RegistryInv, OwnRegistrations, NEW t \in Threads, Step(t), TypeOK'
    PROVE  Owned' /\ PairsMatch' /\ CallOK(t)' /\ Learnt(t)'
<1> USE ArgumentTypes
<1>1. TypeOK /\ Owned /\ PairsMatch /\ CallOK(t) /\ Learnt(t)
  BY DEF RegistryInv
<1> USE <1>1
<1> USE DEF UsesName, UsesId
<1>2. ASSUME NEW call, NEW n, NEW i, Call(t, call, n, i),
             \/ call = "set_asset_id" /\ n \in NamesOf[t] /\ i \in IdsOf[t]
             \/ call = "remove_asset(name)" /\ n \in NamesOf[t]
             \/ call = "remove_asset(id)" /\ i \in IdsOf[t]
             \/ call \in {"get_asset_id", "get_asset_name"}
      PROVE  Owned' /\ PairsMatch' /\ CallOK(t)' /\ Learnt(t)'
  <2>1. /\ UNCHANGED maps
        /\ op'[t] = call /\ name'[t] = n /\ id'[t] = i
        /\ pc'[t] = (IF call = "set_asset_id" THEN "check"
                     ELSE IF call \in ByName THEN "find name" ELSE "find id")
    BY <1>2 DEF Call, Goto, TypeOK
  <2>2. Owned' /\ PairsMatch'
    BY <2>1, MapsKept
  <2>3. CallOK(t)'
    BY <1>2, <2>1 DEF CallOK, ByName, ById
  <2>4. Learnt(t)'
    BY <1>2, <2>1 DEF Learnt, NameFound, IdFound, IdFree, NameFree, ByName, ById
  <2> QED
    BY <2>2, <2>3, <2>4
<1>3. CASE Check(t)
  <2>1. /\ UNCHANGED maps
        /\ op'[t] = op[t] /\ name'[t] = name[t] /\ id'[t] = id[t]
        /\ pc'[t] = IF reverse_asset_map[id[t]] # None THEN "idle" ELSE "find name"
    BY <1>3 DEF Check, Goto, locals, TypeOK
  <2>2. Owned' /\ PairsMatch'
    BY <2>1, MapsKept
  <2>3. CallOK(t)'
    BY <1>3, <2>1 DEF Check, CallOK, ByName, ById
  <2>4. Learnt(t)'
    BY <1>3, <2>1 DEF Check, CallOK, Learnt, NameFound, IdFound, IdFree, NameFree, maps
  <2> QED
    BY <2>2, <2>3, <2>4
<1>4. CASE FindName(t)
  <2>1. /\ UNCHANGED maps /\ pc[t] = "find name"
        /\ op'[t] = op[t] /\ name'[t] = name[t] /\ id'[t] = id[t] /\ found'[t] = NoId
        /\ pc'[t] = (IF asset_map[name[t]] # None THEN "read id"
                     ELSE IF op[t] = "get_asset_id" THEN "idle" ELSE "erase")
    BY <1>4 DEF FindName, Goto, TypeOK
  <2>2. Owned' /\ PairsMatch'
    BY <2>1, MapsKept
  <2>3. CallOK(t)'
    BY <2>1 DEF CallOK, ByName, ById
  <2>4. NameFound(t)'
    <3>1. ASSUME pc'[t] = "erase", UsesName(t), NEW j \in Ids,
                 reverse_asset_map[j] = name[t]
          PROVE  FALSE
      <4>1. name[t] \in NamesOf[t] /\ name[t] # Empty /\ name[t] \in Names
        BY <2>1, <3>1 DEF CallOK, OwnRegistrations
      <4>2. asset_map[name[t]] = j
        BY <3>1, <4>1 DEF PairsMatch
      <4> QED
        BY <2>1, <3>1, <4>2
    <3> QED
      BY <2>1, <3>1 DEF NameFound, maps
  <2>5. IdFound(t)' /\ IdFree(t)' /\ NameFree(t)'
    BY <2>1 DEF CallOK, Learnt, IdFound, IdFree, NameFree, ByName, maps
  <2> QED
    BY <2>2, <2>3, <2>4, <2>5 DEF Learnt
<1>5. CASE ReadId(t)
  <2>1. /\ pc[t] = "read id" /\ reverse_asset_map' = reverse_asset_map
        /\ name[t] \in Names
        /\ \A n \in Names : asset_map'[n] =
             IF n = name[t] /\ asset_map[n] = None THEN DefaultId ELSE asset_map[n]
        /\ op'[t] = op[t] /\ name'[t] = name[t] /\ id'[t] = id[t]
        /\ found'[t] = asset_map'[name[t]]
        /\ pc'[t] = IF op[t] = "get_asset_id" THEN "idle" ELSE "erase"
    BY <1>5 DEF ReadId, Goto, TypeOK
  <2>2. Owned'
    BY <2>1 DEF Owned
  <2>3. PairsMatch'
    <3> SUFFICES ASSUME NEW n \in Names \ {Empty}, NEW i \in Ids
                 PROVE  /\ reverse_asset_map[i] = n => asset_map'[n] = i
                        /\ asset_map'[n] = i /\ i # DefaultId => reverse_asset_map[i] = n
      BY <1>5 DEF ReadId, PairsMatch
    <3>1. i # None
      OBVIOUS
    <3>2. /\ reverse_asset_map[i] = n => asset_map[n] = i
          /\ asset_map[n] = i /\ i # DefaultId => reverse_asset_map[i] = n
      BY DEF PairsMatch
    <3> QED
      BY <2>1, <3>1, <3>2
  <2>4. CallOK(t)'
    BY <2>1 DEF CallOK, ByName, ById
  <2>5. NameFound(t)'
    <3>1. ASSUME UsesName(t), NEW j \in Ids, reverse_asset_map[j] = name[t]
          PROVE  j = asset_map'[name[t]]
      <4>1. name[t] # Empty
        BY <2>1, <3>1 DEF CallOK, OwnRegistrations
      <4> QED
        BY <2>1, <3>1, <4>1 DEF PairsMatch
    <3> QED
      BY <2>1, <3>1 DEF NameFound
  <2>6. IdFound(t)' /\ IdFree(t)' /\ NameFree(t)'
    BY <2>1 DEF CallOK, Learnt, IdFound, IdFree, NameFree, ByName
  <2> QED
    BY <2>2, <2>3, <2>4, <2>5, <2>6 DEF Learnt
<1>6. CASE FindId(t)
  <2>1. /\ UNCHANGED maps /\ pc[t] = "find id"
        /\ op'[t] = op[t] /\ name'[t] = Null /\ id'[t] = id[t]
        /\ pc'[t] = (IF reverse_asset_map[id[t]] # None THEN "read name"
                     ELSE IF op[t] = "get_asset_name" THEN "idle" ELSE "erase")
    BY <1>6 DEF FindId, Goto, TypeOK
  <2>2. Owned' /\ PairsMatch'
    BY <2>1, MapsKept
  <2>3. CallOK(t)'
    BY <2>1 DEF CallOK, ByName, ById
  <2>4. Learnt(t)'
    BY <2>1 DEF CallOK, Learnt, NameFound, IdFound, IdFree, NameFree, ById, maps
  <2> QED
    BY <2>2, <2>3, <2>4
<1>7. CASE ReadName(t)
  <2>1. /\ pc[t] = "read name" /\ asset_map' = asset_map /\ id[t] \in Ids
        /\ \A i \in Ids : reverse_asset_map'[i] =
             IF i = id[t] /\ reverse_asset_map[i] = None THEN Empty ELSE reverse_asset_map[i]
        /\ op'[t] = op[t] /\ name'[t] = reverse_asset_map'[id[t]] /\ id'[t] = id[t]
        /\ pc'[t] = IF op[t] = "get_asset_name" THEN "idle" ELSE "erase"
    BY <1>7 DEF ReadName, Goto, TypeOK
  <2>2. Owned'
    BY <2>1 DEF Owned
  <2>3. PairsMatch'
    <3> SUFFICES ASSUME NEW n \in Names \ {Empty}, NEW i \in Ids
                 PROVE  /\ reverse_asset_map'[i] = n => asset_map[n] = i
                        /\ asset_map[n] = i /\ i # DefaultId => reverse_asset_map'[i] = n
      BY <1>7 DEF ReadName, PairsMatch
    <3>1. n # None
      OBVIOUS
    <3>2. /\ reverse_asset_map[i] = n => asset_map[n] = i
          /\ asset_map[n] = i /\ i # DefaultId => reverse_asset_map[i] = n
      BY DEF PairsMatch
    <3> QED
      BY <2>1, <3>1, <3>2
  <2>4. reverse_asset_map'[id[t]] \in Names
    BY <2>1 DEF TypeOK
  <2>5. op[t] = "remove_asset(id)" /\ reverse_asset_map'[id[t]] # Empty
        => reverse_asset_map'[id[t]] \in NamesOf[t]
    BY <2>1, <2>4 DEF Owned, CallOK, OwnRegistrations
  <2>6. CallOK(t)'
    BY <2>1, <2>5 DEF CallOK, ByName, ById
  <2>7. IdFound(t)'
    <3>1. reverse_asset_map[id[t]] \in Names \ {Empty} =>
            asset_map[reverse_asset_map[id[t]]] = id[t]
      BY <2>1 DEF PairsMatch
    <3>2. reverse_asset_map[id[t]] \in Names \cup {None}
      BY <2>1 DEF TypeOK
    <3>3. CASE reverse_asset_map[id[t]] = None
      BY <2>1, <3>3 DEF IdFound
    <3>4. CASE reverse_asset_map[id[t]] # None
      BY <2>1, <3>1, <3>2, <3>4 DEF IdFound
    <3> QED
      BY <3>3, <3>4
  <2>8. NameFound(t)' /\ IdFree(t)' /\ NameFree(t)'
    BY <2>1 DEF CallOK, Learnt, NameFound, IdFree, NameFree, ById
  <2> QED
    BY <2>2, <2>3, <2>6, <2>7, <2>8 DEF Learnt
<1>8. CASE Erase(t)
  <2>1. /\ pc[t] = "erase" /\ ErasedId(t) \in Ids /\ name[t] \in Names
        /\ op'[t] = op[t] /\ name'[t] = name[t] /\ id'[t] = id[t]
        /\ pc'[t] = IF op[t] = "set_asset_id" THEN "write" ELSE "idle"
    BY <1>8 DEF Erase, ErasedId, Goto, locals, TypeOK
  <2>2. /\ \A n \in Names : asset_map'[n] = IF n = name[t] THEN None ELSE asset_map[n]
        /\ \A i \in Ids : reverse_asset_map'[i] =
             IF i = ErasedId(t) THEN None ELSE reverse_asset_map[i]
    BY <1>8 DEF Erase, TypeOK
  <2>3. ASSUME NEW i \in Ids, reverse_asset_map[i] = name[t], name[t] # Empty
        PROVE  i = ErasedId(t)
    <3>1. name[t] # Null
      BY <2>1, <2>3 DEF Owned, OwnRegistrations
    <3>2. asset_map[name[t]] = i
      BY <2>1, <2>3 DEF PairsMatch
    <3>3. CASE op[t] = "remove_asset(id)"
      BY <2>1, <2>3, <3>1, <3>2, <3>3 DEF Learnt, IdFound, ErasedId
    <3>4. CASE op[t] # "remove_asset(id)"
      BY <2>1, <2>3, <3>4 DEF Learnt, NameFound, CallOK, ErasedId
    <3> QED
      BY <3>3, <3>4
  <2>4. ASSUME NEW n \in Names \ {Empty}, asset_map[n] = ErasedId(t),
               ErasedId(t) # DefaultId
        PROVE  n = name[t]
    <3>1. reverse_asset_map[ErasedId(t)] = n
      BY <2>1, <2>4 DEF PairsMatch
    <3>2. ErasedId(t) # NoId
      BY <2>1, <3>1 DEF Owned, OwnRegistrations
    <3>3. CASE op[t] = "remove_asset(id)"
      BY <2>1, <2>4, <3>1, <3>3 DEF Learnt, IdFound, ErasedId
    <3>4. CASE op[t] # "remove_asset(id)"
      <4>1. asset_map[name[t]] = ErasedId(t) /\ name[t] # Empty
        BY <2>1, <2>4, <3>2, <3>4 DEF Learnt, NameFound, CallOK, ErasedId, OwnRegistrations
      <4>2. reverse_asset_map[ErasedId(t)] = name[t]
        BY <2>1, <2>4, <4>1 DEF PairsMatch
      <4> QED
        BY <3>1, <4>2
    <3> QED
      BY <3>3, <3>4
  <2>5. Owned'
    BY <2>2 DEF Owned
  <2>6. PairsMatch'
    BY <2>1, <2>2, <2>3, <2>4 DEF PairsMatch
  <2>7. CallOK(t)'
    BY <2>1 DEF CallOK, ByName, ById
  <2>8. Learnt(t)'
    <3>1. NameFound(t)' /\ IdFound(t)'
      BY <2>1 DEF NameFound, IdFound
    <3>2. IdFree(t)'
      <4>1. id[t] \in Ids
        BY DEF TypeOK
      <4> QED
        BY <2>1, <2>2, <4>1 DEF Learnt, IdFree
    <3>3. NameFree(t)'
      <4>1. op[t] = "set_asset_id" => name[t] # Empty
        BY <2>1 DEF CallOK, OwnRegistrations
      <4> QED
        BY <2>1, <2>2, <2>3, <4>1 DEF NameFree
    <3> QED
      BY <3>1, <3>2, <3>3 DEF Learnt
  <2> QED
    BY <2>5, <2>6, <2>7, <2>8
<1>9. CASE Write(t)
  <2>1. /\ name[t] \in NamesOf[t] /\ id[t] \in IdsOf[t]
        /\ name[t] \in Names /\ id[t] \in Ids /\ name[t] # Empty
        /\ pc'[t] = "idle"
    BY <1>9 DEF Write, CallOK, Goto, TypeOK, OwnRegistrations
  <2>2. /\ reverse_asset_map[id[t]] \in {None, Empty}
        /\ \A j \in Ids : reverse_asset_map[j] # name[t]
    BY <1>9 DEF Write, CallOK, Learnt, IdFree, NameFree
  <2>3. /\ \A n \in Names : asset_map'[n] = IF n = name[t] THEN id[t] ELSE asset_map[n]
        /\ \A i \in Ids : reverse_asset_map'[i] =
             IF i = id[t] THEN name[t] ELSE reverse_asset_map[i]
    BY <1>9 DEF Write, TypeOK
  <2>4. Owned'
    BY <2>1, <2>3 DEF Owned
  <2>5. PairsMatch'
    BY <2>1, <2>2, <2>3 DEF PairsMatch
  <2>6. CallOK(t)' /\ Learnt(t)'
    BY <2>1 DEF CallOK, Learnt, NameFound, IdFound, IdFree, NameFree
  <2> QED
    BY <2>4, <2>5, <2>6
<1>10. CASE \/ \E n \in NamesOf[t], i \in IdsOf[t] : Call(t, "set_asset_id", n, i)
            \/ \E n \in NamesOf[t] : Call(t, "remove_asset(name)", n, NoId)
            \/ \E i \in IdsOf[t] : Call(t, "remove_asset(id)", Null, i)
            \/ \E n \in Names : Call(t, "get_asset_id", n, NoId)
            \/ \E i \in Ids : Call(t, "get_asset_name", Null, i)
  BY <1>2, <1>10
<1> QED
  BY <1>3, <1>4, <1>5, <1>6, <1>7, <1>8, <1>9, <1>10 DEF Step

\* The invariant of the submodule: what each thread has learnt of its own names
\* and ids still holds when it acts on it, whatever the others look up.
LEMMA RegistryInvariant ==
    ASSUME OwnRegistrations
    PROVE  Spec => []RegistryInv
<1>1. TypeOK /\ Init => RegistryInv
  BY ArgumentTypes DEF Init, RegistryInv, Owned, PairsMatch, CallOK, Learnt,
     NameFound, IdFound, IdFree, NameFree, UsesName, UsesId
<1>2. RegistryInv /\ TypeOK' /\ [Next]_vars => RegistryInv'
  <2> SUFFICES ASSUME RegistryInv, TypeOK', [Next]_vars
               PROVE  RegistryInv'
    OBVIOUS
  <2>1. ASSUME NEW t \in Threads, Step(t)
        PROVE  RegistryInv'
    <3>1. \A u \in Threads : (CallOK(u) /\ Learnt(u))'
      BY <2>1, StepKeeps, Frame
    <3> QED
      BY <2>1, <3>1, StepKeeps DEF RegistryInv
  <2>2. CASE UNCHANGED vars
    <3>1. Owned' /\ PairsMatch'
      BY <2>2, MapsKept DEF vars, maps
    <3>2. \A t \in Threads : (CallOK(t) /\ Learnt(t))'
      BY <2>2 DEF vars, RegistryInv, CallOK, Learnt, NameFound, IdFound, IdFree,
         NameFree, UsesName, UsesId
    <3> QED
      BY <3>1, <3>2 DEF RegistryInv
  <2> QED
    BY <2>1, <2>2 DEF Next, Step
<1> QED
  BY <1>1, <1>2, TypeCorrect, PTL DEF Spec

\* When every name and id is registered and removed by one thread, names and ids
\* stay paired, whatever any thread looks up and whenever: the stale answers of
\* has_asset that lookups act on leave nothing behind but the id 0 and the empty
\* name.
THEOREM Paired ==
    ASSUME OwnRegistrations
    PROVE  Spec => []PairsMatch
<1>1. RegistryInv => PairsMatch
  BY DEF RegistryInv
<1> QED
  BY <1>1, RegistryInvariant, PTL
=============================================================================
