------------------------- MODULE NameUriCache_proofs -------------------------
(***************************************************************************)
(* Proofs about NameUriCache, for any resources, names and Python objects: *)
(* type correctness, StalenessBounded and FollowsOwnChanges.                *)
(***************************************************************************)
EXTENDS NameUriCache, TLAPS

\* The call that the user thread is in names an object, and a change a name; an answer
\* is only there for the method that asked for it.
CallShape ==
    /\ pc # "answered" => \A u \in Uri : reply[u] = NoName
    /\ pc # "idle" => call.obj \in Object
    /\ pc \in {"created", "posted", "forgotten"} => call.name \in Name

\* A name that a resource has now counts as one that it has had, and an answer of the
\* HMC is no older than the last invalidation.
HadNow ==
    /\ \A u \in Uri : Alive(u) => u \in had[hmc[u]]
    /\ \A u \in Uri : reply[u] # NoName => u \in had[reply[u]]

\* What the call under way is going to enter into the cache.
EntryToCome ==
    /\ pc \in {"created", "posted", "forgotten"} =>
          objUri[call.obj] \in Uri \cap had[call.name]
    /\ pc = "stored" =>
          /\ objName[call.obj] \in Name
          /\ objUri[call.obj] \in Uri \cap (had[objName[call.obj]] \cup raced)

\* FollowsOwnChanges for the moments within a call too: an entry may be wrong that
\* the rename or the deletion under way will remove, an answer may be wrong about a
\* resource that was changed since, and what will be entered is right.
FollowsInCall ==
    /\ \A n \in Name :
          \/ cache[n] = NoUri
          \/ cache[n] \in astray \cup raced
          \/ hmc[cache[n]] = n
          \/ pc \in {"posted", "deleted"} /\ n = objName[call.obj] /\ cache[n] = objUri[call.obj]
    /\ \A u \in Uri : reply[u] # NoName => hmc[u] = reply[u] \/ u \in astray
    /\ pc \in {"created", "posted", "forgotten"} =>
          objUri[call.obj] \in astray \cup raced \/ hmc[objUri[call.obj]] = call.name
    /\ pc = "stored" =>
          objUri[call.obj] \in astray \cup raced \/ hmc[objUri[call.obj]] = objName[call.obj]

StaleInv == TypeOK /\ CallShape /\ HadNow /\ EntryToCome /\ StalenessBounded

--------------------------------------------------------------------------------
(* Type correctness, with the shape of a call: the cache gets an entry from the  *)
(* object of the call, so neither is inductive without the other.                *)

TypeInv == TypeOK /\ CallShape

LEMMA TypeInit == Init => TypeInv
<1> SUFFICES ASSUME Init PROVE TypeInv
  OBVIOUS
<1>1. hmc \in [Uri -> Name \cup {Unborn, Gone}]
  BY DEF Init
<1>2. had \in [Name -> SUBSET Uri]
  BY DEF Init, Current
<1>3. chan \in Seq([uri : Uri, name : Name]) /\ Len(chan) <= MaxChan + 1
  BY CacheAssumption, SMT DEF Init
<1>4. call \in [op : {"none", "list", "find", "create", "rename", "delete"},
                obj : Object \cup {NoUri}, name : Name \cup {NoName}]
  BY DEF Init, NoCall
<1>5. reply \in [Uri -> Name \cup {NoName}]
  BY DEF Init, NoReply
<1> QED BY <1>1, <1>2, <1>3, <1>4, <1>5 DEF Init, NoReply, TypeInv, TypeOK, CallShape

\* A name given to a resource is recorded and, for a change, notified.
LEMMA SetNameType ==
    ASSUME TypeOK, NEW u \in Uri, NEW n \in Name, SetName(u, n),
           Alive(u) => Len(chan) <= MaxChan
    PROVE  /\ hmc' \in [Uri -> Name \cup {Unborn, Gone}]
           /\ had' \in [Name -> SUBSET Uri]
           /\ chan' \in Seq([uri : Uri, name : Name]) /\ Len(chan') <= MaxChan + 1
<1>1. hmc' \in [Uri -> Name \cup {Unborn, Gone}]
  BY DEF TypeOK, SetName
<1>2. had' \in [Name -> SUBSET Uri]
  BY DEF TypeOK, SetName
<1>3. CASE Alive(u)
  <2> DEFINE m == [uri |-> u, name |-> n]
  <2>1. m \in [uri : Uri, name : Name] /\ chan' = Append(chan, m)
    BY <1>3 DEF SetName
  <2> HIDE DEF m
  <2> QED BY <1>1, <1>2, <1>3, <2>1, CacheAssumption, SMT DEF TypeOK
<1>4. CASE ~Alive(u)
  BY <1>1, <1>2, <1>4 DEF SetName, TypeOK
<1> QED BY <1>3, <1>4

\* Taking the head of a sequence.
LEMMA HeadTailType ==
    ASSUME NEW S, NEW s \in Seq(S), s # <<>>
    PROVE  Head(s) \in S /\ Tail(s) \in Seq(S) /\ Len(Tail(s)) <= Len(s)
  BY SMT

\* Every name that an answer fills in belongs to a resource of the answer.
LEMMA UpdateFromEntry ==
    ASSUME TypeOK, NEW n \in Name
    PROVE  LET v == UpdateFrom(cache, reply)[n]
           IN \/ v \in Uri /\ reply[v] = n
              \/ v = cache[n]
<1>1. CASE \E u \in Uri : reply[u] = n
  BY <1>1 DEF UpdateFrom
<1>2. CASE ~ \E u \in Uri : reply[u] = n
  BY <1>2 DEF UpdateFrom
<1> QED BY <1>1, <1>2

LEMMA TypeNext == TypeInv /\ [Next]_vars => TypeInv'
<1> SUFFICES ASSUME TypeInv, [Next]_vars PROVE TypeInv'
  OBVIOUS
<1> USE DEF TypeInv
<1>1. ASSUME NEW u \in Uri, NEW n \in Name, OtherNames(u, n) PROVE TypeInv'
  <2>1. SetName(u, n) /\ Len(chan) <= MaxChan
    BY <1>1, CacheAssumption, SMT DEF OtherNames, TypeOK
  <2> QED BY <1>1, <2>1, SetNameType DEF OtherNames, TypeOK, CallShape, objVars, callVars
<1>2. ASSUME NEW u \in Uri, OtherDeletes(u) PROVE TypeInv'
  BY <1>2 DEF OtherDeletes, TypeOK, CallShape, objVars, callVars
<1>3. CASE AnswerList
  BY <1>3 DEF AnswerList, Alive, TypeOK, CallShape, hmcVars, objVars, history
<1>4. CASE Invalidate
  BY <1>4 DEF Invalidate, InvalidateTo, Empty, Current, TypeOK, CallShape, hmcVars, objVars,
              callVars
<1>5. ASSUME NEW o \in Object, List(o) PROVE TypeInv'
  BY <1>5 DEF List, Begin, TypeOK, CallShape, hmcVars, objVars, history
<1>6. ASSUME NEW o \in Object, NEW n \in Name, FindCached(o, n) PROVE TypeInv'
  BY <1>6 DEF FindCached, Hold, TypeOK, CallShape, hmcVars, callVars, history
<1>7. ASSUME NEW o \in Object, NEW n \in Name, FindRefresh(o, n) PROVE TypeInv'
  BY <1>7 DEF FindRefresh, InvalidateTo, Empty, Current, Begin, TypeOK, CallShape, hmcVars,
              objVars
<1>8. CASE EndList
  <2>1. cache' \in [Name -> Uri \cup {NoUri}]
    <3>1. \A n \in Name : UpdateFrom(cache, reply)[n] \in Uri \cup {NoUri}
      BY UpdateFromEntry DEF TypeOK
    <3> QED BY <1>8, <3>1 DEF EndList, UpdateFrom
  <2>2. /\ objUri' \in [Object -> Uri \cup {NoUri}]
        /\ objName' \in [Object -> Name \cup {NoName}]
        /\ auto' \subseteq Object
    BY <1>8 DEF EndList, Hold, TypeOK, objVars
  <2> QED BY <1>8, <2>1, <2>2 DEF EndList, Return, NoCall, NoReply, TypeOK, CallShape, hmcVars,
                                  history
<1>9. ASSUME NEW o \in Object, NEW u \in Uri, NEW n \in Name, Create(o, u, n) PROVE TypeInv'
  <2>1. SetName(u, n) /\ ~Alive(u)
    BY <1>9, CacheAssumption DEF Create, Alive
  <2> QED BY <1>9, <2>1, SetNameType DEF Create, Hold, Begin, TypeOK, CallShape
<1>10. CASE EndCreate
  BY <1>10 DEF EndCreate, Return, NoCall, NoReply, TypeOK, CallShape, hmcVars, objVars, history
<1>11. ASSUME NEW o \in Object, NEW n \in Name, Rename(o, n) PROVE TypeInv'
  <2>1. objUri[o] \in Uri /\ SetName(objUri[o], n) /\ Len(chan) <= MaxChan
    BY <1>11 DEF Rename, TypeOK
  <2>2. astray' \subseteq Uri
    BY <1>11, <2>1 DEF Rename, TypeOK
  <2> QED BY <1>11, <2>1, <2>2, SetNameType DEF Rename, Begin, TypeOK, CallShape, objVars
<1>12. CASE ForgetOldName
  BY <1>12 DEF ForgetOldName, TypeOK, CallShape, hmcVars, objVars, history
<1>13. CASE StoreName
  BY <1>13 DEF StoreName, TypeOK, CallShape, hmcVars, history
<1>14. CASE EndRename
  BY <1>14 DEF EndRename, Return, NoCall, NoReply, TypeOK, CallShape, hmcVars, objVars, history
<1>15. ASSUME NEW o \in Object, Delete(o) PROVE TypeInv'
  <2>1. objUri[o] \in Uri
    BY <1>15 DEF Delete, TypeOK
  <2> QED BY <1>15, <2>1 DEF Delete, Begin, TypeOK, CallShape, objVars
<1>16. CASE EndDelete
  BY <1>16 DEF EndDelete, Return, NoCall, NoReply, TypeOK, CallShape, hmcVars, objVars, history
<1>17. ASSUME NEW o \in Object, EnableObject(o) PROVE TypeInv'
  BY <1>17 DEF EnableObject, Alive, TypeOK, CallShape, hmcVars, callVars, history
<1>18. CASE OnNameChange
  <2>1. /\ Head(chan) \in [uri : Uri, name : Name]
        /\ chan' \in Seq([uri : Uri, name : Name]) /\ Len(chan') <= MaxChan + 1
    <3>1. chan \in Seq([uri : Uri, name : Name]) /\ chan # <<>> /\ chan' = Tail(chan)
      BY <1>18 DEF OnNameChange, TypeOK
    <3>2. Head(chan) \in [uri : Uri, name : Name]
      BY <3>1, HeadTailType
    <3>3. chan' \in Seq([uri : Uri, name : Name]) /\ Len(chan') <= Len(chan)
      BY <3>1, HeadTailType
    <3> QED BY <3>1, <3>2, <3>3, CacheAssumption, SMT DEF TypeOK
  <2>2. objName' \in [Object -> Name \cup {NoName}] /\ raced' \subseteq Uri
    BY <1>18, <2>1 DEF OnNameChange, TypeOK
  <2> QED BY <1>18, <2>1, <2>2 DEF OnNameChange, TypeOK, CallShape, callVars
<1>19. CASE UNCHANGED vars
  BY <1>19 DEF vars, hmcVars, objVars, callVars, history, TypeOK, CallShape
<1> QED BY <1>1, <1>2, <1>3, <1>4, <1>5, <1>6, <1>7, <1>8, <1>9, <1>10, <1>11, <1>12, <1>13,
           <1>14, <1>15, <1>16, <1>17, <1>18, <1>19 DEF Next

LEMMA TypeInvariant == Spec => []TypeInv
  BY TypeInit, TypeNext, PTL DEF Spec

\* Every variable has its type in every reachable state.
THEOREM TypeCorrect == Spec => []TypeOK
  BY TypeInvariant, PTL DEF TypeInv

--------------------------------------------------------------------------------
(* StalenessBounded *)

LEMMA StaleInit == Init => StaleInv
<1> SUFFICES ASSUME Init PROVE StaleInv
  OBVIOUS
<1>1. TypeOK /\ CallShape
  BY TypeInit DEF TypeInv
<1>2. HadNow
  BY <1>1, CacheAssumption DEF Init, Current, Alive, NoReply, HadNow, TypeOK
<1> QED BY <1>1, <1>2 DEF Init, StaleInv, EntryToCome, StalenessBounded

\* Giving a resource a name only adds to what the resources have been called.
LEMMA SetNameHad ==
    ASSUME TypeOK, HadNow, NEW u \in Uri, NEW n \in Name, SetName(u, n), reply' = reply
    PROVE  /\ \A m \in Name : had[m] \subseteq had'[m]
           /\ u \in had'[n]
           /\ HadNow'
<1>1. hmc' = [hmc EXCEPT ![u] = n] /\ had' = [had EXCEPT ![n] = @ \cup {u}]
  BY DEF SetName
<1>2. \A m \in Name : had'[m] = IF m = n THEN had[m] \cup {u} ELSE had[m]
  BY <1>1 DEF TypeOK
<1>3. \A v \in Uri : hmc'[v] = IF v = u THEN n ELSE hmc[v]
  BY <1>1 DEF TypeOK
<1>4. \A v \in Uri : Alive(v)' => v \in had'[hmc'[v]]
  BY <1>2, <1>3 DEF HadNow, Alive
<1>5. \A v \in Uri : reply'[v] # NoName => v \in had'[reply'[v]]
  BY <1>2 DEF HadNow, TypeOK
<1> QED BY <1>2, <1>4, <1>5 DEF HadNow

\* An invalidation that empties the cache keeps the invariant: what the
\* resources are called now is what they have been called since.
LEMMA InvalidateStale ==
    ASSUME StaleInv, InvalidateTo(Empty), pc = "idle", pc' \in {"idle", "list"},
           UNCHANGED <<hmc, reply>>
    PROVE  HadNow' /\ EntryToCome' /\ StalenessBounded'
<1>1. HadNow'
  BY DEF StaleInv, CallShape, TypeOK, HadNow, InvalidateTo, Current, Alive
<1>2. EntryToCome'
  BY DEF EntryToCome
<1>3. StalenessBounded'
  BY DEF StalenessBounded, InvalidateTo, Empty
<1> QED BY <1>1, <1>2, <1>3

LEMMA StaleNext == StaleInv /\ TypeInv' /\ [Next]_vars => StaleInv'
<1> SUFFICES ASSUME StaleInv, TypeInv', [Next]_vars
             PROVE  HadNow' /\ EntryToCome' /\ StalenessBounded'
  BY DEF StaleInv, TypeInv
<1> USE DEF StaleInv
<1>1. ASSUME NEW u \in Uri, NEW n \in Name, OtherNames(u, n)
      PROVE  HadNow' /\ EntryToCome' /\ StalenessBounded'
  <2>1. HadNow' /\ \A m \in Name : had[m] \subseteq had'[m]
    BY <1>1, SetNameHad DEF OtherNames, callVars
  <2> QED BY <1>1, <2>1 DEF OtherNames, objVars, callVars, CallShape, EntryToCome,
                            StalenessBounded
<1>2. ASSUME NEW u \in Uri, OtherDeletes(u)
      PROVE  HadNow' /\ EntryToCome' /\ StalenessBounded'
  BY <1>2, CacheAssumption DEF OtherDeletes, Alive, TypeOK, HadNow, EntryToCome,
                               StalenessBounded, objVars, callVars
<1>3. CASE AnswerList
  <2>1. HadNow'
    BY <1>3 DEF AnswerList, Alive, HadNow, hmcVars, history
  <2> QED BY <1>3, <2>1 DEF AnswerList, EntryToCome, StalenessBounded, objVars, history
<1>4. CASE Invalidate
  BY <1>4, InvalidateStale DEF Invalidate, hmcVars, callVars
<1>5. ASSUME NEW o \in Object, List(o) PROVE HadNow' /\ EntryToCome' /\ StalenessBounded'
  BY <1>5 DEF List, Begin, Alive, HadNow, EntryToCome, StalenessBounded, hmcVars, history
<1>6. ASSUME NEW o \in Object, NEW n \in Name, FindCached(o, n)
      PROVE  HadNow' /\ EntryToCome' /\ StalenessBounded'
  BY <1>6 DEF FindCached, Alive, HadNow, EntryToCome, StalenessBounded, hmcVars, callVars,
              history
<1>7. ASSUME NEW o \in Object, NEW n \in Name, FindRefresh(o, n)
      PROVE  HadNow' /\ EntryToCome' /\ StalenessBounded'
  BY <1>7, InvalidateStale DEF FindRefresh, Begin, hmcVars
<1>8. CASE EndList
  <2>1. HadNow' /\ EntryToCome'
    BY <1>8 DEF EndList, Return, NoReply, Alive, HadNow, EntryToCome, hmcVars, history
  <2>2. ASSUME NEW n \in Name, cache'[n] # NoUri PROVE cache'[n] \in (had[n] \cup raced)
    <3>1. (cache'[n] \in Uri /\ reply[cache'[n]] = n) \/ cache'[n] = cache[n]
      BY <1>8, UpdateFromEntry DEF EndList
    <3> QED BY <2>2, <3>1, CacheAssumption DEF HadNow, StalenessBounded
  <2> QED BY <1>8, <2>1, <2>2 DEF EndList, StalenessBounded, history
<1>9. ASSUME NEW o \in Object, NEW u \in Uri, NEW n \in Name, Create(o, u, n)
      PROVE  HadNow' /\ EntryToCome' /\ StalenessBounded'
  <2>1. HadNow' /\ u \in had'[n] /\ \A m \in Name : had[m] \subseteq had'[m]
    BY <1>9, SetNameHad DEF Create
  <2>2. EntryToCome'
    BY <1>9, <2>1 DEF Create, Begin, Hold, EntryToCome, TypeOK
  <2> QED BY <1>9, <2>1, <2>2 DEF Create, StalenessBounded
<1>10. CASE EndCreate
  BY <1>10 DEF EndCreate, Return, NoReply, Alive, TypeOK, HadNow, EntryToCome, StalenessBounded,
               hmcVars, history
<1>11. ASSUME NEW o \in Object, NEW n \in Name, Rename(o, n)
       PROVE  HadNow' /\ EntryToCome' /\ StalenessBounded'
  <2>1. objUri[o] \in Uri /\ SetName(objUri[o], n)
    BY <1>11 DEF Rename, TypeOK
  <2>2. HadNow' /\ objUri[o] \in had'[n] /\ \A m \in Name : had[m] \subseteq had'[m]
    BY <1>11, <2>1, SetNameHad DEF Rename
  <2>3. EntryToCome'
    BY <1>11, <2>1, <2>2 DEF Rename, Begin, EntryToCome, objVars
  <2> QED BY <1>11, <2>2, <2>3 DEF Rename, StalenessBounded
<1>12. CASE ForgetOldName
  BY <1>12 DEF ForgetOldName, Alive, TypeOK, HadNow, EntryToCome, StalenessBounded, hmcVars,
               objVars, history
<1>13. CASE StoreName
  BY <1>13 DEF StoreName, Alive, TypeOK, CallShape, HadNow, EntryToCome, StalenessBounded,
               hmcVars, history
<1>14. CASE EndRename
  BY <1>14 DEF EndRename, Return, NoReply, Alive, TypeOK, HadNow, EntryToCome,
               StalenessBounded, hmcVars, history
<1>15. ASSUME NEW o \in Object, Delete(o) PROVE HadNow' /\ EntryToCome' /\ StalenessBounded'
  <2>1. HadNow'
    BY <1>15, CacheAssumption DEF Delete, Alive, TypeOK, HadNow
  <2> QED BY <1>15, <2>1 DEF Delete, Begin, EntryToCome, StalenessBounded
<1>16. CASE EndDelete
  BY <1>16 DEF EndDelete, Return, NoReply, Alive, TypeOK, HadNow, EntryToCome,
               StalenessBounded, hmcVars, history
<1>17. ASSUME NEW o \in Object, EnableObject(o)
       PROVE  HadNow' /\ EntryToCome' /\ StalenessBounded'
  BY <1>17 DEF EnableObject, Alive, HadNow, EntryToCome, StalenessBounded, hmcVars, callVars,
               history
<1>18. CASE OnNameChange
  <2> DEFINE m == Head(chan)
             hit == {o \in auto : objUri[o] = m.uri}
  <2>1. /\ objName' = [o \in Object |-> IF o \in hit THEN m.name ELSE objName[o]]
        /\ raced' = IF pc \in {"posted", "forgotten", "stored", "deleted"} /\ call.obj \in hit
                       THEN raced \cup {m.uri} ELSE raced
        /\ UNCHANGED <<hmc, cache, objUri, auto, pc, call, reply, had>>
    BY <1>18 DEF OnNameChange, callVars
  <2>2. m.name \in Name
    <3>1. chan \in Seq([uri : Uri, name : Name]) /\ chan # <<>>
      BY <1>18 DEF OnNameChange, TypeOK
    <3> HIDE DEF m
    <3>2. m \in [uri : Uri, name : Name]
      BY <3>1, HeadTailType DEF m
    <3> QED BY <3>2
  <2>3. HadNow' /\ StalenessBounded'
    BY <2>1 DEF HadNow, Alive, StalenessBounded
  <2>4. ASSUME pc = "stored"
        PROVE  /\ objName'[call.obj] \in Name
               /\ objUri[call.obj] \in Uri \cap (had[objName'[call.obj]] \cup raced')
    <3>1. call.obj \in Object
      BY <2>4 DEF CallShape
    <3>2. CASE call.obj \in hit
      <4>1. objUri[call.obj] = m.uri /\ m.uri \in raced'
        BY <2>1, <2>4, <3>2
      <4> QED BY <2>1, <2>2, <2>4, <3>1, <3>2, <4>1 DEF EntryToCome
    <3>3. CASE call.obj \notin hit
      BY <2>1, <2>4, <3>1, <3>3 DEF EntryToCome
    <3> QED BY <3>2, <3>3
  <2>5. EntryToCome'
    BY <2>1, <2>4 DEF EntryToCome
  <2> QED BY <2>3, <2>5
<1>19. CASE UNCHANGED vars
  BY <1>19 DEF vars, hmcVars, objVars, callVars, history, Alive, HadNow, EntryToCome,
               StalenessBounded
<1> QED BY <1>1, <1>2, <1>3, <1>4, <1>5, <1>6, <1>7, <1>8, <1>9, <1>10, <1>11, <1>12, <1>13,
           <1>14, <1>15, <1>16, <1>17, <1>18, <1>19 DEF Next

THEOREM StaleInvariant == Spec => []StaleInv
<1>1. Init => StaleInv
  BY StaleInit
<1>2. StaleInv /\ TypeInv' /\ [Next]_vars => StaleInv'
  BY StaleNext
<1> QED BY <1>1, <1>2, TypeInvariant, PTL DEF Spec

\* An entry of the cache is no older than the last invalidation, however the calls
\* of the user, the changes of other clients and the listener interleave, except
\* for the resources whose rename the listener has raced with.
THEOREM StalenessCorrect == Spec => []StalenessBounded
  BY StaleInvariant, PTL DEF StaleInv

--------------------------------------------------------------------------------
(* FollowsOwnChanges *)

LEMMA FollowsNext == StaleInv /\ FollowsInCall /\ [Next]_vars => FollowsInCall'
<1> SUFFICES ASSUME StaleInv, FollowsInCall, [Next]_vars PROVE FollowsInCall'
  OBVIOUS
<1> USE DEF StaleInv
<1>1. ASSUME NEW u \in Uri, NEW n \in Name, OtherNames(u, n) PROVE FollowsInCall'
  <2>1. hmc' = [hmc EXCEPT ![u] = n] /\ astray' = astray \cup {u}
    BY <1>1 DEF OtherNames, SetName
  <2> QED BY <1>1, <2>1 DEF OtherNames, TypeOK, EntryToCome, FollowsInCall, objVars, callVars
<1>2. ASSUME NEW u \in Uri, OtherDeletes(u) PROVE FollowsInCall'
  BY <1>2 DEF OtherDeletes, TypeOK, EntryToCome, FollowsInCall, objVars, callVars
<1>3. CASE AnswerList
  BY <1>3 DEF AnswerList, TypeOK, FollowsInCall, hmcVars, objVars, history
<1>4. CASE Invalidate
  BY <1>4 DEF Invalidate, InvalidateTo, Empty, CallShape, FollowsInCall, hmcVars, objVars,
              callVars
<1>5. ASSUME NEW o \in Object, List(o) PROVE FollowsInCall'
  BY <1>5 DEF List, Begin, FollowsInCall, hmcVars, objVars, history
<1>6. ASSUME NEW o \in Object, NEW n \in Name, FindCached(o, n) PROVE FollowsInCall'
  BY <1>6 DEF FindCached, Hold, FollowsInCall, hmcVars, callVars, history
<1>7. ASSUME NEW o \in Object, NEW n \in Name, FindRefresh(o, n) PROVE FollowsInCall'
  BY <1>7 DEF FindRefresh, InvalidateTo, Empty, Begin, CallShape, FollowsInCall, hmcVars,
              objVars
<1>8. CASE EndList
  <2>1. ASSUME NEW n \in Name
        PROVE  \/ cache'[n] = NoUri
               \/ cache'[n] \in astray \cup raced
               \/ hmc[cache'[n]] = n
    <3>1. (cache'[n] \in Uri /\ reply[cache'[n]] = n) \/ cache'[n] = cache[n]
      BY <1>8, UpdateFromEntry DEF EndList
    <3> QED BY <1>8, <3>1, CacheAssumption DEF EndList, FollowsInCall
  <2> QED BY <1>8, <2>1 DEF EndList, Return, NoReply, FollowsInCall, hmcVars, history
<1>9. ASSUME NEW o \in Object, NEW u \in Uri, NEW n \in Name, Create(o, u, n)
      PROVE  FollowsInCall'
  <2>1. /\ hmc' = [hmc EXCEPT ![u] = n] /\ hmc[u] = Unborn
        /\ objUri' = [objUri EXCEPT ![o] = u]
    BY <1>9 DEF Create, SetName, Hold
  <2>2. \A v \in Uri : v # u => hmc'[v] = hmc[v]
    BY <2>1 DEF TypeOK
  <2>3. hmc'[u] = n /\ objUri'[o] = u
    BY <2>1 DEF TypeOK
  <2>4. \A m \in Name : \/ cache[m] = NoUri
                        \/ cache[m] \in astray \cup raced
                        \/ cache[m] \in Uri \ {u} /\ hmc[cache[m]] = m
    BY <1>9, <2>1, CacheAssumption DEF Create, TypeOK, FollowsInCall
  <2> QED BY <1>9, <2>2, <2>3, <2>4 DEF Create, Begin, CallShape, FollowsInCall
<1>10. CASE EndCreate
  BY <1>10 DEF EndCreate, Return, NoReply, TypeOK, FollowsInCall, hmcVars, objVars, history
<1>11. ASSUME NEW o \in Object, NEW n \in Name, Rename(o, n) PROVE FollowsInCall'
  <2> DEFINE u == objUri[o]
  <2>1. u \in Uri /\ hmc' = [hmc EXCEPT ![u] = n]
    BY <1>11 DEF Rename, SetName, TypeOK
  <2>2. (\A v \in Uri : v # u => hmc'[v] = hmc[v]) /\ hmc'[u] = n
    BY <2>1 DEF TypeOK
  <2>3. pc' = "posted" /\ call'.obj = o /\ call'.name = n /\ pc = "idle"
        /\ UNCHANGED <<cache, objUri, objName, reply, raced>>
    BY <1>11 DEF Rename, Begin, objVars
  <2>4. astray \subseteq astray' /\ (objName[o] # hmc[u] => u \in astray')
    BY <1>11 DEF Rename
  <2>5. ASSUME NEW m \in Name, cache[m] # NoUri, cache[m] \notin astray' \cup raced
        PROVE  hmc'[cache[m]] = m \/ (m = objName[o] /\ cache[m] = u)
    <3>1. hmc[cache[m]] = m /\ cache[m] \in Uri
      <4>1. cache[m] \in Uri
        BY <2>5 DEF TypeOK
      <4>2. cache[m] \notin astray \cup raced
        BY <2>4, <2>5
      <4> QED BY <2>3, <2>5, <4>1, <4>2 DEF FollowsInCall
    <3> QED BY <2>2, <2>4, <2>5, <3>1
  <2> HIDE DEF u
  <2>6. hmc'[objUri'[o]] = n
    BY <2>2, <2>3 DEF u
  <2>7. \A m \in Name : cache[m] # NoUri /\ cache[m] \notin astray' \cup raced =>
            hmc'[cache[m]] = m \/ (m = objName[o] /\ cache[m] = objUri[o])
    BY <2>5 DEF u
  <2>8. \A v \in Uri : reply[v] = NoName
    BY <2>3 DEF CallShape
  <2> QED BY <2>3, <2>6, <2>7, <2>8 DEF FollowsInCall
<1>12. CASE ForgetOldName
  BY <1>12 DEF ForgetOldName, TypeOK, FollowsInCall, hmcVars, objVars, history
<1>13. CASE StoreName
  BY <1>13 DEF StoreName, TypeOK, CallShape, FollowsInCall, hmcVars, history
<1>14. CASE EndRename
  BY <1>14 DEF EndRename, Return, NoReply, TypeOK, FollowsInCall, hmcVars, objVars, history
<1>15. ASSUME NEW o \in Object, Delete(o) PROVE FollowsInCall'
  <2>1. \A v \in Uri : v # objUri[o] => hmc'[v] = hmc[v]
    BY <1>15 DEF Delete, TypeOK
  <2>2. pc' = "deleted" /\ call'.obj = o /\ pc = "idle"
        /\ UNCHANGED <<cache, objUri, objName, reply, raced>>
    BY <1>15 DEF Delete, Begin, objVars
  <2>3. astray \subseteq astray' /\ (objName[o] # hmc[objUri[o]] => objUri[o] \in astray')
    BY <1>15 DEF Delete
  <2>4. ASSUME NEW m \in Name, cache[m] # NoUri, cache[m] \notin astray' \cup raced
        PROVE  hmc'[cache[m]] = m \/ (m = objName[o] /\ cache[m] = objUri[o])
    <3>1. hmc[cache[m]] = m /\ cache[m] \in Uri
      <4>1. cache[m] \in Uri
        BY <2>4 DEF TypeOK
      <4>2. cache[m] \notin astray \cup raced
        BY <2>3, <2>4
      <4> QED BY <2>2, <2>4, <4>1, <4>2 DEF FollowsInCall
    <3> QED BY <2>1, <2>3, <2>4, <3>1
  <2>5. \A v \in Uri : reply[v] = NoName
    BY <2>2 DEF CallShape
  <2> QED BY <2>2, <2>4, <2>5 DEF FollowsInCall
<1>16. CASE EndDelete
  BY <1>16 DEF EndDelete, Return, NoReply, TypeOK, FollowsInCall, hmcVars, objVars, history
<1>17. ASSUME NEW o \in Object, EnableObject(o) PROVE FollowsInCall'
  BY <1>17 DEF EnableObject, FollowsInCall, hmcVars, callVars, history
<1>18. CASE OnNameChange
  <2> DEFINE hit == {o \in auto : objUri[o] = Head(chan).uri}
  <2>1. /\ objName' = [o \in Object |-> IF o \in hit THEN Head(chan).name ELSE objName[o]]
        /\ raced' = IF pc \in {"posted", "forgotten", "stored", "deleted"} /\ call.obj \in hit
                       THEN raced \cup {Head(chan).uri} ELSE raced
        /\ UNCHANGED <<hmc, cache, objUri, auto, pc, call, reply, astray>>
    BY <1>18 DEF OnNameChange, callVars
  <2>2. ASSUME pc \in {"posted", "forgotten", "stored", "deleted"}
        PROVE  objUri[call.obj] \in raced' \/ objName'[call.obj] = objName[call.obj]
    <3>1. call.obj \in Object
      BY <2>2 DEF CallShape
    <3> QED BY <2>1, <2>2, <3>1
  <2> HIDE DEF hit
  <2>3. raced \subseteq raced'
    BY <2>1
  <2> QED BY <2>1, <2>2, <2>3 DEF FollowsInCall
<1>19. CASE UNCHANGED vars
  BY <1>19 DEF vars, hmcVars, objVars, callVars, history, FollowsInCall
<1> QED BY <1>1, <1>2, <1>3, <1>4, <1>5, <1>6, <1>7, <1>8, <1>9, <1>10, <1>11, <1>12, <1>13,
           <1>14, <1>15, <1>16, <1>17, <1>18, <1>19 DEF Next

\* Between the calls, the cache is right about every resource that was only changed
\* through the manager and through objects that knew its name.
THEOREM FollowsCorrect == Spec => []FollowsOwnChanges
<1>1. Init => FollowsInCall
  BY DEF Init, NoReply, FollowsInCall
<1>2. FollowsInCall => FollowsOwnChanges
  BY DEF FollowsInCall, FollowsOwnChanges
<1> QED BY <1>1, <1>2, FollowsNext, StaleInvariant, PTL DEF Spec

================================================================================
