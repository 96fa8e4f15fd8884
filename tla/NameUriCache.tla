----------------------------- MODULE NameUriCache -----------------------------
(***************************************************************************)
(* The name-to-URI cache of ONE manager object (_NameUriCache and its use  *)
(* by BaseManager in zhmcclient/_manager.py, and by create(), delete() and *)
(* update_properties() of the resource classes, of which _partition.py is  *)
(* the pattern).                                                           *)
(*                                                                         *)
(* One user thread works through the manager: it looks names up, lists,    *)
(* creates, and renames and deletes through Python resource objects, each  *)
(* of which has a name of its own.  Meanwhile other clients of the HMC     *)
(* change names, and the listener thread updates the auto-updated objects. *)
(* A request to the HMC and what the method does after its answer are      *)
(* separate steps.  Names are unique on the HMC; URIs are never reused.    *)
(***************************************************************************)
EXTENDS Naturals, Sequences, FiniteSets

CONSTANTS
    Uri,       \* the resources that may ever exist below the manager's parent
    Name,      \* their names
    Object,    \* the Python objects that the user holds
    Unborn,    \* no name: the resource does not exist yet
    Gone,      \* no name: it does not exist any more
    NoUri,     \* no resource
    NoName,    \* no name
    MaxChan    \* bound: notifications on their way; one more for a rename of ours

ASSUME CacheAssumption ==
    /\ NoUri \notin Uri
    /\ {Unborn, Gone, NoName} \cap Name = {}
    /\ MaxChan \in Nat

VARIABLES
    hmc,       \* HMC: the name of each resource, or Unborn or Gone
    chan,      \* HMC: name changes notified and not handled yet
    cache,     \* _uris: the URI in the entry of each name, NoUri where there is none
    objUri,    \* the resource of each Python object, NoUri: the user has no such object
    objName,   \* the name in that object's _properties
    auto,      \* the Python objects that are auto-updated
    pc,        \* where the user thread is
    call,      \* the call it is in: the object, and the name given
    reply,     \* the answer of the HMC to the list request
    had,       \* history: the resources that had each name since _invalidated
    astray,    \* history: resources changed out of this cache's sight since then
    raced      \* history: resources notified of while a change was being cached

hmcVars   == <<hmc, chan>>
objVars   == <<objUri, objName, auto>>
callVars  == <<pc, call, reply>>
history   == <<had, astray, raced>>
vars      == <<hmcVars, cache, objVars, callVars, history>>

NoCall   == [op |-> "none", obj |-> NoUri, name |-> NoName]
NoReply  == [u \in Uri |-> NoName]
Alive(u) == hmc[u] \in Name
Taken(n) == \E u \in Uri : hmc[u] = n

\* The resources that have a name now.
Current == [n \in Name |-> {u \in Uri : hmc[u] = n}]

TypeOK ==
    /\ hmc \in [Uri -> Name \cup {Unborn, Gone}]
    /\ chan \in Seq([uri : Uri, name : Name]) /\ Len(chan) <= MaxChan + 1
    /\ cache \in [Name -> Uri \cup {NoUri}]
    /\ objUri \in [Object -> Uri \cup {NoUri}]
    /\ objName \in [Object -> Name \cup {NoName}]
    /\ auto \subseteq Object
    /\ pc \in {"idle", "list", "answered", "created", "posted", "forgotten", "stored", "deleted"}
    /\ call \in [op : {"none", "list", "find", "create", "rename", "delete"},
                 obj : Object \cup {NoUri}, name : Name \cup {NoName}]
    /\ reply \in [Uri -> Name \cup {NoName}]
    /\ had \in [Name -> SUBSET Uri]
    /\ astray \subseteq Uri
    /\ raced \subseteq Uri

Init ==
    /\ hmc \in [Uri -> Name \cup {Unborn}]
    /\ \A u, v \in Uri : hmc[u] = hmc[v] /\ Alive(u) => u = v
    /\ chan = <<>>
    /\ cache = [n \in Name |-> NoUri]
    /\ objUri = [o \in Object |-> NoUri]
    /\ objName = [o \in Object |-> NoName]
    /\ auto = {}
    /\ pc = "idle"
    /\ call = NoCall
    /\ reply = NoReply
    /\ had = Current
    /\ astray = {}
    /\ raced = {}

--------------------------------------------------------------------------------
(* The HMC *)

\* Resource u gets name n; every session is notified of a change.
SetName(u, n) ==
    /\ hmc' = [hmc EXCEPT ![u] = n]
    /\ had' = [had EXCEPT ![n] = @ \cup {u}]
    /\ IF Alive(u)
          THEN chan' = Append(chan, [uri |-> u, name |-> n])
          ELSE UNCHANGED chan

OtherNames(u, n) ==
    /\ hmc[u] # Gone /\ ~Taken(n)
    /\ Len(chan) < MaxChan
    /\ SetName(u, n)
    /\ astray' = astray \cup {u}
    /\ UNCHANGED <<cache, objVars, callVars, raced>>

OtherDeletes(u) ==
    /\ Alive(u)
    /\ hmc' = [hmc EXCEPT ![u] = Gone]
    /\ astray' = astray \cup {u}
    /\ UNCHANGED <<chan, cache, objVars, callVars, had, raced>>

AnswerList ==
    /\ pc = "list"
    /\ pc' = "answered"
    /\ reply' = [u \in Uri |-> IF Alive(u) THEN hmc[u] ELSE NoName]
    /\ UNCHANGED <<hmcVars, cache, objVars, call, history>>

--------------------------------------------------------------------------------
(* _NameUriCache *)

\* invalidate(): empties the cache and restarts the clock of its time to live.
InvalidateTo(c) ==
    /\ cache' = c
    /\ had' = Current
    /\ astray' = {}
    /\ raced' = {}

Empty == [n \in Name |-> NoUri]

\* update_from(): entries of other names remain.
UpdateFrom(c, names) ==
    [n \in Name |-> IF \E u \in Uri : names[u] = n
                       THEN CHOOSE u \in Uri : names[u] = n
                       ELSE c[n]]

\* invalidate_cache()
Invalidate ==
    /\ pc = "idle"
    /\ InvalidateTo(Empty)
    /\ UNCHANGED <<hmcVars, objVars, callVars>>

--------------------------------------------------------------------------------
(* Calls of the user *)

Begin(o, n, op, next) ==
    /\ call' = [op |-> op, obj |-> o, name |-> n]
    /\ pc' = next

Return ==
    /\ pc' = "idle"
    /\ call' = NoCall
    /\ reply' = NoReply

\* The user gets a new Python object for resource u, known by name n.
Hold(o, u, n) ==
    /\ objUri' = [objUri EXCEPT ![o] = u]
    /\ objName' = [objName EXCEPT ![o] = n]
    /\ auto' = auto \ {o}

\* list(): one of the objects returned is kept.
List(o) ==
    /\ pc = "idle"
    /\ Begin(o, NoName, "list", "list")
    /\ UNCHANGED <<hmcVars, cache, objVars, reply, history>>

\* find_by_name() finds an entry, and auto_invalidate() found the cache young
\* enough.
FindCached(o, n) ==
    /\ pc = "idle"
    /\ cache[n] # NoUri
    /\ Hold(o, cache[n], n)
    /\ UNCHANGED <<hmcVars, cache, callVars, history>>

\* Faulty variant of FindRefresh: the clock is restarted, the entries stay.
FindRefreshKeeps(o, n) ==
    /\ pc = "idle"
    /\ InvalidateTo(cache)
    /\ Begin(o, n, "find", "list")
    /\ UNCHANGED <<hmcVars, objVars, reply>>

\* find_by_name() finds no entry, or the time to live is over, which may happen
\* at any time: the cache is emptied, and filled with a list.
FindRefresh(o, n) ==
    /\ pc = "idle"
    /\ InvalidateTo(Empty)
    /\ Begin(o, n, "find", "list")
    /\ UNCHANGED <<hmcVars, objVars, reply>>

\* The answer of list() fills the cache, for list() itself and for refresh(); a
\* name that is still not there is NotFound.
EndList ==
    /\ pc = "answered"
    /\ cache' = UpdateFrom(cache, reply)
    /\ \/ \E u \in Uri :
             /\ reply[u] # NoName
             /\ call.op = "find" => reply[u] = call.name
             /\ Hold(call.obj, u, reply[u])
       \/ /\ \A u \in Uri : reply[u] = NoName \/ (call.op = "find" /\ reply[u] # call.name)
          /\ UNCHANGED objVars
    /\ Return
    /\ UNCHANGED <<hmcVars, history>>

\* create(): the request, then the cache entry and the new object.
Create(o, u, n) ==
    /\ pc = "idle"
    /\ hmc[u] = Unborn /\ ~Taken(n)
    /\ SetName(u, n)
    /\ Hold(o, u, n)
    /\ Begin(o, n, "create", "created")
    /\ UNCHANGED <<cache, reply, astray, raced>>

EndCreate ==
    /\ pc = "created"
    /\ cache' = [cache EXCEPT ![call.name] = objUri[call.obj]]
    /\ Return
    /\ UNCHANGED <<hmcVars, objVars, history>>

\* update_properties() with a new name: the request.  When the HMC rejects it,
\* because the resource is gone or the name is taken, nothing changes.
Rename(o, n) ==
    /\ pc = "idle"
    /\ objUri[o] # NoUri /\ Alive(objUri[o])
    /\ ~Taken(n)
    /\ Len(chan) <= MaxChan
    /\ SetName(objUri[o], n)
    /\ astray' = IF objName[o] # hmc[objUri[o]] THEN astray \cup {objUri[o]} ELSE astray
    /\ Begin(o, n, "rename", "posted")
    /\ UNCHANGED <<cache, objVars, reply, raced>>

\* Faulty variant of ForgetOldName: the old name keeps its entry.
ForgetNothing ==
    /\ pc = "posted"
    /\ pc' = "forgotten"
    /\ UNCHANGED <<hmcVars, cache, objVars, call, reply, history>>

\* The entry of the name that the object has NOW is deleted: a notification of
\* the change may have come first.
ForgetOldName ==
    /\ pc = "posted"
    /\ cache' = [cache EXCEPT ![objName[call.obj]] = NoUri]
    /\ pc' = "forgotten"
    /\ UNCHANGED <<hmcVars, objVars, call, reply, history>>

StoreName ==
    /\ pc = "forgotten"
    /\ objName' = [objName EXCEPT ![call.obj] = call.name]
    /\ pc' = "stored"
    /\ UNCHANGED <<hmcVars, cache, objUri, auto, call, reply, history>>

\* The entry of the name that the object has now is written.
EndRename ==
    /\ pc = "stored"
    /\ cache' = [cache EXCEPT ![objName[call.obj]] = objUri[call.obj]]
    /\ Return
    /\ UNCHANGED <<hmcVars, objVars, history>>

\* delete(): the request, then the entry of the name that the object has.
Delete(o) ==
    /\ pc = "idle"
    /\ objUri[o] # NoUri /\ Alive(objUri[o])
    /\ hmc' = [hmc EXCEPT ![objUri[o]] = Gone]
    /\ astray' = IF objName[o] # hmc[objUri[o]] THEN astray \cup {objUri[o]} ELSE astray
    /\ Begin(o, NoName, "delete", "deleted")
    /\ UNCHANGED <<chan, cache, objVars, reply, had, raced>>

EndDelete ==
    /\ pc = "deleted"
    /\ cache' = [cache EXCEPT ![objName[call.obj]] = NoUri]
    /\ Return
    /\ UNCHANGED <<hmcVars, objVars, history>>

\* enable_auto_update() of a resource object, which pulls its properties.
EnableObject(o) ==
    /\ pc = "idle"
    /\ objUri[o] # NoUri /\ Alive(objUri[o])
    /\ auto' = auto \cup {o}
    /\ objName' = [objName EXCEPT ![o] = hmc[objUri[o]]]
    /\ UNCHANGED <<hmcVars, cache, objUri, callVars, history>>

--------------------------------------------------------------------------------
(* The listener thread *)

\* A notified name goes into the auto-updated objects of its resource; the cache
\* is not told.  During a rename this may be the object being renamed.
OnNameChange ==
    /\ chan # <<>>
    /\ chan' = Tail(chan)
    /\ LET m == Head(chan)
           hit == {o \in auto : objUri[o] = m.uri}
       IN /\ objName' = [o \in Object |-> IF o \in hit THEN m.name ELSE objName[o]]
          /\ raced' = IF pc \in {"posted", "forgotten", "stored", "deleted"} /\ call.obj \in hit
                         THEN raced \cup {m.uri} ELSE raced
    /\ UNCHANGED <<hmc, cache, objUri, auto, callVars, had, astray>>

--------------------------------------------------------------------------------
Next ==
    \/ \E u \in Uri, n \in Name : OtherNames(u, n)
    \/ \E u \in Uri : OtherDeletes(u)
    \/ AnswerList
    \/ Invalidate
    \/ \E o \in Object : List(o)
    \/ \E o \in Object, n \in Name : FindCached(o, n)
    \/ \E o \in Object, n \in Name : FindRefresh(o, n)
    \/ EndList
    \/ \E o \in Object, u \in Uri, n \in Name : Create(o, u, n)
    \/ EndCreate
    \/ \E o \in Object, n \in Name : Rename(o, n)
    \/ ForgetOldName
    \/ StoreName
    \/ EndRename
    \/ \E o \in Object : Delete(o)
    \/ EndDelete
    \/ \E o \in Object : EnableObject(o)
    \/ OnNameChange

Spec == Init /\ [][Next]_vars

--------------------------------------------------------------------------------
(* Properties *)

\* How stale an entry can be: its resource has had that name since the cache was
\* last invalidated, so nothing older survives the time to live - unless the
\* listener handled a notification of the resource in the middle of a rename: it
\* may carry an older name, which the rename then puts into the cache.
StalenessBounded ==
    \A n \in Name : cache[n] # NoUri => cache[n] \in had[n] \cup raced

\* Between calls, an entry is right unless its resource was changed since the
\* last invalidation by another client, through an object that knew the
\* resource by another name, or with a notification falling into the call.
FollowsOwnChanges ==
    pc = "idle" => \A n \in Name : \/ cache[n] = NoUri
                                   \/ cache[n] \in astray \cup raced
                                   \/ hmc[cache[n]] = n
================================================================================
