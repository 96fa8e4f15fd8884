---------------------------- MODULE ConsoleObjects ----------------------------
(***************************************************************************)
(* What the resource classes of the console and of the CPC have in common: *)
(* resources that are created, updated and deleted by single requests, and *)
(* the resource objects of several clients, whose properties follow the    *)
(* client's own requests (zhmcclient/_resource.py, _manager.py), with the  *)
(* generic handlers of the mock HMC (zhmcclient/mock/_urihandler.py) and   *)
(* its table of resources (zhmcclient/mock/_hmc.py).                       *)
(*                                                                         *)
(* A request is handled atomically, and so is a method that sends only     *)
(* one.  A method that is rejected changes nothing and is left out, unless *)
(* the handler has changed something before it rejects the request.        *)
(***************************************************************************)
EXTENDS ClientCalls, Integers

CONSTANTS
    Obj,       \* the identities of resources, each of them used once
    World,     \* bound: what may exist in the beginning (live) or be created (fresh); the
               \* other identities are used up
    Val,       \* values of the properties that update_properties() changes
    InitVal    \* their value in the beginning

ASSUME ObjectAssumption ==
    /\ \A w \in World : w.live \subseteq Obj /\ w.fresh \subseteq Obj \ w.live
    /\ InitVal \in Val

VARIABLES
    obj,      \* the resources of the HMC
    copies,   \* the resource objects of each client, the latest one for each resource
    differs,  \* history: the resources that a client cannot know exactly (see Touched)
    overruled \* history: those that a client has created with values that the HMC did not take,
              \* and has neither read nor updated since (see CreateSso)

objVars == <<obj, copies, differs, overruled, calls>>

ObjTypeOK ==
    /\ obj \in [Obj -> [state : {"none", "live", "deleted"}, val : Val]]
    /\ copies \in [Client -> [Obj -> [state : {"none", "live", "ceased"}, val : OneOf(Val)]]]
    /\ differs \in [Client -> SUBSET Obj]
    /\ overruled \in [Client -> SUBSET Obj]
    /\ calls \in 0..MaxCalls

\* The clients have listed the resources with their full properties.
ObjInit ==
    /\ \E w \in World :
          obj = [o \in Obj |-> [state |-> CASE o \in w.live -> "live" [] o \in w.fresh -> "none"
                                            [] OTHER -> "deleted",
                                val |-> InitVal]]
    /\ copies = [c \in Client |-> [o \in Obj |-> IF obj[o].state = "live"
                                                   THEN [state |-> "live", val |-> {InitVal}]
                                                   ELSE [state |-> "none", val |-> {}]]]
    /\ differs = [c \in Client |-> {}]
    /\ overruled = [c \in Client |-> {}]
    /\ calls = 0

\* lookup_by_uri() finds the resource.
Lives(o) == obj[o].state = "live"

\* The client has a resource object, whose methods it can call.
Holds(c, o) == copies[c][o].state = "live"

\* Whoever has changed a resource last: the objects of the other clients may be stale.
\* The client itself knows the resource, unless its own request has failed halfway.
Touched(c, o, failed) ==
    [d \in Client |-> IF d # c \/ failed THEN differs[d] \cup {o} ELSE differs[d] \ {o}]

Known(c, o)   == [differs EXCEPT ![c] = @ \ {o}]
Settled(c, o) == [overruled EXCEPT ![c] = @ \ {o}]

Touches(c, o, failed) ==
    /\ differs' = Touched(c, o, failed)
    /\ overruled' = IF failed THEN overruled ELSE Settled(c, o)

Reads(c, o) == differs' = Known(c, o) /\ overruled' = Settled(c, o)

--------------------------------------------------------------------------------
(* The generic handlers of the mock HMC *)

\* FakedBaseManager.add()
HmcAdd(o, v) ==
    /\ obj[o].state = "none"
    /\ obj' = [obj EXCEPT ![o] = [state |-> "live", val |-> v]]

\* FakedBaseManager.remove()
HmcRemove(o) == obj' = [obj EXCEPT ![o].state = "deleted"]

\* The properties of a resource; none if it is not found.
HmcGet(o) == {obj[x].val : x \in {y \in {o} : Lives(y)}}

HmcUpdate(o, v) == Lives(o) /\ obj' = [obj EXCEPT ![o].val = v]
HmcDelete(o)    == Lives(o) /\ HmcRemove(o)

--------------------------------------------------------------------------------
(* The generic methods of the client.  CreateObj, UpdateObj and DeleteObj are *)
(* the client's part only; the handler of the request is conjoined where they *)
(* are used.                                                                  *)

\* create(): the request, and a new object with the properties that were sent.
CreateObj(c, o, v) ==
    /\ Begin
    /\ copies' = [copies EXCEPT ![c][o] = [state |-> "live", val |-> {v}]]
    /\ Touches(c, o, FALSE)

\* list() makes new objects, with all properties only if it is asked to.
ListObj(c, o, full) ==
    /\ Begin
    /\ copies' = [copies EXCEPT ![c][o] = [state |-> "live", val |-> IF full THEN HmcGet(o) ELSE {}]]
    /\ Reads(c, o)
    /\ UNCHANGED obj

\* pull_full_properties(): 404.1 marks the object as ceased.
PullProperties(c, o) ==
    /\ Begin
    /\ Holds(c, o)
    /\ copies' = IF HmcGet(o) # {} THEN [copies EXCEPT ![c][o].val = HmcGet(o)]
                                   ELSE [copies EXCEPT ![c][o].state = "ceased"]
    /\ Reads(c, o)
    /\ UNCHANGED obj

\* update_properties(): the request, then update_properties_local().
UpdateObj(c, o, v) ==
    /\ Begin
    /\ Holds(c, o)
    /\ copies' = [copies EXCEPT ![c][o].val = {v}]
    /\ Touches(c, o, FALSE)

\* delete(): the request, then cease_existence_local().
DeleteObj(c, o) ==
    /\ Begin
    /\ Holds(c, o)
    /\ copies' = [copies EXCEPT ![c][o].state = "ceased"]
    /\ UNCHANGED <<differs, overruled>>

\* A request that changes no property of the resource that the client keeps.
UseObj(c, o) ==
    /\ Begin
    /\ Holds(c, o) /\ Lives(o)
    /\ UNCHANGED <<obj, copies, differs, overruled>>

--------------------------------------------------------------------------------
(* Properties *)

\* What a client's object says is so: an object that has ceased to exist is deleted, and a
\* property has the HMC's value, unless since the client has read or set it another client
\* has changed it, or a request of the client has failed halfway; or unless it is one that
\* the client has sent in create() and that the HMC controls itself.
ClientViewHonest ==
    \A c \in Client, o \in Obj :
        /\ copies[c][o].state = "ceased" => obj[o].state = "deleted"
        /\ Holds(c, o) /\ copies[c][o].val # {} /\ o \notin differs[c] \cup overruled[c]
              => copies[c][o].val = {obj[o].val}
================================================================================
