------------------------------ MODULE AutoUpdater ------------------------------
(***************************************************************************)
(* The life cycle of a session's auto-updater (zhmcclient/_auto_updater.py *)
(* and its use by enable_auto_update() and disable_auto_update() of        *)
(* resource objects and of managers, by Session.subscribe_auto_update()    *)
(* and Session.unsubscribe_auto_update()).                                 *)
(*                                                                         *)
(* The user thread opens the STOMP connection with the first object, and   *)
(* registers and unregisters objects; the listener thread goes through the *)
(* registered objects of the URI that a notification is about, one by one; *)
(* the HMC serves the object topic of a session for as long as it knows    *)
(* the session.  What the listener writes into the objects is the subject  *)
(* of AutoUpdatedList and AutoUpdatedResource.                             *)
(***************************************************************************)
EXTENDS Naturals, Sequences, FiniteSets

CONSTANTS
    Object,    \* the objects of the user that can be auto-updated
    Manager,   \* those of them that are managers, of children of a CPC
    Uri,       \* the URIs that they have
    UriOf,     \* the URI of each object; two objects may have the same one
    MaxTopics, \* bound: the logons of the session
    MaxChan    \* bound: notifications on their way

ASSUME UpdaterAssumption ==
    /\ IsFiniteSet(Object) /\ Manager \subseteq Object
    /\ Uri # {}
    /\ UriOf \in [Object -> Uri]
    /\ MaxTopics \in Nat \ {0} /\ MaxChan \in Nat \ {0}

VARIABLES
    topic,       \* object_topic of the session, 0: None
    topics,      \* HMC: the number of topics issued
    served,      \* HMC: the topics that notifications are published to
    conn,        \* _conn: "none", "new" (set, not connected), "open", "lost"
    subTopic,    \* the topic that the connection is subscribed to, 0: none
    cpcs,        \* the CPC list of the listener: "none", "empty", "listed"
    own,         \* CPC managers of listeners are registered, too
    registered,  \* _registered_objects, without these
    auto,        \* the objects for which auto_update_enabled() is true
    pc,          \* where the user thread is
    call,        \* the object it enables, or none: subscribe_auto_update()
    chan,        \* the URIs of the notifications on their way
    loop,        \* the iteration of the listener over the objects of one URI
    heard,       \* history: the objects that the last loop has updated
    trouble      \* history: what has kept notifications from being handled

sessionVars  == <<topic, topics, served>>
connVars     == <<conn, subTopic, cpcs>>
registryVars == <<own, registered, auto>>
callVars     == <<pc, call>>
listenVars   == <<chan, loop, heard>>
vars         == <<sessionVars, connVars, registryVars, callVars, listenVars, trouble>>

Troubles == {"connect", "list", "session", "closed", "thread"}

NoLoop == [on |-> FALSE, uri |-> CHOOSE u \in Uri : TRUE, done |-> {}, size |-> 0, same |-> TRUE]
At(u)  == {o \in registered : UriOf[o] = u}

TypeOK ==
    /\ topic \in 0..MaxTopics /\ topics \in 0..MaxTopics
    /\ served \subseteq 1..MaxTopics
    /\ conn \in {"none", "new", "open", "lost"}
    /\ subTopic \in 0..MaxTopics
    /\ cpcs \in {"none", "empty", "listed"}
    /\ own \in BOOLEAN
    /\ registered \subseteq Object
    /\ auto \subseteq Object
    /\ pc \in {"idle", "open", "connect", "subscribe", "init", "list", "register", "pull"}
    /\ call \subseteq Object /\ Cardinality(call) <= 1
    /\ pc = "idle" => call = {}
    /\ chan \in Seq(Uri) /\ Len(chan) <= MaxChan
    /\ loop \in [on : BOOLEAN, uri : Uri, done : SUBSET Object, size : 0..Cardinality(Object),
                 same : BOOLEAN]
    /\ heard \subseteq Object
    /\ trouble \subseteq Troubles

Init ==
    /\ topic = 0 /\ topics = 0
    /\ served = {}
    /\ conn = "none" /\ subTopic = 0
    /\ cpcs = "none"
    /\ own = FALSE
    /\ registered = {}
    /\ auto = {}
    /\ pc = "idle" /\ call = {}
    /\ chan = <<>>
    /\ loop = NoLoop
    /\ heard = {}
    /\ trouble = {}

--------------------------------------------------------------------------------
(* The HMC and the network *)

\* Something is published about u: property-change, status-change, or
\* inventory-change for a manager.
Notify(u) ==
    /\ conn = "open" /\ subTopic \in served
    /\ Len(chan) < MaxChan
    /\ chan' = Append(chan, u)
    /\ UNCHANGED <<sessionVars, connVars, registryVars, callVars, loop, heard, trouble>>

\* The HMC ends the session, and with it the topic.
Expire ==
    /\ topic \in served
    /\ served' = served \ {topic}
    /\ trouble' = trouble \cup {"session"}
    /\ UNCHANGED <<topic, topics, connVars, registryVars, callVars, listenVars>>

ConnectionLost ==
    /\ conn = "open"
    /\ conn' = "lost"
    /\ chan' = <<>>
    /\ loop' = NoLoop
    /\ trouble' = trouble \cup {"thread"}
    /\ UNCHANGED <<sessionVars, subTopic, cpcs, registryVars, callVars, heard>>

--------------------------------------------------------------------------------
(* Session *)

\* _do_logon(): the HMC issues a session with a topic of its own.
NewTopic ==
    /\ topics < MaxTopics
    /\ topics' = topics + 1
    /\ topic' = topics + 1
    /\ served' = served \cup {topics + 1}

\* Any request of the session: a session that has expired is renewed, a session that
\* is logged off is logged on.  The auto-updater is not told.
Request == IF topic \in served THEN UNCHANGED sessionVars ELSE NewTopic

OtherRequest ==
    /\ pc = "idle"
    /\ topic \notin served
    /\ Request
    /\ UNCHANGED <<connVars, registryVars, callVars, listenVars, trouble>>

\* logoff(): the connection remains.
Logoff ==
    /\ pc = "idle"
    /\ topic # 0
    /\ topic' = 0
    /\ served' = served \ {topic}
    /\ trouble' = IF conn = "none" THEN trouble ELSE trouble \cup {"session"}
    /\ UNCHANGED <<topics, connVars, registryVars, callVars, listenVars>>

--------------------------------------------------------------------------------
(* AutoUpdater.open() *)

Goto(p) == pc' = p /\ UNCHANGED call
Return == pc' = "idle" /\ call' = {}

\* Faulty variant of Subscribe: a session that is logged on counts as subscribed.
SubscribeLoggedOn(c) ==
    /\ pc = "idle"
    /\ c \cap auto = {}
    /\ pc' = IF conn = "none" /\ topic = 0 THEN "open"
             ELSE IF c = {} THEN "idle" ELSE "register"
    /\ call' = IF pc' = "idle" THEN {} ELSE c
    /\ UNCHANGED <<sessionVars, connVars, registryVars, listenVars, trouble>>

\* subscribe_auto_update() after is_open(): the user's own call, or the one in
\* enable_auto_update() of an object that is not auto-updated.
Subscribe(c) ==
    /\ pc = "idle"
    /\ c \cap auto = {}
    /\ pc' = IF conn = "none" THEN "open"
             ELSE IF c = {} THEN "idle" ELSE "register"
    /\ call' = IF pc' = "idle" THEN {} ELSE c
    /\ UNCHANGED <<sessionVars, connVars, registryVars, listenVars, trouble>>

\* A topic that the session has is used, whether the HMC still serves it or not.
OpenLogon ==
    /\ pc = "open"
    /\ IF topic = 0 THEN NewTopic ELSE UNCHANGED sessionVars
    /\ Goto("connect")
    /\ UNCHANGED <<connVars, registryVars, listenVars, trouble>>

OpenLogonFails ==
    /\ pc = "open" /\ topic = 0
    /\ Return
    /\ UNCHANGED <<sessionVars, connVars, registryVars, listenVars, trouble>>

\* _conn is set before it is connected, with a new listener.  What kept notifications
\* away from an earlier connection does not matter any more.
OpenConnect ==
    /\ pc = "connect"
    /\ cpcs' = "none"
    /\ \/ /\ conn' = "open"
          /\ Goto("subscribe")
          /\ trouble' = IF topic \in served THEN {} ELSE {"session"}
       \/ /\ conn' = "new"
          /\ Return
          /\ trouble' = trouble \cup {"connect"}
    /\ UNCHANGED <<sessionVars, subTopic, registryVars, listenVars>>

\* The topic of the session at this moment; from here on, notifications come in.
OpenSubscribe ==
    /\ pc = "subscribe"
    /\ subTopic' = topic
    /\ Goto("init")
    /\ UNCHANGED <<sessionVars, conn, cpcs, registryVars, listenVars, trouble>>

\* init_cpcs(): a client of its own, whose CPC manager is registered like any other.
InitCpcs ==
    /\ pc = "init"
    /\ cpcs' = "empty"
    /\ own' = TRUE
    /\ Goto("list")
    /\ UNCHANGED <<sessionVars, conn, subTopic, registered, auto, listenVars, trouble>>

\* Its CPCs are listed; an exception leaves open(), and the connection as it is.
InitCpcsList ==
    /\ pc = "list"
    /\ \/ /\ Request
          /\ cpcs' = "listed"
          /\ IF call = {} THEN Return ELSE Goto("register")
          /\ UNCHANGED trouble
       \/ /\ Return
          /\ trouble' = trouble \cup {"list"}
          /\ UNCHANGED <<sessionVars, cpcs>>
    /\ UNCHANGED <<conn, subTopic, registryVars, listenVars>>

--------------------------------------------------------------------------------
(* AutoUpdater.close(), the registry, and its users *)

\* The connection ends, and with it the listener thread.
Close ==
    /\ conn' = "none"
    /\ subTopic' = 0
    /\ chan' = <<>>
    /\ loop' = NoLoop
    /\ UNCHANGED <<cpcs, heard>>

\* unsubscribe_auto_update() of the user, whatever is registered.
Unsubscribe ==
    /\ pc = "idle"
    /\ conn # "none"
    /\ Close
    /\ trouble' = IF auto = {} THEN trouble ELSE trouble \cup {"closed"}
    /\ UNCHANGED <<sessionVars, registryVars, callVars>>

\* register_object(): an object has its entry once.
RegisterObject(o) ==
    /\ registered' = registered \cup {o}
    /\ UNCHANGED own

\* unregister_object(): with the last object of a URI, its dictionary goes.
UnregisterObject(o) ==
    /\ registered' = registered \ {o}
    /\ UNCHANGED own

\* The listener may be iterating over that dictionary.
LoopWithout(o) == IF At(loop.uri) = {o} THEN [loop EXCEPT !.same = ~loop.on] ELSE loop

\* enable_auto_update(): a resource object is auto-updated even when its pull will
\* fail, a manager only after a pull that succeeded.
EnableRegister ==
    /\ pc = "register"
    /\ \E o \in call :
          /\ RegisterObject(o)
          /\ auto' = IF o \in Manager THEN auto ELSE auto \cup {o}
    /\ Goto("pull")
    /\ UNCHANGED <<sessionVars, connVars, listenVars, trouble>>

\* The pull succeeds, or raises an exception.
EnablePull ==
    /\ pc = "pull"
    /\ \/ Request /\ auto' = auto \cup call
       \/ UNCHANGED <<sessionVars, auto>>
    /\ Return
    /\ UNCHANGED <<connVars, own, registered, listenVars, trouble>>

\* Faulty variant of Disable: the object stays registered.
DisableKeepsRegistered(o) ==
    /\ pc = "idle"
    /\ o \in auto
    /\ auto' = auto \ {o}
    /\ UNCHANGED <<sessionVars, connVars, own, registered, callVars, listenVars, trouble>>

\* disable_auto_update(); has_objects() counts the listener's own CPC manager.
Disable(o) ==
    /\ pc = "idle"
    /\ o \in auto
    /\ auto' = auto \ {o}
    /\ UnregisterObject(o)
    /\ IF registered \subseteq {o} /\ ~own /\ conn # "none"
          THEN Close
          ELSE /\ loop' = LoopWithout(o)
               /\ UNCHANGED <<connVars, chan, heard>>
    /\ UNCHANGED <<sessionVars, callVars, trouble>>

--------------------------------------------------------------------------------
(* The listener thread *)

\* The thread ends when a handler raises an exception; the connection is not closed.
ThreadEnds ==
    /\ conn' = "lost"
    /\ chan' = <<>>
    /\ loop' = NoLoop
    /\ trouble' = trouble \cup {"thread"}
    /\ UNCHANGED <<subTopic, cpcs, heard>>

\* A notification for a manager needs the client that init_cpcs() creates
\* (AttributeError without it), and reaches the managers of the CPCs in its list.
OnMessage ==
    /\ conn = "open" /\ chan # <<>> /\ ~loop.on
    /\ LET u     == Head(chan)
           toMgr == \E o \in Manager : UriOf[o] = u
       IN IF toMgr /\ cpcs = "none"
             THEN ThreadEnds
             ELSE /\ chan' = Tail(chan)
                  /\ loop' = IF At(u) = {} \/ (toMgr /\ cpcs = "empty")
                                THEN NoLoop
                                ELSE [on |-> TRUE, uri |-> u, done |-> {},
                                      size |-> Cardinality(At(u)), same |-> TRUE]
                  /\ UNCHANGED <<connVars, heard, trouble>>
    /\ UNCHANGED <<sessionVars, registryVars, callVars>>

\* The dictionary has another size than when the iteration began: RuntimeError.
Resized == loop.size # IF loop.same THEN Cardinality(At(loop.uri)) ELSE 0

\* Faulty variant of LoopYield: the first object is enough.
LoopYieldFirst ==
    /\ loop.on /\ ~Resized /\ loop.done = {}
    /\ \E o \in At(loop.uri) :
          /\ loop' = [loop EXCEPT !.done = At(loop.uri)]
          /\ heard' = IF o \in auto THEN heard \cup {o} ELSE heard
    /\ UNCHANGED <<sessionVars, connVars, registryVars, callVars, chan, trouble>>

\* registered_objects(): one object is yielded, and updated if it is auto-updated.
LoopYield ==
    /\ loop.on /\ ~Resized
    /\ \E o \in At(loop.uri) \ loop.done :
          /\ loop' = [loop EXCEPT !.done = @ \cup {o}]
          /\ heard' = IF o \in auto THEN heard \cup {o} ELSE heard
    /\ UNCHANGED <<sessionVars, connVars, registryVars, callVars, chan, trouble>>

LoopEnd ==
    /\ loop.on /\ ~Resized
    /\ At(loop.uri) \subseteq loop.done
    /\ loop' = NoLoop
    /\ heard' = {}
    /\ UNCHANGED <<sessionVars, connVars, registryVars, callVars, chan, trouble>>

LoopRaises ==
    /\ loop.on /\ Resized
    /\ ThreadEnds
    /\ UNCHANGED <<sessionVars, registryVars, callVars>>

--------------------------------------------------------------------------------
UserStep ==
    \/ OpenLogon \/ OpenLogonFails \/ OpenConnect \/ OpenSubscribe \/ InitCpcs
    \/ InitCpcsList \/ EnableRegister \/ EnablePull

Listener == OnMessage \/ LoopYield \/ LoopEnd \/ LoopRaises

Next ==
    \/ \E u \in Uri : Notify(u)
    \/ Expire
    \/ ConnectionLost
    \/ OtherRequest
    \/ Logoff
    \/ \E o \in Object : Subscribe({o})
    \/ Subscribe({})
    \/ Unsubscribe
    \/ \E o \in Object : Disable(o)
    \/ UserStep
    \/ Listener

Spec == Init /\ [][Next]_vars

\* A call of the user goes on until it returns, and the listener handles what the
\* connection delivers.
FairSpec == Spec /\ WF_vars(UserStep) /\ WF_vars(Listener)

--------------------------------------------------------------------------------
(* Properties *)

\* Between calls, the auto-updated objects are registered, and what is registered
\* without being auto-updated is a manager whose first list() failed.
RegistryExact == pc = "idle" => auto \subseteq registered /\ registered \ auto \subseteq Manager

\* Between calls, an auto-updated object is connected all the way to the session's topic
\* on the HMC, unless one of five things has happened to the connection: it could not
\* be established, the CPCs could not be listed, the session expired or was logged
\* off, the user unsubscribed the session, or the listener thread has ended.
AutoIsServed ==
    pc = "idle" /\ auto # {} /\ trouble = {} =>
        /\ conn = "open"
        /\ subTopic = topic /\ topic \in served
        /\ auto \cap Manager # {} => cpcs = "listed"

\* A notification that is on its way reaches every auto-updated object of its URI, also
\* the second one of the same URI, but a manager only once the CPCs are listed.
NotificationsReach ==
    \A o \in Object :
        (o \in auto /\ (o \in Manager => cpcs = "listed") /\ trouble = {}
           /\ \E i \in 1..Len(chan) : chan[i] = UriOf[o])
            ~> (o \in heard \/ o \notin auto \/ trouble # {})
================================================================================
