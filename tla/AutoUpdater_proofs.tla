-------------------------- MODULE AutoUpdater_proofs --------------------------
(* Proofs about AutoUpdater, for any objects, URIs and number of logons. *)
EXTENDS AutoUpdater, FiniteSetTheorems, TLAPS

USE UpdaterAssumption DEF UpdaterAssumption

LEMMA UriExists == (CHOOSE u \in Uri : TRUE) \in Uri
  OBVIOUS

LEMMA CallSize == Cardinality({}) = 0 /\ \A o \in Object : Cardinality({o}) = 1
<1>1. Cardinality({}) = 0
  BY FS_EmptySet
<1>2. ASSUME NEW o \in Object  PROVE Cardinality({o}) = 1
  BY FS_Singleton
<1> QED
  BY <1>1, <1>2

\* The objects of one URI are at most all objects.
LEMMA AtBounded ==
  ASSUME registered \subseteq Object, NEW u \in Uri
  PROVE  Cardinality(At(u)) \in 0..Cardinality(Object)
<1>1. At(u) \subseteq Object
  BY DEF At
<1>2. /\ IsFiniteSet(At(u)) /\ IsFiniteSet(Object)
      /\ Cardinality(At(u)) <= Cardinality(Object)
  BY <1>1, FS_Subset
<1> QED
  BY <1>2, FS_CardinalityType

LEMMA NoLoopType ==
  NoLoop \in [on : BOOLEAN, uri : Uri, done : SUBSET Object, size : 0..Cardinality(Object),
              same : BOOLEAN]
<1>1. Cardinality(Object) \in Nat
  BY FS_CardinalityType
<1> QED
  BY <1>1, UriExists DEF NoLoop

\* A request leaves the session as it is, or has the HMC issue the next topic.
LEMMA RequestType ==
  ASSUME TypeOK, Request \/ NewTopic
  PROVE  /\ topic' \in 0..MaxTopics /\ topics' \in 0..MaxTopics
         /\ served' \subseteq 1..MaxTopics
<1>1. CASE NewTopic
  BY <1>1 DEF TypeOK, NewTopic
<1>2. CASE Request
  BY <1>1, <1>2 DEF TypeOK, Request, sessionVars
<1> QED
  BY <1>1, <1>2

--------------------------------------------------------------------------------
(* Types *)

\* Every variable has its type, in every reachable state: the registry holds objects,
\* the session's topic is one that the HMC issued.
THEOREM TypeCorrect == Spec => []TypeOK
<1>1. Init => TypeOK
  <2> SUFFICES ASSUME Init  PROVE TypeOK
    OBVIOUS
  <2>1. Cardinality(call) <= 1 /\ call \subseteq Object /\ pc \in {"idle"}
    BY CallSize DEF Init
  <2>2. loop \in [on : BOOLEAN, uri : Uri, done : SUBSET Object, size : 0..Cardinality(Object),
                  same : BOOLEAN]
    BY NoLoopType DEF Init
  <2>3. chan \in Seq(Uri) /\ Len(chan) <= MaxChan
    BY DEF Init
  <2>4. /\ topic \in 0..MaxTopics /\ topics \in 0..MaxTopics /\ subTopic \in 0..MaxTopics
        /\ served \subseteq 1..MaxTopics
    BY DEF Init
  <2>5. pc = "idle" => call = {}
    BY DEF Init
  <2>6. /\ conn = "none" /\ cpcs = "none" /\ own = FALSE /\ pc = "idle"
        /\ registered = {} /\ auto = {} /\ heard = {} /\ trouble = {}
    BY DEF Init
  <2> QED
    BY <2>1, <2>2, <2>3, <2>4, <2>5, <2>6 DEF TypeOK
<1>2. TypeOK /\ [Next]_vars => TypeOK'
  <2> SUFFICES ASSUME TypeOK, [Next]_vars  PROVE TypeOK'
    OBVIOUS
  <2> USE DEF TypeOK, sessionVars, connVars, registryVars, callVars, listenVars
  <2>1. ASSUME NEW u \in Uri, Notify(u)  PROVE TypeOK'
    BY <2>1 DEF Notify
  <2>2. CASE Expire
    BY <2>2 DEF Expire, Troubles
  <2>3. CASE ConnectionLost
    BY <2>3, NoLoopType DEF ConnectionLost, Troubles
  <2>4. CASE OtherRequest
    BY <2>4, RequestType DEF OtherRequest
  <2>5. CASE Logoff
    BY <2>5 DEF Logoff, Troubles
  <2>6. ASSUME NEW c \in SUBSET Object, Cardinality(c) <= 1, Subscribe(c)  PROVE TypeOK'
    BY <2>6, CallSize DEF Subscribe
  <2>7. CASE Unsubscribe
    BY <2>7, NoLoopType DEF Unsubscribe, Close, Troubles
  <2>8. ASSUME NEW o \in Object, Disable(o)  PROVE TypeOK'
    <3>1. loop' \in [on : BOOLEAN, uri : Uri, done : SUBSET Object, size : 0..Cardinality(Object),
                     same : BOOLEAN]
      BY <2>8, NoLoopType DEF Disable, Close, LoopWithout
    <3>2. chan' \in Seq(Uri) /\ Len(chan') <= MaxChan
      <4>1. chan' = chan \/ chan' = <<>>
        BY <2>8 DEF Disable, Close
      <4>2. <<>> \in Seq(Uri) /\ Len(<<>>) <= MaxChan
        OBVIOUS
      <4> QED
        BY <4>1, <4>2
    <3>3. /\ conn' \in {"none", "new", "open", "lost"}
          /\ subTopic' \in 0..MaxTopics
          /\ cpcs' \in {"none", "empty", "listed"}
          /\ heard' \subseteq Object
      BY <2>8 DEF Disable, Close
    <3> QED
      BY <2>8, <3>1, <3>2, <3>3 DEF Disable, UnregisterObject
  <2>9. CASE OpenLogon
    BY <2>9, RequestType DEF OpenLogon, Goto
  <2>10. CASE OpenLogonFails
    BY <2>10, CallSize DEF OpenLogonFails, Return
  <2>11. CASE OpenConnect
    <3>1. /\ call' \subseteq Object /\ Cardinality(call') <= 1
          /\ pc' \in {"idle", "subscribe"} /\ (pc' = "idle" => call' = {})
      <4>1. \/ call' = {} /\ pc' = "idle"
            \/ call' = call /\ pc' = "subscribe"
        BY <2>11 DEF OpenConnect, Goto, Return
      <4>2. CASE call' = {} /\ pc' = "idle"
        BY <4>2, CallSize
      <4>3. CASE call' = call /\ pc' = "subscribe"
        BY <4>3
      <4> QED
        BY <4>1, <4>2, <4>3
    <3> QED
      BY <2>11, <3>1 DEF OpenConnect, Troubles
  <2>12. CASE OpenSubscribe
    BY <2>12 DEF OpenSubscribe, Goto
  <2>13. CASE InitCpcs
    BY <2>13 DEF InitCpcs, Goto
  <2>14. CASE InitCpcsList
    <3>1. /\ call' \subseteq Object /\ Cardinality(call') <= 1
          /\ pc' \in {"idle", "register"} /\ (pc' = "idle" => call' = {})
      <4>1. \/ call' = {} /\ pc' = "idle"
            \/ call' = call /\ pc' = "register"
        BY <2>14 DEF InitCpcsList, Goto, Return
      <4>2. CASE call' = {} /\ pc' = "idle"
        BY <4>2, CallSize
      <4>3. CASE call' = call /\ pc' = "register"
        BY <4>3
      <4> QED
        BY <4>1, <4>2, <4>3
    <3>2. /\ topic' \in 0..MaxTopics /\ topics' \in 0..MaxTopics
          /\ served' \subseteq 1..MaxTopics
      BY <2>14, RequestType DEF InitCpcsList
    <3> QED
      BY <2>14, <3>1, <3>2 DEF InitCpcsList, Troubles
  <2>15. CASE EnableRegister
    BY <2>15 DEF EnableRegister, RegisterObject, Goto
  <2>16. CASE EnablePull
    <3>1. call' = {} /\ Cardinality(call') <= 1 /\ pc' = "idle"
      BY <2>16, CallSize DEF EnablePull, Return
    <3>2. /\ topic' \in 0..MaxTopics /\ topics' \in 0..MaxTopics
          /\ served' \subseteq 1..MaxTopics
      BY <2>16, RequestType DEF EnablePull
    <3> QED
      BY <2>16, <3>1, <3>2 DEF EnablePull
  <2>17. CASE OnMessage
    <3>1. Head(chan) \in Uri /\ Tail(chan) \in Seq(Uri) /\ Len(Tail(chan)) <= MaxChan
      BY <2>17 DEF OnMessage
    <3>2. Cardinality(At(Head(chan))) \in 0..Cardinality(Object)
      BY <3>1, AtBounded
    <3>3. loop' \in [on : BOOLEAN, uri : Uri, done : SUBSET Object, size : 0..Cardinality(Object),
                     same : BOOLEAN]
      <4> DEFINE begun == [on |-> TRUE, uri |-> Head(chan), done |-> {},
                           size |-> Cardinality(At(Head(chan))), same |-> TRUE]
      <4>1. loop' = NoLoop \/ loop' = begun
        BY <2>17 DEF OnMessage, ThreadEnds
      <4>2. begun \in [on : BOOLEAN, uri : Uri, done : SUBSET Object,
                       size : 0..Cardinality(Object), same : BOOLEAN]
        BY <3>1, <3>2
      <4> QED
        BY <4>1, <4>2, NoLoopType
    <3>4. chan' \in Seq(Uri) /\ Len(chan') <= MaxChan
      <4>1. chan' = Tail(chan) \/ chan' = <<>>
        BY <2>17 DEF OnMessage, ThreadEnds
      <4>2. <<>> \in Seq(Uri) /\ Len(<<>>) <= MaxChan
        OBVIOUS
      <4> QED
        BY <3>1, <4>1, <4>2
    <3>5. /\ conn' \in {"none", "new", "open", "lost"}
          /\ trouble' \subseteq Troubles
          /\ UNCHANGED <<subTopic, cpcs, heard>>
      BY <2>17 DEF OnMessage, ThreadEnds, Troubles
    <3>6. UNCHANGED <<sessionVars, registryVars, callVars>>
      BY <2>17 DEF OnMessage
    <3> QED
      BY <3>3, <3>4, <3>5, <3>6
  <2>18. CASE LoopYield
    BY <2>18 DEF LoopYield, At
  <2>19. CASE LoopEnd
    BY <2>19, NoLoopType DEF LoopEnd
  <2>20. CASE LoopRaises
    BY <2>20, NoLoopType DEF LoopRaises, ThreadEnds, Troubles
  <2>21. CASE UNCHANGED vars
    BY <2>21 DEF vars
  <2>22. Cardinality({}) <= 1 /\ \A o \in Object : Cardinality({o}) <= 1
    BY CallSize
  <2> QED
    BY <2>1, <2>2, <2>3, <2>4, <2>5, <2>6, <2>7, <2>8, <2>9, <2>10, <2>11, <2>12,
       <2>13, <2>14, <2>15, <2>16, <2>17, <2>18, <2>19, <2>20, <2>21, <2>22
       DEF Next, UserStep, Listener
<1> QED
  BY <1>1, <1>2, PTL DEF Spec

--------------------------------------------------------------------------------
(* The registry *)

\* RegistryExact holds between calls because nearly the same holds within them: the
\* object of a call that is about to pull is registered.
RegistryInv ==
    /\ auto \subseteq registered
    /\ registered \ auto \subseteq Manager
    /\ pc = "pull" => call \subseteq registered

\* A call is about one object at most.
LEMMA CallOne ==
  ASSUME TypeOK, NEW o \in call
  PROVE  call = {o}
<1>1. IsFiniteSet(call) /\ Cardinality(call) \in Nat
  BY FS_Subset, FS_CardinalityType DEF TypeOK
<1>2. Cardinality(call) # 0
  BY <1>1, FS_EmptySet
<1>3. Cardinality(call) = 1
  BY <1>1, <1>2 DEF TypeOK
<1>4. \E x : call = {x}
  BY <1>1, <1>3, FS_Singleton
<1> QED
  BY <1>4

\* What the steps other than those of enable_auto_update() and disable_auto_update()
\* leave alone.
LEMMA RegistryFrame ==
  ASSUME TypeOK, [Next]_vars, pc \notin {"register", "pull"}, \A o \in Object : ~Disable(o)
  PROVE  /\ UNCHANGED <<registered, auto>>
         /\ pc' # "pull"
<1>1. ASSUME NEW u \in Uri, Notify(u)  PROVE UNCHANGED <<registryVars, callVars>>
  BY <1>1 DEF Notify
<1>2. ASSUME NEW c \in SUBSET Object, Subscribe(c)
      PROVE  UNCHANGED registryVars /\ pc' # "pull"
  BY <1>2 DEF Subscribe
<1>3. CASE Expire \/ ConnectionLost \/ OtherRequest \/ Logoff \/ Unsubscribe
  BY <1>3 DEF Expire, ConnectionLost, OtherRequest, Logoff, Unsubscribe, registryVars, callVars
<1>4. CASE OpenLogon \/ OpenLogonFails \/ OpenConnect \/ OpenSubscribe \/ InitCpcs
  BY <1>4 DEF OpenLogon, OpenLogonFails, OpenConnect, OpenSubscribe, InitCpcs, Goto, Return,
              registryVars
<1>5. CASE InitCpcsList
  BY <1>5 DEF InitCpcsList, Goto, Return, registryVars
<1>6. CASE EnableRegister \/ EnablePull
  BY <1>6 DEF EnableRegister, EnablePull
<1>7. CASE Listener
  BY <1>7 DEF Listener, OnMessage, LoopYield, LoopEnd, LoopRaises, registryVars, callVars
<1>8. CASE UNCHANGED vars
  BY <1>8 DEF vars, registryVars, callVars
<1> QED
  BY <1>1, <1>2, <1>3, <1>4, <1>5, <1>6, <1>7, <1>8
     DEF Next, UserStep, registryVars, callVars

LEMMA RegistryStep == TypeOK /\ RegistryInv /\ [Next]_vars => RegistryInv'
<1> SUFFICES ASSUME TypeOK, RegistryInv, [Next]_vars  PROVE RegistryInv'
  OBVIOUS
<1> USE DEF RegistryInv
<1>1. ASSUME NEW o \in Object, Disable(o)  PROVE RegistryInv'
  <2>1. registered' = registered \ {o} /\ auto' = auto \ {o} /\ pc' = "idle"
    BY <1>1 DEF Disable, UnregisterObject, callVars
  <2> QED
    BY <2>1
<1>2. CASE EnableRegister
  <2>1. PICK o \in call : /\ registered' = registered \cup {o}
                          /\ auto' = IF o \in Manager THEN auto ELSE auto \cup {o}
    BY <1>2 DEF EnableRegister, RegisterObject
  <2>2. call' = call
    BY <1>2 DEF EnableRegister, Goto
  <2>3. call = {o}
    BY <2>1, CallOne
  <2> QED
    BY <2>1, <2>2, <2>3
<1>3. CASE EnablePull
  <2>1. registered' = registered /\ pc' = "idle" /\ pc = "pull" /\ auto' \in {auto, auto \cup call}
    BY <1>3 DEF EnablePull, Return
  <2> QED
    BY <2>1
<1>4. CASE ~EnableRegister /\ ~EnablePull /\ \A o \in Object : ~Disable(o)
  <2>1. CASE pc \notin {"register", "pull"}
    BY <1>4, <2>1, RegistryFrame
  <2>2. CASE pc \in {"register", "pull"}
    <3>1. UNCHANGED <<registryVars, callVars>>
      <4>1. \/ \E u \in Uri : Notify(u)
            \/ Expire \/ ConnectionLost \/ Listener \/ UNCHANGED vars
        BY <1>4, <2>2 DEF Next, UserStep, OtherRequest, Logoff, Subscribe, Unsubscribe,
              OpenLogon, OpenLogonFails, OpenConnect, OpenSubscribe, InitCpcs, InitCpcsList
      <4>2. ASSUME NEW u \in Uri, Notify(u)  PROVE UNCHANGED <<registryVars, callVars>>
        BY <4>2 DEF Notify
      <4>3. CASE Listener
        BY <4>3 DEF Listener, OnMessage, LoopYield, LoopEnd, LoopRaises
      <4>4. CASE Expire \/ ConnectionLost \/ UNCHANGED vars
        BY <4>4 DEF Expire, ConnectionLost, vars
      <4> QED
        BY <4>1, <4>2, <4>3, <4>4
    <3> QED
      BY <3>1 DEF registryVars, callVars
  <2> QED
    BY <2>1, <2>2
<1> QED
  BY <1>1, <1>2, <1>3, <1>4

\* Between calls, the objects that are auto-updated are registered, and only a manager
\* whose first list() failed is registered without being auto-updated.
THEOREM RegistryIsExact == Spec => []RegistryExact
<1>1. Init => RegistryInv
  BY DEF Init, RegistryInv
<1>2. TypeOK /\ RegistryInv /\ [Next]_vars => RegistryInv'
  BY RegistryStep
<1>3. RegistryInv => RegistryExact
  BY DEF RegistryInv, RegistryExact
<1> QED
  BY <1>1, <1>2, <1>3, TypeCorrect, PTL DEF Spec

--------------------------------------------------------------------------------
(* The connection *)

\* What holds of the connection while nothing has happened to it, at every step of a
\* call: until open() has connected there is no connection, and from there on it is
\* open, with a topic that the HMC serves, to which it is subscribed from the next
\* step on; the CPCs are listed before open() returns.
ConnInv ==
    /\ pc \in {"open", "connect"} => conn = "none"
    /\ pc \in {"subscribe", "init", "list", "register", "pull"} => conn # "none"
    /\ conn = "none" /\ auto # {} => trouble # {}
    /\ conn \in {"new", "lost"} => trouble # {}
    /\ conn = "open" /\ trouble = {} =>
          /\ topic \in served
          /\ pc # "subscribe" => subTopic = topic
          /\ pc \notin {"subscribe", "init", "list"} => cpcs = "listed"
    /\ loop.on => conn = "open"

LEMMA ConnStep == TypeOK /\ RegistryInv /\ ConnInv /\ [Next]_vars => ConnInv'
<1> SUFFICES ASSUME TypeOK, RegistryInv, ConnInv, [Next]_vars  PROVE ConnInv'
  OBVIOUS
<1> USE DEF ConnInv, sessionVars, connVars, registryVars, callVars, listenVars
<1>0. ~NoLoop.on
  BY DEF NoLoop
<1>1. ASSUME NEW u \in Uri, Notify(u)  PROVE ConnInv'
  BY <1>1 DEF Notify
<1>2. CASE Expire
  BY <1>2 DEF Expire
<1>3. CASE ConnectionLost
  BY <1>0, <1>3 DEF ConnectionLost
<1>4. CASE OtherRequest
  BY <1>4 DEF OtherRequest
<1>5. CASE Logoff
  BY <1>5 DEF Logoff
<1>6. ASSUME NEW c \in SUBSET Object, Subscribe(c)  PROVE ConnInv'
  BY <1>6 DEF Subscribe
<1>7. CASE Unsubscribe
  BY <1>0, <1>7 DEF Unsubscribe, Close
\* The connection is closed with the last registered object, and none is auto-updated.
<1>8. ASSUME NEW o \in Object, Disable(o)  PROVE ConnInv'
  <2>1. CASE registered \subseteq {o} /\ ~own /\ conn # "none"
    <3>1. auto' = {}
      BY <1>8, <2>1 DEF Disable, RegistryInv
    <3> QED
      BY <1>0, <1>8, <2>1, <3>1 DEF Disable, Close
  <2>2. CASE ~(registered \subseteq {o} /\ ~own /\ conn # "none")
    BY <1>0, <1>8, <2>2 DEF Disable, LoopWithout, TypeOK
  <2> QED
    BY <2>1, <2>2
<1>9. CASE OpenLogon \/ OpenLogonFails
  BY <1>9 DEF OpenLogon, OpenLogonFails, Goto, Return
<1>10. CASE OpenConnect
  BY <1>10 DEF OpenConnect, Goto, Return
<1>11. CASE OpenSubscribe
  BY <1>11 DEF OpenSubscribe, Goto
<1>12. CASE InitCpcs
  BY <1>12 DEF InitCpcs, Goto
<1>13. CASE InitCpcsList
  BY <1>13 DEF InitCpcsList, Request, Goto, Return
<1>14. CASE EnableRegister
  BY <1>14 DEF EnableRegister, Goto
<1>15. CASE EnablePull
  BY <1>15 DEF EnablePull, Request, Return
<1>16. CASE OnMessage
  BY <1>0, <1>16 DEF OnMessage, ThreadEnds
<1>17. CASE LoopYield \/ LoopEnd \/ LoopRaises
  BY <1>0, <1>17 DEF LoopYield, LoopEnd, LoopRaises, ThreadEnds
<1>18. CASE UNCHANGED vars
  BY <1>18 DEF vars
<1> QED
  BY <1>1, <1>2, <1>3, <1>4, <1>5, <1>6, <1>7, <1>8, <1>9, <1>10, <1>11, <1>12, <1>13,
     <1>14, <1>15, <1>16, <1>17, <1>18 DEF Next, UserStep, Listener

\* Between calls, an auto-updated object is connected all the way to the session's topic
\* on the HMC, whatever calls and expiries there were before, unless something has
\* happened to the connection since it was opened.
THEOREM AutoIsServedAlways == Spec => []AutoIsServed
<1>1. Init => RegistryInv /\ ConnInv
  BY DEF Init, RegistryInv, ConnInv, NoLoop
<1>2. TypeOK /\ RegistryInv /\ ConnInv /\ [Next]_vars => RegistryInv' /\ ConnInv'
  BY RegistryStep, ConnStep
<1>3. TypeOK /\ RegistryInv /\ ConnInv => AutoIsServed
  BY DEF TypeOK, ConnInv, AutoIsServed
<1> QED
  BY <1>1, <1>2, <1>3, TypeCorrect, PTL DEF Spec

================================================================================
