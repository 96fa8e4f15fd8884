---------------------- MODULE NotificationReceiver_proofs ----------------------
(***************************************************************************)
(* Proofs about NotificationReceiver, for any topics, any size of the      *)
(* queue and any numbers of connections and frames: type correctness,      *)
(* SubscriptionsKept and ImplementsChannel.                                *)
(***************************************************************************)
EXTENDS NotificationReceiver, TLAPS

USE ReceiverAssumption DEF ReceiverAssumption

\* The generator has an item only between taking and handling it, and frames are sent on
\* an existing connection.
ControlOK ==
    /\ item # NoFrame <=> pc = "got"
    /\ link # "down" \/ pc \in {"connecting", "subscribing"} => conn # 0
    /\ subs # {} => IsConnected

\* The subscription IDs that the connections to come need at most,
Reserve(n) == (MaxConnects - n) * Len(TopicNames)

\* and those that connect() still needs for the current connection.
Wanted == IF pc = "connecting" THEN Len(TopicNames) ELSE IF pc = "subscribing" THEN Len(todo) ELSE 0

IdsSuffice == nextSubId + Wanted + Reserve(conn) <= MaxSubIds + 1

TypeInv == TypeOK /\ ControlOK /\ IdsSuffice

--------------------------------------------------------------------------------

\* IDs were allocated before, and the last one of a topic is recorded.
IdsKnown ==
    /\ \A s \in subs : s.id < nextSubId /\ s.id <= subIds[s.topic]
    /\ \A t \in Topic : subIds[t] < nextSubId
    /\ \A r, s \in subs : r.id = s.id => r = s

\* What connect() has not subscribed for is the rest of the topic names.
ConnectInv ==
    pc = "subscribing" =>
        /\ Len(todo) <= Len(TopicNames)
        /\ \A j \in 1..Len(todo) : todo[j] = TopicNames[Len(TopicNames) - Len(todo) + j]
        /\ IsConnected => \A i \in 1..(Len(TopicNames) - Len(todo)) :
                              \E s \in subs : s.topic = TopicNames[i]

SubscriptionInv == IdsKnown /\ ConnectInv

--------------------------------------------------------------------------------

\* The frames of a connection are ordered,
Ahead(f, g)  == f.con = g.con => f.n < g.n
Before(A, B) == \A f \in A, g \in B : Ahead(f, g)
Sorted(s)    == \A i, j \in 1..Len(s) : i < j => Ahead(s[i], s[j])

\* from the item to the wire;
WayInv ==
    /\ Sorted(queue) /\ Sorted(wire)
    /\ Before(Frames(queue), Hands) /\ Before(Frames(queue), Frames(wire))
    /\ Before(Hands, Frames(wire))
    /\ item # NoFrame => /\ Before({item}, Frames(queue)) /\ Before({item}, Hands)
                         /\ Before({item}, Frames(wire))

\* a listener holds frames of its own connection, and the wire is the current connection.
PlaceInv ==
    /\ \A c \in 1..MaxConnects : hand[c] # NoFrame => hand[c].con = c
    /\ \A f \in Frames(wire) : f.con = conn

NumbersSent == \A f \in OnTheWay : f.n <= sent

OrderInv == WayInv /\ PlaceInv /\ NumbersSent

--------------------------------------------------------------------------------
(* Kinds of steps *)

\* The connection goes down, or is replaced, and what was on the wire is lost.
WireGone ==
    /\ GoDown(link') /\ link' \in {"down", "lost", "closed"}
    /\ \/ conn' = conn /\ link = "up" /\ pc' = pc
       \/ conn' = conn + 1 /\ conn < MaxConnects /\ pc = "out" /\ pc' = "connecting"
    /\ UNCHANGED <<hand, queue, item, sent, delivered, reported, subVars, todo>>

\* The generator has handled its item.
ItemGone ==
    /\ pc = "got" /\ pc' \in {"out", "yield"} /\ item' = NoFrame
    /\ UNCHANGED <<linkVars, hand, queue, sent, subVars, todo>>
    /\ \/ delivered' = Append(delivered, item) /\ UNCHANGED <<reported, missed>>
       \/ reported' = reported \cup {item.n} /\ UNCHANGED <<delivered, missed>>
       \/ missed' = missed \cup {item.n} /\ UNCHANGED <<delivered, reported>>

FrameMoves ==
    \/ \E kind \in {"message", "error"} : Send(kind)
    \/ OnFrame
    \/ \E c \in 1..MaxConnects : Put(c) \/ PutTimesOut(c)
    \/ GetItem

\* Steps that are only about the subscriptions.
SubsStep ==
    \/ Connected
    \/ SubscribeNext
    \/ \E t \in Topic : UserSubscribe(t) \/ UserUnsubscribe(t)

\* Steps that are only about the threads.
Quiet ==
    /\ UNCHANGED <<linkVars, hand, queue, subVars, todo, item, sent, history>>
    /\ \/ pc' = pc
       \/ pc # "got" /\ pc' \notin {"connecting", "subscribing", "got"}

LEMMA StepKinds ==
  ASSUME TypeInv, [Next]_vars
  PROVE  WireGone \/ ItemGone \/ FrameMoves \/ SubsStep \/ Quiet
<1> USE DEF linkVars, subVars, endVars, genVars, history
<1>1. CASE Lose \/ Connect \/ CloseDisconnect
  <2>1. CASE Lose
    BY <2>1 DEF Lose, GoDown, WireGone, IsConnected, TypeInv, TypeOK, FramesTypeOK
  <2>2. CASE Connect
    BY <2>2 DEF Connect, GoDown, WireGone, TypeInv, TypeOK, FramesTypeOK
  <2>3. CASE CloseDisconnect
    <3>1. CASE IsConnected
      BY <2>3, <3>1 DEF CloseDisconnect, GoDown, WireGone, IsConnected
    <3>2. CASE ~IsConnected
      BY <2>3, <3>2 DEF CloseDisconnect, Quiet
    <3> QED BY <3>1, <3>2
  <2> QED BY <1>1, <2>1, <2>2, <2>3
<1>2. CASE GotStop \/ GotMessage \/ GotUnparsable \/ GotError
  BY <1>2 DEF GotStop, GotMessage, GotUnparsable, GotError, End, ItemGone
<1>3. CASE \/ ConnectFails \/ AllSubscribed \/ LoopTop \/ GetEmpty
           \/ EmptyStop \/ EmptyLost \/ EmptyContinue
  BY <1>3 DEF ConnectFails, AllSubscribed, LoopTop, GetEmpty, EmptyStop, EmptyLost,
              EmptyContinue, End, Quiet
<1>4. CASE Consumer
  BY <1>4 DEF Consumer, ConsumerNext, ConsumerLeaves, End, Quiet
<1>5. CASE CloseFlag \/ SetStop
  BY <1>5 DEF CloseFlag, SetStop, Quiet
<1>6. CASE UNCHANGED vars
  BY <1>6 DEF vars, Quiet
<1> QED
  BY <1>1, <1>2, <1>3, <1>4, <1>5, <1>6
  DEF Next, Generator, Publish, SendError, FrameMoves, SubsStep

--------------------------------------------------------------------------------
(* Types *)

LEMMA TypeInit == Init => TypeInv
<1> SUFFICES ASSUME Init PROVE TypeInv
  OBVIOUS
<1>1. FramesTypeOK
  BY DEF Init, FramesTypeOK
<1>2. SubsTypeOK
  BY DEF Init, SubsTypeOK
<1>3. ThreadsTypeOK
  BY DEF Init, ThreadsTypeOK
<1>4. HistoryTypeOK
  BY DEF Init, HistoryTypeOK
<1>5. ControlOK
  BY DEF Init, ControlOK, IsConnected
<1>6. IdsSuffice
  BY DEF Init, IdsSuffice, Wanted, Reserve
<1> QED BY <1>1, <1>2, <1>3, <1>4, <1>5, <1>6 DEF TypeInv, TypeOK

\* The threads are where they can be.
LEMMA ThreadsStep ==
  ASSUME TypeInv, [Next]_vars
  PROVE  ThreadsTypeOK'
<1> USE DEF TypeInv, TypeOK, ThreadsTypeOK, endVars, genVars
<1>1. CASE Publish \/ SendError \/ Lose \/ OnFrame \/ UNCHANGED vars
  BY <1>1 DEF Publish, SendError, Send, Lose, OnFrame, vars
<1>2. CASE \E c \in 1..MaxConnects : Put(c) \/ PutTimesOut(c)
  BY <1>2 DEF Put, PutTimesOut
<1>3. CASE Connect \/ ConnectFails \/ Connected \/ SubscribeNext \/ AllSubscribed
  BY <1>3 DEF Connect, ConnectFails, Connected, SubscribeNext, AllSubscribed, End
<1>4. CASE LoopTop \/ GetItem \/ GetEmpty \/ EmptyStop \/ EmptyLost \/ EmptyContinue
  BY <1>4 DEF LoopTop, GetItem, GetEmpty, EmptyStop, EmptyLost, EmptyContinue, End
<1>5. CASE GotStop \/ GotMessage \/ GotUnparsable \/ GotError
  BY <1>5 DEF GotStop, GotMessage, GotUnparsable, GotError, End
<1>6. CASE Consumer \/ \E t \in Topic : UserSubscribe(t) \/ UserUnsubscribe(t)
  BY <1>6 DEF Consumer, ConsumerNext, ConsumerLeaves, UserSubscribe, UserUnsubscribe, End
<1>7. CASE CloseFlag \/ CloseDisconnect \/ SetStop
  BY <1>7 DEF CloseFlag, CloseDisconnect, SetStop
<1> QED BY <1>1, <1>2, <1>3, <1>4, <1>5, <1>6, <1>7 DEF Next, Generator

LEMMA FramesStep ==
  ASSUME TypeInv, [Next]_vars
  PROVE  FramesTypeOK' /\ HistoryTypeOK'
<1> USE DEF TypeInv, TypeOK
<1>1. CASE WireGone
  <2>1. Numbers(wire) \subseteq 1..MaxFrames
    <3>1. \A i \in 1..Len(wire) : wire[i] \in Frame
      BY DEF FramesTypeOK
    <3> QED BY <3>1 DEF Numbers, Frames, Frame
  <2>2. FramesTypeOK'
    BY <1>1 DEF WireGone, GoDown, FramesTypeOK
  <2>3. HistoryTypeOK'
    BY <1>1, <2>1 DEF WireGone, GoDown, HistoryTypeOK
  <2> QED BY <2>2, <2>3
<1>2. CASE ItemGone
  <2>1. item \in Frame /\ item.n \in 1..MaxFrames
    BY <1>2 DEF ItemGone, ControlOK, FramesTypeOK, Frame
  <2>2. FramesTypeOK'
    BY <1>2 DEF ItemGone, FramesTypeOK, linkVars
  <2>3. delivered' \in Seq(Frame)
    <3>1. delivered \in Seq(Frame) /\ Append(delivered, item) \in Seq(Frame)
      BY <2>1 DEF HistoryTypeOK
    <3> QED BY <1>2, <3>1 DEF ItemGone
  <2>4. HistoryTypeOK'
    BY <1>2, <2>1, <2>3 DEF ItemGone, HistoryTypeOK
  <2> QED BY <2>2, <2>4
<1>3. ASSUME NEW kind \in {"message", "error"}, Send(kind)
      PROVE  FramesTypeOK' /\ HistoryTypeOK'
  <2>1. [n |-> sent + 1, con |-> conn, kind |-> kind] \in Frame
    BY <1>3 DEF Send, IsConnected, ControlOK, FramesTypeOK, HistoryTypeOK, Frame
  <2> QED BY <1>3, <2>1 DEF Send, FramesTypeOK, HistoryTypeOK, genVars, history
<1>4. CASE OnFrame
  <2>1. Head(wire) \in Frame /\ Tail(wire) \in Seq(Frame)
    BY <1>4 DEF OnFrame, FramesTypeOK
  <2> QED BY <1>4, <2>1 DEF OnFrame, FramesTypeOK, HistoryTypeOK, genVars, history
<1>5. ASSUME NEW c \in 1..MaxConnects, Put(c) \/ PutTimesOut(c)
      PROVE  FramesTypeOK' /\ HistoryTypeOK'
  <2>1. hand[c] \in Frame /\ hand[c].n \in 1..MaxFrames
    BY <1>5 DEF Put, PutTimesOut, FramesTypeOK, Frame
  <2>2. FramesTypeOK'
    <3>1. CASE Put(c)
      BY <3>1, <2>1 DEF Put, FramesTypeOK, linkVars, genVars
    <3>2. CASE PutTimesOut(c)
      BY <3>2, <2>1 DEF PutTimesOut, FramesTypeOK, linkVars, genVars
    <3> QED BY <1>5, <3>1, <3>2
  <2>3. HistoryTypeOK'
    BY <1>5, <2>1 DEF Put, PutTimesOut, HistoryTypeOK, history
  <2> QED BY <2>2, <2>3
<1>6. CASE GetItem
  BY <1>6 DEF GetItem, FramesTypeOK, HistoryTypeOK, linkVars, history
<1>7. CASE SubsStep
  BY <1>7 DEF SubsStep, Connected, SubscribeNext, UserSubscribe, UserUnsubscribe,
              FramesTypeOK, HistoryTypeOK, genVars, history
<1>8. CASE Quiet
  BY <1>8 DEF Quiet, FramesTypeOK, HistoryTypeOK, linkVars, history
<1> QED BY <1>1, <1>2, <1>3, <1>4, <1>5, <1>6, <1>7, <1>8, StepKinds DEF FrameMoves

LEMMA ControlStep ==
  ASSUME TypeInv, [Next]_vars
  PROVE  ControlOK'
<1> USE DEF TypeInv, TypeOK, ControlOK, IsConnected
<1>1. CASE WireGone
  BY <1>1 DEF WireGone, GoDown, FramesTypeOK
<1>2. CASE ItemGone
  BY <1>2 DEF ItemGone, linkVars
<1>3. ASSUME NEW kind \in {"message", "error"}, Send(kind)
      PROVE  ControlOK'
  BY <1>3 DEF Send, genVars
<1>4. CASE OnFrame \/ \E c \in 1..MaxConnects : Put(c) \/ PutTimesOut(c)
  BY <1>4 DEF OnFrame, Put, PutTimesOut, linkVars, genVars
<1>5. CASE GetItem
  <2>1. item' \in Frame
    BY <1>5 DEF GetItem, FramesTypeOK
  <2>2. item' # NoFrame
    BY <2>1 DEF Frame
  <2> QED BY <1>5, <2>2 DEF GetItem, linkVars
<1>6. CASE SubsStep
  <2>1. CASE Connected \/ SubscribeNext
    BY <2>1 DEF Connected, SubscribeNext, Subscribe, End
  <2>2. CASE \E t \in Topic : UserSubscribe(t) \/ UserUnsubscribe(t)
    BY <2>2 DEF UserSubscribe, UserUnsubscribe, Subscribe, genVars
  <2> QED BY <1>6, <2>1, <2>2 DEF SubsStep
<1>7. CASE Quiet
  BY <1>7 DEF Quiet, linkVars
<1> QED BY <1>1, <1>2, <1>3, <1>4, <1>5, <1>6, <1>7, StepKinds DEF FrameMoves

\* Every connection but the last leaves enough subscription IDs for the others.
LEMMA ReserveSteps ==
  ASSUME NEW n \in 0..MaxConnects
  PROVE  /\ Reserve(n) \in Nat
         /\ n < MaxConnects => Reserve(n) = Len(TopicNames) + Reserve(n + 1)
<1>1. Len(TopicNames) \in Nat /\ MaxConnects \in Nat
  OBVIOUS
<1>2. Reserve(n) \in Nat
  BY <1>1 DEF Reserve
<1>3. ASSUME n < MaxConnects
      PROVE  Reserve(n) = Len(TopicNames) + Reserve(n + 1)
  BY <1>1, <1>3 DEF Reserve
<1> QED BY <1>2, <1>3

\* Allocating an ID keeps the rest within what is allowed.
LEMMA SubscribeType ==
  ASSUME SubsTypeOK, NEW t \in Topic, Subscribe(t), nextSubId <= MaxSubIds
  PROVE  /\ subs' \subseteq Subscription
         /\ subIds' \in [Topic -> 0..MaxSubIds]
         /\ nextSubId' \in 1..(MaxSubIds + 1) /\ nextSubId' = nextSubId + 1
<1>1. nextSubId \in 1..MaxSubIds
  BY DEF SubsTypeOK
<1>2. [id |-> nextSubId, topic |-> t] \in Subscription
  BY <1>1 DEF Subscription
<1> QED BY <1>1, <1>2 DEF Subscribe, SubsTypeOK

LEMMA SubsStepType ==
  ASSUME TypeInv, [Next]_vars
  PROVE  SubsTypeOK' /\ IdsSuffice'
<1> USE DEF TypeInv, TypeOK
<1>0. /\ conn \in 0..MaxConnects /\ nextSubId \in Nat /\ Len(todo) \in Nat
      /\ Len(TopicNames) \in Nat /\ MaxConnects \in Nat /\ MaxSubIds \in Nat
      /\ Reserve(conn) \in Nat
      /\ conn < MaxConnects => /\ Reserve(conn) = Len(TopicNames) + Reserve(conn + 1)
                               /\ Reserve(conn + 1) \in Nat
  BY ReserveSteps DEF FramesTypeOK, SubsTypeOK
<1>1. CASE WireGone
  <2>1. SubsTypeOK'
    BY <1>1 DEF WireGone, GoDown, SubsTypeOK, subVars
  <2>2. CASE conn' = conn /\ pc' = pc
    <3>1. Wanted' = Wanted /\ Reserve(conn)' = Reserve(conn)
      BY <1>1, <2>2 DEF WireGone, Wanted, Reserve
    <3> QED BY <1>1, <2>1, <3>1 DEF WireGone, IdsSuffice, subVars
  <2>3. CASE conn' = conn + 1 /\ conn < MaxConnects /\ pc = "out" /\ pc' = "connecting"
    <3>1. Wanted = 0 /\ Wanted' = Len(TopicNames) /\ Reserve(conn)' = Reserve(conn + 1)
      BY <2>3 DEF Wanted, Reserve
    <3>2. nextSubId' = nextSubId
      BY <1>1 DEF WireGone, subVars
    <3>3. nextSubId + Reserve(conn) <= MaxSubIds + 1
      BY <1>0, <3>1 DEF IdsSuffice
    <3> QED BY <1>0, <2>1, <2>3, <3>1, <3>2, <3>3 DEF IdsSuffice
  <2> QED BY <1>1, <2>1, <2>2, <2>3 DEF WireGone
<1>2. CASE ItemGone \/ Quiet
  <2>1. SubsTypeOK'
    BY <1>2 DEF ItemGone, Quiet, SubsTypeOK, linkVars, subVars
  <2>2. /\ Wanted' \in Nat /\ Wanted' <= Wanted
        /\ Reserve(conn)' = Reserve(conn) /\ nextSubId' = nextSubId
    BY <1>0, <1>2 DEF ItemGone, Quiet, Wanted, Reserve, linkVars, subVars
  <2>3. Wanted \in Nat
    BY <1>0 DEF Wanted
  <2> QED BY <1>0, <2>1, <2>2, <2>3 DEF IdsSuffice
<1>3. CASE FrameMoves
  <2>1. UNCHANGED <<conn, subs, subVars, todo>>
    BY <1>3 DEF FrameMoves, Send, OnFrame, Put, PutTimesOut, GetItem, linkVars, genVars
  <2>2. pc' = pc \/ (pc = "get" /\ pc' = "got")
    BY <1>3 DEF FrameMoves, Send, OnFrame, Put, PutTimesOut, GetItem, genVars
  <2>3. SubsTypeOK'
    BY <2>1 DEF SubsTypeOK, subVars
  <2> QED BY <2>1, <2>2, <2>3 DEF IdsSuffice, Wanted, Reserve, subVars
<1>4. CASE Connected
  <2>1. SubsTypeOK'
    BY <1>4 DEF Connected, SubsTypeOK, subVars
  <2> QED BY <1>4, <2>1 DEF Connected, IdsSuffice, Wanted, Reserve, subVars
<1>5. CASE SubscribeNext
  <2>1. /\ Head(todo) \in Topic /\ Tail(todo) \in Seq(Topic)
        /\ Len(Tail(todo)) = Len(todo) - 1 /\ Len(todo) > 0
    BY <1>5 DEF SubscribeNext, SubsTypeOK
  <2>2. nextSubId + Len(todo) + Reserve(conn) <= MaxSubIds + 1
    BY <1>5 DEF SubscribeNext, IdsSuffice, Wanted
  <2>3. SubsTypeOK' /\ nextSubId' = nextSubId + 1
    BY <1>0, <1>5, <2>1, <2>2, SubscribeType DEF SubscribeNext, SubsTypeOK
  <2>4. Wanted' \in {0, Len(todo) - 1} /\ Reserve(conn)' = Reserve(conn)
    BY <1>5, <2>1 DEF SubscribeNext, Wanted, Reserve, End
  <2>5. Wanted' \in Nat /\ Wanted' <= Len(todo) - 1
    BY <1>0, <2>1, <2>4
  <2>6. nextSubId' + Wanted' + Reserve(conn) <= MaxSubIds + 1
    BY <1>0, <2>2, <2>3, <2>5
  <2> QED BY <2>3, <2>4, <2>6 DEF IdsSuffice
<1>6. ASSUME NEW t \in Topic, UserSubscribe(t)
      PROVE  SubsTypeOK' /\ IdsSuffice'
  <2>1. nextSubId + Reserve(conn) <= MaxSubIds
    BY <1>6 DEF UserSubscribe, Reserve
  <2>2. SubsTypeOK' /\ nextSubId' = nextSubId + 1
    BY <1>0, <1>6, <2>1, SubscribeType DEF UserSubscribe, SubsTypeOK, genVars
  <2>3. Wanted' = 0 /\ Reserve(conn)' = Reserve(conn)
    BY <1>6 DEF UserSubscribe, Wanted, Reserve, genVars
  <2> QED BY <1>0, <2>1, <2>2, <2>3 DEF IdsSuffice
<1>7. ASSUME NEW t \in Topic, UserUnsubscribe(t)
      PROVE  SubsTypeOK' /\ IdsSuffice'
  BY <1>7 DEF UserUnsubscribe, SubsTypeOK, IdsSuffice, Wanted, Reserve, subVars, genVars
<1> QED
  BY <1>1, <1>2, <1>3, <1>4, <1>5, <1>6, <1>7, StepKinds DEF SubsStep

LEMMA TypeStep == TypeInv /\ [Next]_vars => TypeInv'
BY ThreadsStep, FramesStep, ControlStep, SubsStepType DEF TypeInv, TypeOK

LEMMA TypeInvariant == Spec => []TypeInv
BY TypeInit, TypeStep, PTL DEF Spec

\* Every variable has its type in every reachable state; in particular, connect() always
\* has a subscription ID within the bound.
THEOREM TypeCorrect == Spec => []TypeOK
<1>1. TypeInv => TypeOK
  BY DEF TypeInv
<1> QED BY <1>1, TypeInvariant, PTL

--------------------------------------------------------------------------------
(* Subscriptions *)

LEMMA SubscriptionInit == Init => SubscriptionInv
BY DEF Init, SubscriptionInv, IdsKnown, ConnectInv

\* A new ID is larger than all others, and becomes the one of its topic.
LEMMA SubscribeKnown ==
  ASSUME SubsTypeOK, IdsKnown, NEW t \in Topic, Subscribe(t)
  PROVE  IdsKnown'
<1> DEFINE new == [id |-> nextSubId, topic |-> t]
<1>1. /\ nextSubId \in Nat /\ nextSubId' = nextSubId + 1
      /\ subIds' \in [Topic -> Nat] /\ subIds'[t] = nextSubId
      /\ \A u \in Topic \ {t} : subIds'[u] = subIds[u]
      /\ \A u \in Topic : subIds[u] \in Nat
  BY DEF Subscribe, SubsTypeOK
<1>2. subs' \subseteq subs \cup {new} /\ new.id = nextSubId /\ new.topic = t
  BY DEF Subscribe
<1>3. \A s \in subs : s.id \in Nat /\ s.topic \in Topic
  BY DEF SubsTypeOK, Subscription
<1> HIDE DEF new
<1>4. ASSUME NEW s \in subs'
      PROVE  s.id < nextSubId' /\ s.id <= subIds'[s.topic]
  <2>1. CASE s = new
    BY <1>1, <1>2, <2>1
  <2>2. CASE s \in subs
    <3>1. s.id \in Nat /\ s.topic \in Topic /\ s.id < nextSubId /\ s.id <= subIds[s.topic]
      BY <1>3, <2>2 DEF IdsKnown
    <3>2. CASE s.topic = t
      BY <1>1, <3>1, <3>2
    <3>3. CASE s.topic # t
      BY <1>1, <3>1, <3>3
    <3> QED BY <3>2, <3>3
  <2> QED BY <1>2, <2>1, <2>2
<1>5. ASSUME NEW u \in Topic
      PROVE  subIds'[u] < nextSubId'
  <2>1. subIds[u] < nextSubId /\ subIds[u] \in Nat
    BY <1>1 DEF IdsKnown
  <2>2. CASE u = t
    BY <1>1, <2>2
  <2>3. CASE u # t
    BY <1>1, <2>1, <2>3
  <2> QED BY <2>2, <2>3
<1>6. \A r, s \in subs' : r.id = s.id => r = s
  BY <1>1, <1>2, <1>3 DEF IdsKnown
<1> QED BY <1>4, <1>5, <1>6 DEF IdsKnown

\* connect() takes the next topic name.
LEMMA SubscribeNextConnects ==
  ASSUME TypeInv, ConnectInv, SubscribeNext
  PROVE  ConnectInv'
<1> SUFFICES ASSUME pc' = "subscribing" PROVE ConnectInv'
  BY DEF ConnectInv
<1> DEFINE n == Len(todo)
           L == Len(TopicNames)
<1>1. IsConnected /\ link' = link
  BY DEF SubscribeNext, End
<1>2. /\ n \in Nat /\ n > 0 /\ L \in Nat /\ n <= L
      /\ Len(todo') = n - 1 /\ \A j \in 1..(n - 1) : todo'[j] = todo[j + 1]
      /\ Head(todo) = todo[1]
  BY DEF SubscribeNext, ConnectInv, TypeInv, TypeOK, SubsTypeOK
<1>3. \A j \in 1..n : todo[j] = TopicNames[L - n + j]
  BY DEF SubscribeNext, ConnectInv
<1>4. subs' = subs \cup {[id |-> nextSubId, topic |-> TopicNames[L - n + 1]]}
  BY <1>1, <1>2, <1>3 DEF SubscribeNext, Subscribe
<1>5. \A i \in 1..(L - n) : \E s \in subs : s.topic = TopicNames[i]
  BY <1>1 DEF SubscribeNext, ConnectInv
<1>6. \A i \in 1..(L - Len(todo')) : \E s \in subs' : s.topic = TopicNames[i]
  <2> SUFFICES ASSUME NEW i \in 1..(L - Len(todo')) PROVE \E s \in subs' : s.topic = TopicNames[i]
    OBVIOUS
  <2>1. CASE i = L - n + 1
    <3>1. [id |-> nextSubId, topic |-> TopicNames[i]] \in subs'
      BY <1>4, <2>1
    <3> QED BY <3>1
  <2>2. CASE i \in 1..(L - n)
    <3>1. PICK s \in subs : s.topic = TopicNames[i]
      BY <1>5, <2>2
    <3> QED BY <1>4, <3>1
  <2>3. i = L - n + 1 \/ i \in 1..(L - n)
    BY <1>2
  <2> QED BY <2>1, <2>2, <2>3
<1>7. \A j \in 1..Len(todo') : todo'[j] = TopicNames[L - Len(todo') + j]
  <2> SUFFICES ASSUME NEW j \in 1..Len(todo') PROVE todo'[j] = TopicNames[L - Len(todo') + j]
    OBVIOUS
  <2>1. j + 1 \in 1..n /\ L - n + (j + 1) = L - Len(todo') + j /\ todo'[j] = todo[j + 1]
    BY <1>2
  <2>2. todo[j + 1] = TopicNames[L - n + (j + 1)]
    BY <1>3, <2>1
  <2> QED BY <2>1, <2>2
<1>8. Len(todo') <= L
  BY <1>2
<1> QED BY <1>6, <1>7, <1>8 DEF ConnectInv

LEMMA SubscriptionStep ==
  ASSUME TypeInv, SubscriptionInv, [Next]_vars
  PROVE  SubscriptionInv'
<1> USE DEF SubscriptionInv
<1>1. CASE WireGone
  <2>1. subs' = {} /\ subVars' = subVars /\ todo' = todo /\ ~IsConnected'
    BY <1>1 DEF WireGone, GoDown, IsConnected
  <2>2. pc' = pc \/ pc' = "connecting"
    BY <1>1 DEF WireGone
  <2> QED BY <2>1, <2>2 DEF IdsKnown, ConnectInv, subVars
<1>2. CASE ItemGone \/ FrameMoves \/ Quiet
  <2>1. UNCHANGED <<link, subs, subVars, todo>>
    BY <1>2 DEF ItemGone, FrameMoves, Quiet, Send, OnFrame, Put, PutTimesOut, GetItem,
                linkVars, genVars
  <2>2. pc' = "subscribing" => pc = "subscribing"
    BY <1>2 DEF ItemGone, FrameMoves, Quiet, Send, OnFrame, Put, PutTimesOut, GetItem, genVars
  <2> QED BY <2>1, <2>2 DEF IdsKnown, ConnectInv, IsConnected, subVars
<1>3. CASE Connected
  <2>1. UNCHANGED <<subs, subVars>> /\ todo' = TopicNames
    BY <1>3 DEF Connected
  <2>2. Len(TopicNames) \in Nat
    OBVIOUS
  <2> QED BY <2>1, <2>2 DEF IdsKnown, ConnectInv, subVars
<1>4. CASE SubscribeNext
  <2>1. Head(todo) \in Topic /\ Subscribe(Head(todo))
    BY <1>4 DEF SubscribeNext, TypeInv, TypeOK, SubsTypeOK
  <2> QED BY <1>4, <2>1, SubscribeKnown, SubscribeNextConnects DEF TypeInv, TypeOK
<1>5. ASSUME NEW t \in Topic, UserSubscribe(t)
      PROVE  SubscriptionInv'
  <2>1. Subscribe(t) /\ pc' # "subscribing"
    BY <1>5 DEF UserSubscribe, genVars
  <2> QED BY <2>1, SubscribeKnown DEF ConnectInv, TypeInv, TypeOK
<1>6. ASSUME NEW t \in Topic, UserUnsubscribe(t)
      PROVE  SubscriptionInv'
  BY <1>6 DEF UserUnsubscribe, IdsKnown, ConnectInv, subVars, genVars
<1> QED
  BY <1>1, <1>2, <1>3, <1>4, <1>5, <1>6, StepKinds DEF SubsStep

\* With any number of topics and connections, every topic of the constructor is subscribed
\* for when the loop is entered on a working connection, and the recorded subscription ID of
\* a topic is its newest one, which no other subscription has.
THEOREM SubscriptionsAreKept == Spec => []SubscriptionsKept
<1>1. TypeInv /\ SubscriptionInv => SubscriptionsKept
  BY DEF SubscriptionInv, IdsKnown, ConnectInv, SubscriptionsKept, InitialTopicsSubscribed,
         SubscriptionsKnown
<1>2. SubscriptionInv /\ TypeInv /\ [Next]_vars => SubscriptionInv'
  BY SubscriptionStep
<1> QED BY <1>1, <1>2, SubscriptionInit, TypeInvariant, PTL DEF Spec

--------------------------------------------------------------------------------
(* The order of frames *)

LEMMA AppendFrame ==
  ASSUME NEW s \in Seq(Frame), NEW f \in Frame
  PROVE  /\ Frames(Append(s, f)) = Frames(s) \cup {f}
         /\ Sorted(s) /\ Before(Frames(s), {f}) => Sorted(Append(s, f))
<1> DEFINE t == Append(s, f)
<1>1. /\ Len(s) \in Nat /\ Len(t) = Len(s) + 1 /\ t[Len(s) + 1] = f
      /\ \A i \in 1..Len(s) : t[i] = s[i]
  OBVIOUS
<1> HIDE DEF t
<1>2. Frames(t) = Frames(s) \cup {f}
  BY <1>1 DEF Frames
<1>3. ASSUME Sorted(s), Before(Frames(s), {f}), NEW i \in 1..Len(t), NEW j \in 1..Len(t), i < j
      PROVE  Ahead(t[i], t[j])
  <2>1. CASE j = Len(s) + 1
    <3>1. i \in 1..Len(s) /\ t[i] \in Frames(s) /\ t[j] = f
      BY <1>1, <1>3, <2>1 DEF Frames
    <3> QED BY <1>3, <3>1 DEF Before
  <2>2. CASE j # Len(s) + 1
    <3>1. i \in 1..Len(s) /\ j \in 1..Len(s) /\ t[i] = s[i] /\ t[j] = s[j]
      BY <1>1, <1>3, <2>2
    <3> QED BY <1>3, <3>1 DEF Sorted
  <2> QED BY <2>1, <2>2
<1> QED BY <1>2, <1>3 DEF Sorted, t

LEMMA TakeFrame ==
  ASSUME NEW s \in Seq(Frame), s # <<>>
  PROVE  /\ Head(s) \in Frame /\ Frames(s) = Frames(Tail(s)) \cup {Head(s)}
         /\ Sorted(s) => Sorted(Tail(s)) /\ Before({Head(s)}, Frames(Tail(s)))
<1> DEFINE t == Tail(s)
<1>1. /\ Len(s) \in Nat /\ Len(s) > 0 /\ Len(t) = Len(s) - 1 /\ Head(s) = s[1] /\ s[1] \in Frame
      /\ \A i \in 1..Len(t) : t[i] = s[i + 1]
  OBVIOUS
<1> HIDE DEF t
<1>2. \A i \in 1..Len(t) : i + 1 \in 1..Len(s) /\ 1 < i + 1 /\ 1 \in 1..Len(s)
  BY <1>1
<1>3. \A i \in 1..Len(s) : i = 1 \/ (i - 1 \in 1..Len(t) /\ s[i] = t[i - 1])
  BY <1>1
<1>4. Frames(s) = Frames(t) \cup {Head(s)}
  <2>1. Frames(t) \subseteq Frames(s)
    BY <1>1, <1>2 DEF Frames
  <2>2. Head(s) \in Frames(s)
    BY <1>1 DEF Frames
  <2>3. Frames(s) \subseteq Frames(t) \cup {Head(s)}
    <3> SUFFICES ASSUME NEW i \in 1..Len(s) PROVE s[i] \in Frames(t) \cup {Head(s)}
      BY DEF Frames
    <3> QED BY <1>1, <1>3 DEF Frames
  <2> QED BY <2>1, <2>2, <2>3
<1>5. ASSUME Sorted(s)
      PROVE  Sorted(t) /\ Before({Head(s)}, Frames(t))
  <2>1. ASSUME NEW i \in 1..Len(t), NEW j \in 1..Len(t), i < j
        PROVE  Ahead(t[i], t[j])
    <3>1. i + 1 < j + 1 /\ t[i] = s[i + 1] /\ t[j] = s[j + 1]
      BY <1>1, <2>1
    <3> QED BY <1>2, <1>5, <3>1 DEF Sorted
  <2>2. ASSUME NEW i \in 1..Len(t)
        PROVE  Ahead(Head(s), t[i])
    BY <1>1, <1>2, <1>5 DEF Sorted
  <2>3. Sorted(t)
    BY <2>1 DEF Sorted
  <2>4. Before({Head(s)}, Frames(t))
    BY <2>2 DEF Before, Frames
  <2> QED BY <2>3, <2>4
<1> QED BY <1>1, <1>4, <1>5 DEF t

LEMMA NoFrames == Frames(<<>>) = {} /\ Sorted(<<>>)
BY DEF Frames, Sorted

LEMMA OrderInit == Init => OrderInv
BY NoFrames DEF Init, OrderInv, WayInv, PlaceInv, NumbersSent, OnTheWay, Hands, Before

\* The frames on their way are frames.
LEMMA WayType ==
  ASSUME TypeInv
  PROVE  /\ NoFrame \notin Frame /\ OnTheWay \subseteq Frame
         /\ \A f \in OnTheWay : f.n \in Nat /\ f.con \in 1..MaxConnects
         /\ Frames(wire) \subseteq Frame /\ Frames(queue) \subseteq Frame /\ Hands \subseteq Frame
         /\ wire \in Seq(Frame) /\ queue \in Seq(Frame)
         /\ hand \in [1..MaxConnects -> Frame \cup {NoFrame}]
<1>1. NoFrame \notin Frame
  BY DEF Frame
<1>2. Frames(wire) \subseteq Frame
  BY DEF TypeInv, TypeOK, FramesTypeOK, Frames
<1>3. Frames(queue) \subseteq Frame
  BY DEF TypeInv, TypeOK, FramesTypeOK, Frames
<1>4. OnTheWay \subseteq Frame /\ Hands \subseteq Frame
  BY <1>2, <1>3 DEF OnTheWay, Hands, TypeInv, TypeOK, FramesTypeOK
<1>5. \A f \in Frame : f.n \in Nat /\ f.con \in 1..MaxConnects
  BY DEF Frame
<1> QED BY <1>1, <1>2, <1>3, <1>4, <1>5 DEF TypeInv, TypeOK, FramesTypeOK

\* Nothing moves, or what is on the wire or the item goes away.
LEMMA OrderLess ==
  ASSUME OrderInv, UNCHANGED <<hand, queue, sent>>,
         UNCHANGED <<conn, wire>> \/ wire' = <<>>,
         item' \in {item, NoFrame}
  PROVE  OrderInv'
<1>1. Frames(wire)' \subseteq Frames(wire) /\ Sorted(wire)' /\ Frames(queue)' = Frames(queue)
  BY NoFrames DEF OrderInv, WayInv
<1>2. Hands' = Hands
  BY DEF Hands
<1>3. WayInv'
  BY <1>1, <1>2 DEF OrderInv, WayInv, Before
<1>4. PlaceInv'
  BY <1>1, NoFrames DEF OrderInv, PlaceInv
<1>5. OnTheWay' \subseteq OnTheWay
  BY <1>1, <1>2 DEF OnTheWay
<1> QED BY <1>3, <1>4, <1>5 DEF OrderInv, NumbersSent

\* What is on its way has a smaller number than what is sent next.
LEMMA SendLast ==
  ASSUME TypeInv, OrderInv, NEW kind \in {"message", "error"}, Send(kind)
  PROVE  OrderInv' /\ OnTheWay' = OnTheWay \cup {[n |-> sent + 1, con |-> conn, kind |-> kind]}
<1> DEFINE new == [n |-> sent + 1, con |-> conn, kind |-> kind]
<1>1. new \in Frame /\ new.n = sent + 1 /\ new.con = conn /\ sent \in Nat /\ sent' = sent + 1
  BY DEF Send, IsConnected, TypeInv, TypeOK, FramesTypeOK, HistoryTypeOK, ControlOK, Frame
<1>2. UNCHANGED <<conn, hand, queue, item>> /\ wire' = Append(wire, new)
  BY DEF Send, genVars
<1> HIDE DEF new
<1>3. \A f \in OnTheWay : f.n \in Nat /\ f.n < new.n /\ f.n <= sent' /\ Ahead(f, new)
  BY <1>1, WayType DEF OrderInv, NumbersSent, Ahead
<1>4. Before(OnTheWay, {new})
  BY <1>3 DEF Before
<1>5. Frames(wire)' = Frames(wire) \cup {new}
  BY <1>1, <1>2, WayType, AppendFrame
<1>6. Sorted(wire)'
  BY <1>1, <1>2, <1>4, WayType, AppendFrame DEF OrderInv, WayInv, Before, OnTheWay
<1>7. Hands' = Hands /\ OnTheWay' = OnTheWay \cup {new} /\ UNCHANGED Frames(queue)
  BY <1>2, <1>5 DEF OnTheWay, Hands
<1>8. WayInv'
  BY <1>2, <1>4, <1>5, <1>6, <1>7 DEF OrderInv, WayInv, Before, OnTheWay
<1>9. PlaceInv'
  BY <1>1, <1>2, <1>5 DEF OrderInv, PlaceInv
<1>10. NumbersSent'
  BY <1>1, <1>3, <1>7 DEF NumbersSent
<1> QED BY <1>7, <1>8, <1>9, <1>10 DEF OrderInv, new

\* What a change of one hand means.
LEMMA HandChange ==
  ASSUME TypeInv, NEW c \in 1..MaxConnects, NEW f \in Frame \cup {NoFrame},
         hand' = [hand EXCEPT ![c] = f]
  PROVE  /\ hand'[c] = f /\ \A d \in (1..MaxConnects) \ {c} : hand'[d] = hand[d]
         /\ hand[c] = NoFrame => Hands' = Hands \cup ({f} \ {NoFrame})
         /\ f = NoFrame /\ OrderInv => Hands' = Hands \ {hand[c]}
<1>1. hand'[c] = f /\ \A d \in (1..MaxConnects) \ {c} : hand'[d] = hand[d]
  BY WayType
<1>2. ASSUME hand[c] = NoFrame
      PROVE  Hands' = Hands \cup ({f} \ {NoFrame})
  BY <1>1, <1>2 DEF Hands
<1>3. ASSUME f = NoFrame, OrderInv
      PROVE  Hands' = Hands \ {hand[c]}
  <2>1. \A d \in (1..MaxConnects) \ {c} : hand[d] # NoFrame => hand[d] # hand[c]
    BY <1>3, WayType DEF OrderInv, PlaceInv
  <2> QED BY <1>1, <1>3, <2>1 DEF Hands
<1> QED BY <1>1, <1>2, <1>3

\* A frame moves from the wire into a hand.
LEMMA OnFrameKeeps ==
  ASSUME TypeInv, OrderInv, OnFrame
  PROVE  OrderInv' /\ OnTheWay' = OnTheWay
<1> DEFINE f == Head(wire)
<1>1. /\ wire # <<>> /\ wire' = Tail(wire) /\ hand[conn] = NoFrame
      /\ hand' = [hand EXCEPT ![conn] = f] /\ UNCHANGED <<conn, queue, item, sent>>
  BY DEF OnFrame, genVars
<1>2. /\ f \in Frame /\ Frames(wire) = Frames(wire)' \cup {f} /\ Sorted(wire)'
      /\ Before({f}, Frames(wire)')
  BY <1>1, WayType, TakeFrame DEF OrderInv, WayInv
<1> HIDE DEF f
<1>3. f.con = conn /\ conn \in 1..MaxConnects /\ f # NoFrame
  BY <1>2, WayType DEF OrderInv, PlaceInv, OnTheWay
<1>4. /\ Hands' = Hands \cup {f} /\ hand'[conn] = f
      /\ \A d \in (1..MaxConnects) \ {conn} : hand'[d] = hand[d]
  <2>1. /\ hand'[conn] = f /\ \A d \in (1..MaxConnects) \ {conn} : hand'[d] = hand[d]
        /\ Hands' = Hands \cup ({f} \ {NoFrame})
    BY <1>1, <1>2, <1>3, HandChange
  <2> QED BY <1>3, <2>1
<1>5. OnTheWay' = OnTheWay
  BY <1>1, <1>2, <1>4 DEF OnTheWay
<1>6. WayInv'
  BY <1>1, <1>2, <1>4 DEF OrderInv, WayInv, Before
<1>7. PlaceInv'
  BY <1>1, <1>2, <1>3, <1>4 DEF OrderInv, PlaceInv
<1> QED BY <1>1, <1>5, <1>6, <1>7 DEF OrderInv, NumbersSent

\* A frame moves from a hand into the queue.
LEMMA PutKeeps ==
  ASSUME TypeInv, OrderInv, NEW c \in 1..MaxConnects, Put(c)
  PROVE  OrderInv' /\ OnTheWay' = OnTheWay
<1> DEFINE f == hand[c]
<1>1. /\ f # NoFrame /\ queue' = Append(queue, f) /\ hand' = [hand EXCEPT ![c] = NoFrame]
      /\ UNCHANGED <<conn, wire, item, sent>>
  BY DEF Put, linkVars, genVars
<1>2. f \in Frame /\ f \in Hands /\ f.con = c
  BY <1>1, WayType DEF Hands, OrderInv, PlaceInv
<1>3. /\ Hands' = Hands \ {f} /\ hand'[c] = NoFrame
      /\ \A d \in (1..MaxConnects) \ {c} : hand'[d] = hand[d]
  BY <1>1, HandChange
<1> HIDE DEF f
<1>4. Frames(queue)' = Frames(queue) \cup {f} /\ Sorted(queue)'
  BY <1>1, <1>2, WayType, AppendFrame DEF OrderInv, WayInv, Before
<1>5. OnTheWay' = OnTheWay
  BY <1>1, <1>2, <1>3, <1>4 DEF OnTheWay
<1>6. Before({f}, Hands')
  BY <1>2, <1>3 DEF Before, Ahead, Hands, OrderInv, PlaceInv
<1>7. WayInv'
  BY <1>1, <1>2, <1>3, <1>4, <1>6 DEF OrderInv, WayInv, Before
<1>8. PlaceInv'
  BY <1>1, <1>3 DEF OrderInv, PlaceInv
<1> QED BY <1>1, <1>5, <1>7, <1>8 DEF OrderInv, NumbersSent

\* A frame disappears from a hand.
LEMMA TimeOutKeeps ==
  ASSUME TypeInv, OrderInv, NEW c \in 1..MaxConnects, PutTimesOut(c)
  PROVE  OrderInv' /\ OnTheWay' = OnTheWay \ {hand[c]} /\ hand[c] \in OnTheWay /\ hand[c].con = c
<1> DEFINE f == hand[c]
<1>1. /\ f # NoFrame /\ hand' = [hand EXCEPT ![c] = NoFrame]
      /\ UNCHANGED <<conn, wire, queue, item, sent>>
  BY DEF PutTimesOut, linkVars, genVars
<1>2. f \in Frame /\ f \in Hands /\ f.con = c
  BY <1>1, WayType DEF Hands, OrderInv, PlaceInv
<1>3. /\ Hands' = Hands \ {f} /\ hand'[c] = NoFrame
      /\ \A d \in (1..MaxConnects) \ {c} : hand'[d] = hand[d]
  BY <1>1, HandChange
<1> HIDE DEF f
<1>4. f \notin Frames(wire) /\ f \notin Frames(queue) /\ (item # NoFrame => item # f)
  <2>1. f.n \in Nat
    BY <1>2, WayType DEF OnTheWay
  <2>2. ~Ahead(f, f)
    BY <2>1 DEF Ahead
  <2> QED BY <1>2, <2>2 DEF OrderInv, WayInv, Before
<1>5. OnTheWay' = OnTheWay \ {f}
  BY <1>1, <1>3, <1>4 DEF OnTheWay
<1>6. WayInv'
  BY <1>1, <1>3 DEF OrderInv, WayInv, Before
<1>7. PlaceInv'
  BY <1>1, <1>3 DEF OrderInv, PlaceInv
<1> QED BY <1>1, <1>2, <1>5, <1>6, <1>7 DEF OrderInv, NumbersSent, OnTheWay, f

\* The generator takes the first frame of the queue.
LEMMA GetKeeps ==
  ASSUME TypeInv, OrderInv, GetItem
  PROVE  OrderInv' /\ OnTheWay' = OnTheWay
<1>1. /\ queue # <<>> /\ queue' = Tail(queue) /\ item' = Head(queue) /\ item = NoFrame
      /\ UNCHANGED <<conn, wire, hand, sent>>
  BY DEF GetItem, linkVars, TypeInv, ControlOK
<1>2. /\ item' \in Frame /\ Frames(queue) = Frames(queue)' \cup {item'} /\ Sorted(queue)'
      /\ Before({item'}, Frames(queue)') /\ item' # NoFrame
  BY <1>1, WayType, TakeFrame DEF OrderInv, WayInv
<1>3. Hands' = Hands /\ Frames(wire)' = Frames(wire)
  BY <1>1 DEF Hands
<1>4. OnTheWay' = OnTheWay
  BY <1>1, <1>2, <1>3 DEF OnTheWay
<1>5. WayInv'
  BY <1>1, <1>2, <1>3 DEF OrderInv, WayInv, Before
<1>6. PlaceInv'
  BY <1>1, <1>3 DEF OrderInv, PlaceInv
<1> QED BY <1>1, <1>4, <1>5, <1>6 DEF OrderInv, NumbersSent

--------------------------------------------------------------------------------
(* The channel *)

LEMMA OrderStep ==
  ASSUME TypeInv, OrderInv, [Next]_vars
  PROVE  OrderInv'
<1>1. CASE WireGone \/ ItemGone \/ SubsStep \/ Quiet
  <2>1. /\ UNCHANGED <<hand, queue, sent>>
        /\ UNCHANGED <<conn, wire>> \/ wire' = <<>>
        /\ item' \in {item, NoFrame}
    BY <1>1 DEF WireGone, GoDown, ItemGone, SubsStep, Connected, SubscribeNext, UserSubscribe,
                UserUnsubscribe, Quiet, linkVars, genVars
  <2> QED BY <2>1, OrderLess
<1>2. CASE FrameMoves
  BY <1>2, SendLast, OnFrameKeeps, PutKeeps, TimeOutKeeps, GetKeeps DEF FrameMoves
<1> QED BY <1>1, <1>2, StepKinds

LEMMA OrderInvariant == Spec => [](TypeInv /\ OrderInv)
<1>1. OrderInv /\ TypeInv /\ [Next]_vars => OrderInv'
  BY OrderStep
<1> QED BY <1>1, OrderInit, TypeInvariant, PTL DEF Spec

LEMMA SortedOneNumber ==
  ASSUME NEW s \in Seq(Frame), Sorted(s), NEW f \in Frames(s), NEW g \in Frames(s),
         f.con = g.con, f.n = g.n
  PROVE  f = g
<1>1. PICK i \in 1..Len(s) : f = s[i]
  BY DEF Frames
<1>2. PICK j \in 1..Len(s) : g = s[j]
  BY DEF Frames
<1>3. f.n \in Nat /\ g.n \in Nat
  <2>1. s[i] \in Frame /\ s[j] \in Frame
    OBVIOUS
  <2> QED BY <1>1, <1>2, <2>1 DEF Frame
<1>4. ~(i < j) /\ ~(j < i)
  BY <1>1, <1>2, <1>3 DEF Sorted, Ahead
<1> QED BY <1>1, <1>2, <1>4

\* A frame has a number of its own on its connection.
LEMMA OneNumber ==
  ASSUME TypeInv, OrderInv, NEW f \in OnTheWay, NEW g \in OnTheWay, f.con = g.con, f.n = g.n
  PROVE  f = g
<1>1. ~Ahead(f, g) /\ ~Ahead(g, f)
  BY WayType DEF Ahead
<1>2. CASE f \in Frames(wire) /\ g \in Frames(wire)
  BY <1>2, WayType, SortedOneNumber DEF OrderInv, WayInv
<1>3. CASE f \in Frames(queue) /\ g \in Frames(queue)
  BY <1>3, WayType, SortedOneNumber DEF OrderInv, WayInv
<1>4. CASE f \in Hands /\ g \in Hands
  BY <1>4 DEF Hands, OrderInv, PlaceInv
<1>5. CASE /\ f \in Frames(wire) \cup Hands \cup Frames(queue)
           /\ g \in Frames(wire) \cup Hands \cup Frames(queue)
  BY <1>1, <1>2, <1>3, <1>4, <1>5 DEF OrderInv, WayInv, Before
<1>6. CASE f = item \/ g = item
  BY <1>1, <1>6, WayType DEF OrderInv, WayInv, Before, OnTheWay
<1> QED BY <1>5, <1>6 DEF OnTheWay

\* What is taken away from the frames on their way is missing on its connection only.
LEMMA FlightLess ==
  ASSUME TypeInv, OrderInv, NEW c \in 1..MaxConnects, NEW S \in SUBSET OnTheWay,
         \A f \in S : f.con = c, OnTheWay' = OnTheWay \ S
  PROVE  /\ {f.n : f \in S} \subseteq Flight(c)
         /\ Flight(c)' = Flight(c) \ {f.n : f \in S}
         /\ \A d \in (1..MaxConnects) \ {c} : Flight(d)' = Flight(d)
<1>1. {f.n : f \in S} \subseteq Flight(c)
  BY DEF Flight
<1>2. Flight(c)' = Flight(c) \ {f.n : f \in S}
  <2>1. \A f \in OnTheWay \ S, g \in S : f.con = c => f.n # g.n
    BY OneNumber
  <2> QED BY <2>1 DEF Flight
<1>3. \A d \in (1..MaxConnects) \ {c} : Flight(d)' = Flight(d)
  BY DEF Flight
<1> QED BY <1>1, <1>2, <1>3

\* The state of the channel.
LEMMA ChannelVars ==
  Channel!channelVars
    = <<sent, [c \in 1..MaxConnects |-> Flight(c)], [i \in 1..Len(delivered) |-> delivered[i].n],
        reported, missed>>
BY DEF Channel!channelVars

\* Frames are given up on one connection.
LEMMA GiveUpStep ==
  ASSUME TypeInv, OrderInv, NEW c \in 1..MaxConnects, NEW S \in SUBSET OnTheWay,
         \A f \in S : f.con = c, OnTheWay' = OnTheWay \ S,
         missed' = missed \cup {f.n : f \in S}, UNCHANGED <<sent, delivered, reported>>
  PROVE  Channel!Next
<1> DEFINE T == {f.n : f \in S}
<1>1. T \in SUBSET (1..MaxFrames)
  BY WayType DEF Frame
<1>2. T \subseteq Flight(c) /\ Flight(c)' = Flight(c) \ T
  BY FlightLess
<1>3. \A d \in (1..MaxConnects) \ {c} : Flight(d)' = Flight(d)
  BY FlightLess
<1>4. missed' = missed \cup T
  OBVIOUS
<1> HIDE DEF T
<1>5. Channel!GiveUp(c, T)
  BY <1>2, <1>3, <1>4 DEF Channel!GiveUp
<1> QED BY <1>1, <1>5 DEF Channel!Next

\* The generator yields or reports the oldest frame of a connection, or gives it up.
LEMMA ItemStep ==
  ASSUME TypeInv, OrderInv, ItemGone
  PROVE  Channel!Next
<1>0. item \in OnTheWay /\ item # NoFrame /\ item \in Frame
  BY WayType DEF ItemGone, TypeInv, ControlOK, OnTheWay, TypeOK, FramesTypeOK
<1> PICK c \in 1..MaxConnects : c = item.con
  BY <1>0 DEF Frame
<1> PICK n \in 1..MaxFrames : n = item.n
  BY <1>0 DEF Frame
<1>1. item \in OnTheWay /\ item # NoFrame /\ item.con = c /\ item.n = n
  BY <1>0
<1>2. \A f \in OnTheWay : f.n \in Nat /\ (f # item => Ahead(item, f))
  BY <1>1, WayType DEF OrderInv, WayInv, Before, OnTheWay
<1>3. OnTheWay' = OnTheWay \ {item}
  <2>1. item \notin Frames(wire) \cup Hands \cup Frames(queue)
    <3>1. ~Ahead(item, item)
      BY <1>1 DEF Ahead
    <3> QED BY <1>1, <3>1 DEF OrderInv, WayInv, Before
  <2> QED BY <2>1 DEF ItemGone, OnTheWay, Hands, linkVars
<1>4. /\ n \in Flight(c) /\ Flight(c)' = Flight(c) \ {n}
      /\ \A d \in (1..MaxConnects) \ {c} : Flight(d)' = Flight(d)
  <2> PICK S \in SUBSET OnTheWay : S = {item}
    BY <1>0
  <2>1. {f.n : f \in S} = {n} /\ \A f \in S : f.con = c
    BY <1>1
  <2>2. OnTheWay' = OnTheWay \ S
    BY <1>3
  <2>3. /\ {f.n : f \in S} \subseteq Flight(c) /\ Flight(c)' = Flight(c) \ {f.n : f \in S}
        /\ \A d \in (1..MaxConnects) \ {c} : Flight(d)' = Flight(d)
    BY <2>1, <2>2, FlightLess
  <2> QED BY <2>1, <2>3
<1>5. \A m \in Flight(c) : n <= m
  BY <1>1, <1>2 DEF Flight, Ahead
<1>6. UNCHANGED sent
  BY DEF ItemGone
<1>7. Channel!Leave(c, n)
  BY <1>4, <1>5 DEF Channel!Leave
<1>8. CASE delivered' = Append(delivered, item) /\ UNCHANGED <<reported, missed>>
  <2>1. [i \in 1..Len(delivered') |-> delivered'[i].n]
          = Append([i \in 1..Len(delivered) |-> delivered[i].n], n)
    BY <1>0, <1>1, <1>8 DEF TypeInv, TypeOK, HistoryTypeOK
  <2>2. Channel!Yield(c, n)
    BY <1>6, <1>7, <1>8, <2>1 DEF Channel!Yield
  <2> QED BY <1>1, <2>2 DEF Channel!Next
<1>9. CASE reported' = reported \cup {item.n} /\ UNCHANGED <<delivered, missed>>
  <2>1. Channel!Raise(c, n)
    BY <1>1, <1>6, <1>7, <1>9 DEF Channel!Raise
  <2> QED BY <1>1, <2>1 DEF Channel!Next
<1>10. CASE missed' = missed \cup {item.n} /\ UNCHANGED <<delivered, reported>>
  <2>1. /\ {f.n : f \in {item}} = {item.n} /\ {item} \in SUBSET OnTheWay
        /\ \A f \in {item} : f.con = c
    BY <1>1
  <2> QED BY <1>1, <1>3, <1>6, <1>10, <2>1, GiveUpStep
<1> QED BY <1>8, <1>9, <1>10 DEF ItemGone

\* A step maps to a step of the channel or a stutter.
LEMMA StepChannel ==
  ASSUME TypeInv, OrderInv, [Next]_vars
  PROVE  [Channel!Next]_(Channel!channelVars)
<1>1. CASE UNCHANGED <<OnTheWay, sent, history>>
  <2>1. \A c \in 1..MaxConnects : Flight(c)' = Flight(c)
    BY <1>1 DEF Flight
  <2> QED BY <1>1, <2>1, ChannelVars DEF history, Channel!channelVars
<1>2. CASE WireGone
  <2>1. CASE wire = <<>>
    <3>1. UNCHANGED <<OnTheWay, sent, history>>
      BY <1>2, <2>1, NoFrames DEF WireGone, GoDown, OnTheWay, Hands, Numbers, history
    <3> QED BY <1>1, <3>1
  <2>2. CASE wire # <<>>
    <3>0. Head(wire) \in Frames(wire)
      BY <2>2, WayType, TakeFrame
    <3>1. conn \in 1..MaxConnects
      BY <3>0, WayType DEF OrderInv, PlaceInv, OnTheWay
    <3>2. \A f \in Frames(wire) : f \notin Frames(queue) \cup Hands /\ (item # NoFrame => item # f)
      BY WayType DEF OrderInv, WayInv, Before, Ahead, OnTheWay
    <3>3. OnTheWay' = OnTheWay \ Frames(wire) /\ Frames(wire) \in SUBSET OnTheWay
      BY <1>2, <3>2, NoFrames DEF WireGone, GoDown, OnTheWay, Hands
    <3> QED BY <1>2, <3>1, <3>3, GiveUpStep DEF WireGone, GoDown, Numbers, OrderInv, PlaceInv
  <2> QED BY <2>1, <2>2
<1>3. CASE ItemGone
  BY <1>3, ItemStep
<1>4. ASSUME NEW kind \in {"message", "error"}, Send(kind)
      PROVE  Channel!Next
  <2>1. PICK c \in 1..MaxConnects : c = conn
    BY <1>4 DEF Send, IsConnected, TypeInv, TypeOK, FramesTypeOK, ControlOK
  <2> DEFINE new == [n |-> sent + 1, con |-> conn, kind |-> kind]
  <2>2. OnTheWay' = OnTheWay \cup {new} /\ new.n = sent + 1 /\ new.con = c
    BY <1>4, <2>1, SendLast
  <2> HIDE DEF new
  <2>3. /\ Flight(c)' = Flight(c) \cup {sent + 1}
        /\ \A d \in (1..MaxConnects) \ {c} : Flight(d)' = Flight(d)
    BY <2>2 DEF Flight
  <2>4. Channel!Send(c)
    BY <1>4, <2>3 DEF Send, Channel!Send, history
  <2> QED BY <2>4 DEF Channel!Next
<1>5. CASE OnFrame \/ GetItem \/ \E c \in 1..MaxConnects : Put(c)
  <2>1. OnTheWay' = OnTheWay
    BY <1>5, OnFrameKeeps, GetKeeps, PutKeeps
  <2>2. UNCHANGED <<sent, history>>
    BY <1>5 DEF OnFrame, GetItem, Put
  <2> QED BY <1>1, <2>1, <2>2
<1>6. ASSUME NEW c \in 1..MaxConnects, PutTimesOut(c)
      PROVE  Channel!Next
  <2>1. {hand[c]} \in SUBSET OnTheWay /\ OnTheWay' = OnTheWay \ {hand[c]} /\ hand[c].con = c
    BY <1>6, TimeOutKeeps
  <2>2. {f.n : f \in {hand[c]}} = {hand[c].n}
    OBVIOUS
  <2> QED BY <1>6, <2>1, <2>2, GiveUpStep DEF PutTimesOut
<1>7. CASE SubsStep \/ Quiet
  <2>1. UNCHANGED <<wire, hand, queue, item, sent, history>>
    BY <1>7 DEF SubsStep, Connected, SubscribeNext, UserSubscribe, UserUnsubscribe, Quiet,
                linkVars, genVars
  <2> QED BY <1>1, <2>1 DEF OnTheWay, Hands
<1> QED BY <1>2, <1>3, <1>4, <1>5, <1>6, <1>7, StepKinds DEF FrameMoves

\* For any number of connections and frames and any queue, the receiver with its threads
\* implements the channel: no frame is lost unnoticed, comes twice or overtakes another one
\* of its connection.
THEOREM ChannelCorrect == Spec => ImplementsChannel
<1>1. Init => Channel!Init
  <2>1. Init => OnTheWay = {}
    BY NoFrames DEF Init, OnTheWay, Hands
  <2>2. Init => \A c \in 1..MaxConnects : Flight(c) = {}
    BY <2>1 DEF Flight
  <2> QED BY <2>2 DEF Init, Channel!Init
<1>2. TypeInv /\ OrderInv /\ [Next]_vars => [Channel!Next]_(Channel!channelVars)
  BY StepChannel
<1> QED BY <1>1, <1>2, OrderInvariant, PTL DEF Spec, ImplementsChannel, Channel!ChannelSpec

================================================================================
