------------------------- MODULE NotificationReceiver -------------------------
(***************************************************************************)
(* One NotificationReceiver object (zhmcclient/_notification.py).          *)
(*                                                                         *)
(* Four parties run concurrently: the HMC's message broker, which sends    *)
(* STOMP frames; the listener thread of each STOMP connection, which moves *)
(* frames into a bounded hand-over queue (_NotificationListener); the      *)
(* receiver thread, which runs the generator notifications() and the       *)
(* caller's code between two items, subscribe() and unsubscribe()          *)
(* included; and another thread, which calls close() or sets the stop      *)
(* event.                                                                  *)
(*                                                                         *)
(* A connection is numbered; every frame has a number and remembers its    *)
(* connection.  The hand-over queue is shared by all connections of the    *)
(* receiver, and the listener thread of a connection that was replaced may *)
(* still be waiting in put().                                              *)
(***************************************************************************)
EXTENDS Naturals, Sequences

CONSTANTS
    Topic,        \* the notification topics
    TopicNames,   \* the topics given to the constructor (_topic_names)
    QueueSize,    \* the capacity of the hand-over queue (1000 in the code)
    MaxConnects,  \* bound: connections made
    MaxSubIds,    \* bound: subscription IDs allocated
    MaxFrames,    \* bound: frames sent by the HMC
    NoFrame       \* no frame

ASSUME ReceiverAssumption ==
    /\ TopicNames \in Seq(Topic)
    /\ QueueSize \in Nat \ {0}
    /\ {MaxConnects, MaxSubIds, MaxFrames} \subseteq Nat
    /\ MaxConnects * Len(TopicNames) <= MaxSubIds
    /\ NoFrame \notin [n : 1..MaxFrames, con : 1..MaxConnects, kind : {"message", "error"}]

VARIABLES
    conn,       \* _conn: the number of the STOMP connection, 0 is None
    link,       \* its state; "up" is what _conn.is_connected() returns
    subs,       \* broker: the subscriptions of that connection
    wire,       \* frames sent on that connection and not received yet
    hand,       \* the frame that each connection's listener is putting
    queue,      \* _handover_queue
    subIds,     \* _sub_ids, 0 where the topic has no entry
    nextSubId,  \* _next_sub_id
    closed,     \* _closed
    closer,     \* how far a call of close() is
    stop,       \* the stop event is set
    pc,         \* where notifications() is; "out" when it is not running
    todo,       \* the topic names connect() has not subscribed for yet
    item,       \* the item just taken from the queue
    result,     \* how the last notifications() call ended
    sent,       \* the number of frames sent
    delivered,  \* history: the frames yielded
    reported,   \* history: the numbers of frames that raised an exception
    missed      \* history: the numbers of frames that nobody will see

linkVars == <<conn, link, subs, wire>>
subVars  == <<subIds, nextSubId>>
endVars  == <<closed, closer, stop>>
genVars  == <<pc, todo, item, result>>
history  == <<delivered, reported, missed>>
vars     == <<linkVars, hand, queue, subVars, endVars, genVars, sent, history>>

Frame        == [n : 1..MaxFrames, con : 1..MaxConnects,
                 kind : {"message", "error"}]
Subscription == [id : 1..MaxSubIds, topic : Topic]
Frames(s)    == {s[i] : i \in 1..Len(s)}
Numbers(s)   == {f.n : f \in Frames(s)}
IsConnected  == link = "up"

FramesTypeOK ==
    /\ conn \in 0..MaxConnects
    /\ link \in {"down", "up", "lost", "closed"}
    /\ wire \in Seq(Frame)
    /\ hand \in [1..MaxConnects -> Frame \cup {NoFrame}]
    /\ queue \in Seq(Frame) /\ Len(queue) <= QueueSize
    /\ item \in Frame \cup {NoFrame}

SubsTypeOK ==
    /\ subs \subseteq Subscription
    /\ subIds \in [Topic -> 0..MaxSubIds]
    /\ nextSubId \in 1..(MaxSubIds + 1)
    /\ todo \in Seq(Topic)

ThreadsTypeOK ==
    /\ closed \in BOOLEAN /\ stop \in BOOLEAN
    /\ closer \in {"idle", "flagged", "done", "failed"}
    /\ pc \in {"out", "connecting", "subscribing", "top", "get", "empty", "got", "yield"}
    /\ result \in {"none", "returned", "left", "connError", "subError",
                   "parseError", "jmsError"}

HistoryTypeOK ==
    /\ sent \in 0..MaxFrames
    /\ delivered \in Seq(Frame)
    /\ reported \subseteq 1..MaxFrames
    /\ missed \subseteq 1..MaxFrames

TypeOK == FramesTypeOK /\ SubsTypeOK /\ ThreadsTypeOK /\ HistoryTypeOK

Init ==
    /\ conn = 0
    /\ link = "down"
    /\ subs = {}
    /\ wire = <<>>
    /\ hand = [c \in 1..MaxConnects |-> NoFrame]
    /\ queue = <<>>
    /\ subIds = [t \in Topic |-> 0]
    /\ nextSubId = 1
    /\ closed = FALSE
    /\ closer = "idle"
    /\ stop = FALSE
    /\ pc = "out"
    /\ todo = <<>>
    /\ item = NoFrame
    /\ result = "none"
    /\ sent = 0
    /\ delivered = <<>>
    /\ reported = {}
    /\ missed = {}

--------------------------------------------------------------------------------
(* The HMC and the network *)

Send(kind) ==
    /\ IsConnected
    /\ sent < MaxFrames
    /\ sent' = sent + 1
    /\ wire' = Append(wire, [n |-> sent + 1, con |-> conn, kind |-> kind])
    /\ UNCHANGED <<conn, link, subs, hand, queue, subVars, endVars, genVars, history>>

\* A message is published for a topic that is subscribed for.
Publish == subs # {} /\ Send("message")

\* The broker reports an error, e.g. a subscription for an unknown topic.
SendError == Send("error")

\* The connection goes down, and with it the broker's subscriptions and what
\* was not received yet.
GoDown(state) ==
    /\ link' = state
    /\ subs' = {}
    /\ wire' = <<>>
    /\ missed' = missed \cup Numbers(wire)

Lose ==
    /\ IsConnected
    /\ GoDown("lost")
    /\ UNCHANGED <<conn, hand, queue, subVars, endVars, genVars, sent, delivered, reported>>

--------------------------------------------------------------------------------
(* The listener threads *)

\* on_message() or on_error() is called with the next frame.
OnFrame ==
    /\ wire # <<>>
    /\ hand[conn] = NoFrame
    /\ hand' = [hand EXCEPT ![conn] = Head(wire)]
    /\ wire' = Tail(wire)
    /\ UNCHANGED <<conn, link, subs, queue, subVars, endVars, genVars, sent, history>>

\* Faulty variant of Put: the hand-over queue is a stack.
PutOnTop(c) ==
    /\ hand[c] # NoFrame
    /\ Len(queue) < QueueSize
    /\ queue' = <<hand[c]>> \o queue
    /\ hand' = [hand EXCEPT ![c] = NoFrame]
    /\ UNCHANGED <<linkVars, subVars, endVars, genVars, sent, history>>

\* Faulty variant of Put: the queue has no limit.
PutUnbounded(c) ==
    /\ hand[c] # NoFrame
    /\ queue' = Append(queue, hand[c])
    /\ hand' = [hand EXCEPT ![c] = NoFrame]
    /\ UNCHANGED <<linkVars, subVars, endVars, genVars, sent, history>>

Put(c) ==
    /\ hand[c] # NoFrame
    /\ Len(queue) < QueueSize
    /\ queue' = Append(queue, hand[c])
    /\ hand' = [hand EXCEPT ![c] = NoFrame]
    /\ UNCHANGED <<linkVars, subVars, endVars, genVars, sent, history>>

\* The queue stays full for 5 seconds: the frame is dropped.
PutTimesOut(c) ==
    /\ hand[c] # NoFrame
    /\ Len(queue) = QueueSize
    /\ missed' = missed \cup {hand[c].n}
    /\ hand' = [hand EXCEPT ![c] = NoFrame]
    /\ UNCHANGED <<linkVars, queue, subVars, endVars, genVars, sent, delivered, reported>>

--------------------------------------------------------------------------------
(* connect(), called by notifications() *)

\* The caller starts to iterate over notifications(): a previous connection is
\* disconnected and a new, unconnected one takes its place.
Connect ==
    /\ pc = "out"
    /\ conn < MaxConnects
    /\ conn' = conn + 1
    /\ GoDown("down")
    /\ pc' = "connecting"
    /\ result' = "none"
    /\ UNCHANGED <<hand, queue, subVars, endVars, todo, item, sent, delivered, reported>>

End(how) ==
    /\ pc' = "out"
    /\ result' = how

ConnectFails ==
    /\ pc = "connecting"
    /\ End("connError")
    /\ UNCHANGED <<linkVars, hand, queue, subVars, endVars, todo, item, sent, history>>

\* Faulty variant of Connected: a reconnect trusts _sub_ids and subscribes only
\* for the topics that have no entry there.
ConnectedSubscribesNew ==
    /\ pc = "connecting"
    /\ link' = "up"
    /\ todo' = SelectSeq(TopicNames, LAMBDA t : subIds[t] = 0)
    /\ pc' = "subscribing"
    /\ UNCHANGED <<conn, subs, wire, hand, queue, subVars, endVars, item, result, sent, history>>

Connected ==
    /\ pc = "connecting"
    /\ link' = "up"
    /\ todo' = TopicNames
    /\ pc' = "subscribing"
    /\ UNCHANGED <<conn, subs, wire, hand, queue, subVars, endVars, item, result, sent, history>>

\* subscribe(): the ID is recorded before the request is sent.
Subscribe(t) ==
    /\ subIds' = [subIds EXCEPT ![t] = nextSubId]
    /\ nextSubId' = nextSubId + 1
    /\ subs' = IF IsConnected THEN subs \cup {[id |-> nextSubId, topic |-> t]} ELSE subs

SubscribeNext ==
    /\ pc = "subscribing"
    /\ todo # <<>>
    /\ Subscribe(Head(todo))
    /\ todo' = Tail(todo)
    /\ IF IsConnected THEN UNCHANGED <<pc, result>> ELSE End("subError")
    /\ UNCHANGED <<conn, link, wire, hand, queue, endVars, item, sent, history>>

AllSubscribed ==
    /\ pc = "subscribing"
    /\ todo = <<>>
    /\ pc' = "top"
    /\ UNCHANGED <<linkVars, hand, queue, subVars, endVars, todo, item, result, sent, history>>

--------------------------------------------------------------------------------
(* The loop of notifications() *)

\* Faulty variant of LoopTop: the flag is not tested; close() is expected to
\* show as a lost connection.
LoopTopIgnoresClosed ==
    /\ pc = "top"
    /\ pc' = "get" /\ UNCHANGED result
    /\ UNCHANGED <<linkVars, hand, queue, subVars, endVars, todo, item, sent, history>>

LoopTop ==
    /\ pc = "top"
    /\ \/ closed /\ End("returned")
       \/ ~closed /\ pc' = "get" /\ UNCHANGED result
    /\ UNCHANGED <<linkVars, hand, queue, subVars, endVars, todo, item, sent, history>>

\* Faulty variant of GetItem: the last item stays in the queue.
GetItemKeepsLast ==
    /\ pc = "get"
    /\ Len(queue) > 1
    /\ item' = Head(queue)
    /\ queue' = Tail(queue)
    /\ pc' = "got"
    /\ UNCHANGED <<linkVars, hand, subVars, endVars, todo, result, sent, history>>

GetItem ==
    /\ pc = "get"
    /\ queue # <<>>
    /\ item' = Head(queue)
    /\ queue' = Tail(queue)
    /\ pc' = "got"
    /\ UNCHANGED <<linkVars, hand, subVars, endVars, todo, result, sent, history>>

GetEmpty ==
    /\ pc = "get"
    /\ queue = <<>>
    /\ pc' = "empty"
    /\ UNCHANGED <<linkVars, hand, queue, subVars, endVars, todo, item, result, sent, history>>

\* After an empty get: stop event, connection loss, or another round.
EmptyStop ==
    /\ pc = "empty"
    /\ stop
    /\ End("returned")
    /\ UNCHANGED <<linkVars, hand, queue, subVars, endVars, todo, item, sent, history>>

EmptyLost ==
    /\ pc = "empty"
    /\ ~stop /\ ~IsConnected
    /\ End("connError")
    /\ UNCHANGED <<linkVars, hand, queue, subVars, endVars, todo, item, sent, history>>

EmptyContinue ==
    /\ pc = "empty"
    /\ ~stop /\ IsConnected
    /\ pc' = "top"
    /\ UNCHANGED <<linkVars, hand, queue, subVars, endVars, todo, item, result, sent, history>>

\* With an item in hand: a set stop event discards it.
GotStop ==
    /\ pc = "got"
    /\ stop
    /\ End("returned")
    /\ missed' = missed \cup {item.n}
    /\ item' = NoFrame
    /\ UNCHANGED <<linkVars, hand, queue, subVars, endVars, todo, sent, delivered, reported>>

\* The body is valid JSON, or empty.
GotMessage ==
    /\ pc = "got"
    /\ ~stop /\ item.kind = "message"
    /\ pc' = "yield"
    /\ delivered' = Append(delivered, item)
    /\ item' = NoFrame
    /\ UNCHANGED <<linkVars, hand, queue, subVars, endVars, todo, result, sent, reported, missed>>

GotUnparsable ==
    /\ pc = "got"
    /\ ~stop /\ item.kind = "message"
    /\ End("parseError")
    /\ reported' = reported \cup {item.n}
    /\ item' = NoFrame
    /\ UNCHANGED <<linkVars, hand, queue, subVars, endVars, todo, sent, delivered, missed>>

GotError ==
    /\ pc = "got"
    /\ ~stop /\ item.kind = "error"
    /\ End("jmsError")
    /\ reported' = reported \cup {item.n}
    /\ item' = NoFrame
    /\ UNCHANGED <<linkVars, hand, queue, subVars, endVars, todo, sent, delivered, missed>>

--------------------------------------------------------------------------------
(* The caller's code, between two items or outside of notifications() *)

ConsumerNext ==
    /\ pc = "yield"
    /\ pc' = "top"
    /\ UNCHANGED <<linkVars, hand, queue, subVars, endVars, todo, item, result, sent, history>>

ConsumerLeaves ==
    /\ pc = "yield"
    /\ End("left")
    /\ UNCHANGED <<linkVars, hand, queue, subVars, endVars, todo, item, sent, history>>

\* Without a connection, the exception comes after the ID was recorded.  The
\* bound leaves connect() the IDs it needs.
UserSubscribe(t) ==
    /\ pc \in {"out", "yield"}
    /\ nextSubId + (MaxConnects - conn) * Len(TopicNames) <= MaxSubIds
    /\ Subscribe(t)
    /\ UNCHANGED <<conn, link, wire, hand, queue, endVars, genVars, sent, history>>

\* unsubscribe() raises without an entry or without a connection, and otherwise
\* ends the newest subscription for the topic; the entry stays.
UserUnsubscribe(t) ==
    /\ pc \in {"out", "yield"}
    /\ subIds[t] # 0
    /\ IsConnected
    /\ subs' = {s \in subs : s.id # subIds[t]}
    /\ UNCHANGED <<conn, link, wire, hand, queue, subVars, endVars, genVars, sent, history>>

--------------------------------------------------------------------------------
(* Another thread *)

CloseFlag ==
    /\ closer = "idle"
    /\ closed' = TRUE
    /\ closer' = "flagged"
    /\ UNCHANGED <<linkVars, hand, queue, subVars, stop, genVars, sent, history>>

\* _conn.disconnect(): an AttributeError before the first connect(), and without
\* effect on a connection that is not up.
CloseDisconnect ==
    /\ closer = "flagged"
    /\ closer' = IF conn = 0 THEN "failed" ELSE "done"
    /\ IF IsConnected THEN GoDown("closed") ELSE UNCHANGED <<link, subs, wire, missed>>
    /\ UNCHANGED <<conn, hand, queue, subVars, closed, stop, genVars, sent, delivered, reported>>

SetStop ==
    /\ ~stop
    /\ stop' = TRUE
    /\ UNCHANGED <<linkVars, hand, queue, subVars, closed, closer, genVars, sent, history>>

--------------------------------------------------------------------------------
Listener == OnFrame \/ \E c \in 1..MaxConnects : Put(c) \/ PutTimesOut(c)

Generator ==
    \/ ConnectFails
    \/ Connected
    \/ SubscribeNext
    \/ AllSubscribed
    \/ LoopTop
    \/ GetItem
    \/ GetEmpty
    \/ EmptyStop
    \/ EmptyLost
    \/ EmptyContinue
    \/ GotStop
    \/ GotMessage
    \/ GotUnparsable
    \/ GotError

Consumer == ConsumerNext \/ ConsumerLeaves

Next ==
    \/ Publish
    \/ SendError
    \/ Lose
    \/ OnFrame
    \/ \E c \in 1..MaxConnects : Put(c) \/ PutTimesOut(c)
    \/ Connect
    \/ Generator
    \/ Consumer
    \/ \E t \in Topic : UserSubscribe(t) \/ UserUnsubscribe(t)
    \/ CloseFlag
    \/ CloseDisconnect
    \/ SetStop

Spec == Init /\ [][Next]_vars

\* The threads of the receiver and of the STOMP library run, a call of close()
\* completes, and the body of the caller's loop ends.  The HMC need not send,
\* and the caller need not start over.
FairSpec ==
    /\ Spec
    /\ WF_vars(OnFrame)
    /\ \A c \in 1..MaxConnects : WF_vars(Put(c) \/ PutTimesOut(c))
    /\ WF_vars(Generator)
    /\ WF_vars(Consumer)
    /\ WF_vars(CloseDisconnect)

--------------------------------------------------------------------------------
(* Properties *)

\* When notifications() enters its loop on a working connection, the broker
\* holds a subscription of THIS connection for every topic of the constructor,
\* also after a reconnect and after an unsubscribe() on an earlier connection.
InitialTopicsSubscribed ==
    pc = "subscribing" /\ todo = <<>> /\ IsConnected =>
        \A i \in 1..Len(TopicNames) : \E s \in subs : s.topic = TopicNames[i]

\* is_subscribed() never denies a topic for which the broker still sends, and
\* subscription IDs are not reused: the recorded one is the newest.
SubscriptionsKnown ==
    \A s \in subs :
        /\ s.id <= subIds[s.topic]
        /\ \A r \in subs : r.id = s.id => r = s

\* Once close() is done, notifications() comes to an end, whichever of the
\* steps of connect() or of its loop close() met.
CloseEnds == closer = "done" ~> pc = "out"

\* A lost connection ends a waiting notifications(), once what is in the queue
\* has been handled.
LossNoticed == pc = "get" /\ link = "lost" ~> pc = "out"

\* While notifications() runs, every frame the HMC sent is eventually yielded,
\* raised, or given up.
FramesHandled ==
    \A n \in 1..MaxFrames :
        sent >= n ~> n \in Numbers(delivered) \cup reported \cup missed \/ pc = "out"

\* What the user of the receiver relies on: the topics of the constructor, and the answer
\* of is_subscribed().
SubscriptionsKept == InitialTopicsSubscribed /\ SubscriptionsKnown

\* notifications() ends when it must: after close(), and after the loss of its connection.
EndsWhenItMust == CloseEnds /\ LossNoticed

\* The frames that listeners hold, and all frames on their way: on the wire, in a hand, in
\* the queue, or with the generator.
Hands    == {hand[c] : c \in 1..MaxConnects} \ {NoFrame}
OnTheWay == Frames(wire) \cup Hands \cup Frames(queue) \cup ({item} \ {NoFrame})

\* The frames of a connection that are on their way, by their numbers.
Flight(c) == {f.n : f \in {g \in OnTheWay : g.con = c}}

\* The receiver implements a channel for each connection.
Channel == INSTANCE NotificationChannel WITH
    Connection <- 1..MaxConnects,
    flight     <- [c \in 1..MaxConnects |-> Flight(c)],
    received   <- [i \in 1..Len(delivered) |-> delivered[i].n],
    lost       <- missed

\* No interleaving of listeners, reconnects, stop and close loses a frame that was not given
\* up, yields one twice, or changes the order of the frames of a connection.
ImplementsChannel == Channel!ChannelSpec
================================================================================
