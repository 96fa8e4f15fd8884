-------------------------- MODULE NotificationChannel --------------------------
(***************************************************************************)
(* What a notification receiver promises to the code that iterates over    *)
(* notifications(), without its threads and queues: the frames of each     *)
(* connection come in the order in which they were sent, each of them at   *)
(* most once, as an item or as an exception, and a frame that does not     *)
(* come is one that was given up.  NotificationReceiver implements it.     *)
(*                                                                         *)
(* Frames are numbered in the order in which they are sent.                *)
(***************************************************************************)
EXTENDS Naturals, Sequences

CONSTANTS
    Connection,  \* the connections, one after the other
    MaxFrames    \* bound: frames sent

VARIABLES
    sent,      \* the number of frames sent on all connections
    flight,    \* the frames of each connection that are on their way
    received,  \* the frames that were yielded, in that order
    reported,  \* the frames that raised an exception
    lost       \* the frames given up

channelVars == <<sent, flight, received, reported, lost>>

Init ==
    /\ sent = 0
    /\ flight = [c \in Connection |-> {}]
    /\ received = <<>>
    /\ reported = {} /\ lost = {}

Send(c) ==
    /\ sent < MaxFrames
    /\ sent' = sent + 1
    /\ flight' = [flight EXCEPT ![c] = @ \cup {sent + 1}]
    /\ UNCHANGED <<received, reported, lost>>

\* The oldest frame of a connection comes out.
Leave(c, n) ==
    /\ n \in flight[c]
    /\ \A m \in flight[c] : n <= m
    /\ flight' = [flight EXCEPT ![c] = @ \ {n}]

Yield(c, n) ==
    /\ Leave(c, n)
    /\ received' = Append(received, n)
    /\ UNCHANGED <<sent, reported, lost>>

Raise(c, n) ==
    /\ Leave(c, n)
    /\ reported' = reported \cup {n}
    /\ UNCHANGED <<sent, received, lost>>

\* A lost connection, a full queue, a stop: any of the frames on their way are given up.
GiveUp(c, S) ==
    /\ S \subseteq flight[c]
    /\ flight' = [flight EXCEPT ![c] = @ \ S]
    /\ lost' = lost \cup S
    /\ UNCHANGED <<sent, received, reported>>

Next ==
    \E c \in Connection :
        \/ Send(c)
        \/ \E n \in 1..MaxFrames : Yield(c, n) \/ Raise(c, n)
        \/ \E S \in SUBSET (1..MaxFrames) : GiveUp(c, S)

ChannelSpec == Init /\ [][Next]_channelVars
================================================================================
