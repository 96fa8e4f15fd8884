-------------------------- MODULE AutoUpdatedResource --------------------------
(***************************************************************************)
(* The properties of ONE resource object (zhmcclient/_resource.py,         *)
(* BaseResource), pulled and updated by a user thread and updated by the   *)
(* listener thread of the AutoUpdater (zhmcclient/_auto_updater.py) from   *)
(* property-change, status-change and inventory-change notifications.      *)
(*                                                                         *)
(* The object's lock protects each read and each write of the local        *)
(* properties, but is not held while a request is under way: an operation  *)
(* is a request, an answer that takes effect at the HMC, and a merge, and  *)
(* the listener runs between them.                                         *)
(*                                                                         *)
(* A property value stands for its version: the HMC's value of a property  *)
(* grows by one with each change, by this user or by another client, so    *)
(* "newer" is >.  NoValue is a property that is absent.                    *)
(***************************************************************************)
EXTENDS Integers, Sequences, FiniteSets

CONSTANTS
    Prop,         \* the property names of the resource
    Listed,       \* those a list() result has, and so a new object
    Writable,     \* those that update_properties() may change
    MaxVersion,   \* bound: no property changes more often than this
    Names,        \* the name lists the user pulls with pull_properties()
    Query         \* how the 'properties' query parameter of a GET may work

ASSUME ResourceAssumption ==
    /\ IsFiniteSet(Prop)
    /\ Listed \subseteq Prop
    /\ Writable \subseteq Prop
    /\ MaxVersion \in Nat
    /\ Names \subseteq SUBSET Prop
    /\ Query \subseteq {"supported", "ignored", "rejected", "not_used"}

VARIABLES
    exists,      \* HMC: the resource exists
    hmc,         \* HMC: the value of each property
    query,       \* HMC: how it treats that parameter; "not_used" when the
                 \* manager's supports_properties is false
    chan,        \* notifications about the resource, not handled yet
    subscribed,  \* the session is subscribed to its object topic
    local,       \* _properties
    full,        \* _full_properties
    ceased,      \* _ceased_existence
    auto,        \* _auto_update; the object is registered while it is set
    pc,          \* where the user thread is in its operation
    names,       \* the properties it asked for, or is updating
    reply,       \* the values in the HMC's answer
    synced       \* history: properties whose last local write was in order

hmcVars  == <<exists, hmc, query, chan, subscribed>>
objVars  == <<local, full, ceased, auto>>
callVars == <<pc, names, reply>>
vars     == <<hmcVars, objVars, callVars, synced>>

NoValue == -1
Version == 0..MaxVersion
Nothing == [p \in Prop |-> NoValue]

Change(p, v) == [type |-> "change", prop |-> p, value |-> v]
Removed      == [type |-> "remove"]
Changes      == [type : {"change"}, prop : Prop, value : Version]
Notification == Changes \cup {Removed}

Has(s, n)  == \E i \in 1..Len(s) : s[i] = n
Pending(n) == Has(chan, n)

TypeOK ==
    /\ exists \in BOOLEAN
    /\ hmc \in [Prop -> Version]
    /\ query \in Query
    /\ chan \in Seq(Notification)
    /\ subscribed \in BOOLEAN
    /\ local \in [Prop -> Version \cup {NoValue}]
    /\ full \in BOOLEAN
    /\ ceased \in BOOLEAN
    /\ auto \in BOOLEAN
    /\ pc \in {"idle", "query", "full", "retry", "post", "delete",
              "got", "gotFull", "posted", "deleted"}
    /\ names \subseteq Prop
    /\ reply \in [Prop -> Version \cup {NoValue}]
    /\ synced \subseteq Prop

\* The object was created from a list() result.
Init ==
    /\ exists = TRUE
    /\ hmc = [p \in Prop |-> 0]
    /\ query \in Query
    /\ chan = <<>>
    /\ subscribed \in BOOLEAN
    /\ local = [p \in Prop |-> IF p \in Listed THEN 0 ELSE NoValue]
    /\ full = FALSE
    /\ ceased = FALSE
    /\ auto = FALSE
    /\ pc = "idle"
    /\ names = {}
    /\ reply = Nothing
    /\ synced = {}

--------------------------------------------------------------------------------
(* The HMC *)

Announce(n) == chan' = IF subscribed THEN Append(chan, n) ELSE chan

\* Property p changes its value.
Advance(p) ==
    /\ exists
    /\ hmc[p] < MaxVersion
    /\ hmc' = [hmc EXCEPT ![p] = @ + 1]
    /\ Announce(Change(p, hmc[p] + 1))
    /\ UNCHANGED <<exists, query, subscribed>>

\* The resource goes away.
Vanish ==
    /\ exists
    /\ exists' = FALSE
    /\ Announce(Removed)
    /\ UNCHANGED <<hmc, query, subscribed>>

\* Another client of the HMC, or the machine itself, changes or deletes it.
ChangedElsewhere ==
    /\ Vanish \/ \E p \in Prop : Advance(p)
    /\ UNCHANGED <<objVars, callVars, synced>>

\* The answer to a GET request: all properties, unless it has the query parameter
\* and the HMC supports it.
AnswerGet ==
    /\ exists
    /\ pc \in {"query", "full", "retry"}
    /\ pc = "query" => query # "rejected"
    /\ LET asked == IF pc = "query" /\ query = "supported" THEN names ELSE Prop IN
       reply' = [p \in Prop |-> IF p \in asked THEN hmc[p] ELSE NoValue]
    /\ pc' = IF pc = "query" THEN "got" ELSE "gotFull"
    /\ UNCHANGED <<hmcVars, objVars, names, synced>>

\* The HMC rejects the query parameter or a name in it (400.1, 400.14):
\* pull_properties() repeats the request without it.
RejectQuery ==
    /\ exists
    /\ pc = "query" /\ query = "rejected"
    /\ pc' = "retry"
    /\ UNCHANGED <<hmcVars, objVars, names, reply, synced>>

\* The HMC changes the properties as the POST of update_properties() asks for.
AnswerPost ==
    /\ pc = "post"
    /\ \E p \in names :
          /\ Advance(p)
          /\ reply' = [Nothing EXCEPT ![p] = hmc[p] + 1]
    /\ pc' = "posted"
    /\ UNCHANGED <<objVars, names, synced>>

\* The HMC deletes the resource as the DELETE of delete() asks for.
AnswerDelete ==
    /\ pc = "delete"
    /\ Vanish
    /\ pc' = "deleted"
    /\ UNCHANGED <<objVars, names, reply, synced>>

--------------------------------------------------------------------------------
(* The user thread *)

\* The operation ends: its local variables are gone.
Return == pc' = "idle" /\ names' = {} /\ reply' = Nothing

\* pull_full_properties().  It raises CeasedExistence for an object that is
\* marked as ceased.
PullFull ==
    /\ pc = "idle"
    /\ ~ceased
    /\ pc' = "full"
    /\ UNCHANGED <<hmcVars, objVars, names, reply, synced>>

\* get_property(p) for a property that is not there: it pulls all of them.
GetProperty(p) ==
    /\ local[p] = NoValue
    /\ ~full
    /\ PullFull

\* pull_properties(asked), the same for an object marked as ceased.
PullProperties(asked) ==
    /\ pc = "idle"
    /\ ~ceased
    /\ pc' = IF query = "not_used" THEN "full" ELSE "query"
    /\ names' = asked
    /\ UNCHANGED <<hmcVars, objVars, reply, synced>>

\* The resource is gone (404.1): the object is marked, CeasedExistence raised.
\* The repeated request of pull_properties() raises HTTPError instead.
GetNotFound ==
    /\ ~exists
    /\ pc \in {"query", "full", "retry"}
    /\ ceased' = (ceased \/ pc # "retry")
    /\ Return
    /\ UNCHANGED <<hmcVars, local, full, auto, synced>>

\* Faulty variant of RequestFails: every failure counts as "not found".
RequestFailsCeases ==
    /\ pc # "idle"
    /\ ceased' = TRUE
    /\ Return
    /\ UNCHANGED <<hmcVars, local, full, auto, synced>>

\* Any other failure of a request, before or after the HMC acted on it, also
\* raises, and leaves the object as it is.
RequestFails ==
    /\ pc # "idle"
    /\ Return
    /\ UNCHANGED <<hmcVars, objVars, synced>>

\* Properties whose value in the reply is not older than the local one.
InOrder(got) == {p \in got : reply[p] >= local[p]}

\* Overwrite local properties with those of the reply, under the lock.
Merge(got) ==
    /\ local' = [p \in Prop |-> IF p \in got THEN reply[p] ELSE local[p]]
    /\ synced' = IF auto THEN (synced \ got) \cup InOrder(got) ELSE {}
    /\ Return
    /\ UNCHANGED <<hmcVars, ceased, auto>>

\* The end of a pull.  It was a full one when the request had no query parameter,
\* or when the answer has more properties than were asked for.
MergeGet ==
    /\ pc \in {"got", "gotFull"}
    /\ LET got == {p \in Prop : reply[p] # NoValue} IN
       /\ Merge(got)
       /\ full' = (full \/ pc = "gotFull" \/ Cardinality(got) > Cardinality(names))

\* update_properties(): the POST request.
Update(p) ==
    /\ pc = "idle"
    /\ pc' = "post"
    /\ names' = {p}
    /\ UNCHANGED <<hmcVars, objVars, reply, synced>>

\* Its end: update_properties_local() with the values that were posted.
MergeUpdate ==
    /\ pc = "posted"
    /\ Merge(names)
    /\ UNCHANGED full

\* delete(): the DELETE request, and cease_existence_local() at its end.
Destroy ==
    /\ pc = "idle"
    /\ pc' = "delete"
    /\ UNCHANGED <<hmcVars, objVars, names, reply, synced>>

MarkDeleted ==
    /\ pc = "deleted"
    /\ ceased' = TRUE
    /\ Return
    /\ UNCHANGED <<hmcVars, local, full, auto, synced>>

\* enable_auto_update(): subscribe, register, set the flag, then pull all
\* properties; for an object marked as ceased that pull raises at once.
Enable ==
    /\ pc = "idle"
    /\ ~auto
    /\ subscribed' = TRUE
    /\ auto' = TRUE
    /\ pc' = IF ceased THEN "idle" ELSE "full"
    /\ synced' = {}
    /\ UNCHANGED <<exists, hmc, query, chan, local, full, ceased, names, reply>>

\* disable_auto_update().  The updater's own manager stays registered, so the
\* session stays subscribed.
Disable ==
    /\ pc = "idle"
    /\ auto
    /\ auto' = FALSE
    /\ synced' = {}
    /\ UNCHANGED <<hmcVars, local, full, ceased, callVars>>

--------------------------------------------------------------------------------
(* The listener thread: on_message() *)

Receive == chan # <<>> /\ chan' = Tail(chan)

\* Faulty variant of OnChange: changes that arrive during a pull are dropped.
OnChangeOnlyIdle ==
    /\ Receive
    /\ auto
    /\ Head(chan).type = "change"
    /\ local' = IF pc = "idle" THEN [local EXCEPT ![Head(chan).prop] = Head(chan).value]
                               ELSE local
    /\ synced' = synced \cup {Head(chan).prop}
    /\ UNCHANGED <<exists, hmc, query, subscribed, full, ceased, auto, callVars>>

\* property-change and status-change: update_properties_local().
OnChange ==
    /\ Receive
    /\ auto
    /\ Head(chan).type = "change"
    /\ local' = [local EXCEPT ![Head(chan).prop] = Head(chan).value]
    /\ synced' = synced \cup {Head(chan).prop}
    /\ UNCHANGED <<exists, hmc, query, subscribed, full, ceased, auto, callVars>>

\* Faulty variant of OnRemove: only manager objects are looked up.
OnRemoveManagersOnly ==
    /\ Receive
    /\ auto
    /\ Head(chan).type = "remove"
    /\ UNCHANGED <<exists, hmc, query, subscribed, objVars, callVars, synced>>

\* inventory-change with action remove: cease_existence_local().
OnRemove ==
    /\ Receive
    /\ auto
    /\ Head(chan).type = "remove"
    /\ ceased' = TRUE
    /\ UNCHANGED <<exists, hmc, query, subscribed, local, full, auto, callVars, synced>>

\* The object is not registered, or not enabled for auto-updating.
OnIgnored ==
    /\ Receive
    /\ ~auto
    /\ UNCHANGED <<exists, hmc, query, subscribed, objVars, callVars, synced>>

--------------------------------------------------------------------------------
Listener == OnChange \/ OnRemove \/ OnIgnored

Next ==
    \/ ChangedElsewhere
    \/ AnswerGet
    \/ RejectQuery
    \/ AnswerPost
    \/ AnswerDelete
    \/ PullFull
    \/ \E p \in Prop : GetProperty(p)
    \/ \E asked \in Names : PullProperties(asked)
    \/ GetNotFound
    \/ RequestFails
    \/ MergeGet
    \/ \E p \in Writable : Update(p)
    \/ MergeUpdate
    \/ Destroy
    \/ MarkDeleted
    \/ Enable
    \/ Disable
    \/ OnChange
    \/ OnRemove
    \/ OnIgnored

Spec == Init /\ [][Next]_vars

\* The STOMP library's receiver loop keeps delivering.  Nothing makes the user
\* start an operation, the HMC answer it, or anybody change the resource.
FairSpec == Spec /\ WF_vars(Listener)

--------------------------------------------------------------------------------
(* Properties *)

\* While an object is auto-updated, a property whose last local write was in
\* order has the HMC's value, or the notification with that value is on its way.
\* A write is out of order when the answer of a pull, or the values of an update,
\* overwrite a newer value that the listener stored while they were on their way.
SyncedIsPending ==
    auto => \A p \in synced : local[p] = hmc[p] \/ Pending(Change(p, hmc[p]))

\* An object is taken for complete only when it has every property of the
\* resource: get_property() raises KeyError for the others without asking.
FullHasAll == full => \A p \in Prop : local[p] # NoValue

\* An object is marked as ceased only when the resource is gone; and an
\* auto-updated one that was ever in step with the HMC misses that event never:
\* it is marked, or the notification is on its way.
CeasedIsGone ==
    /\ ceased => ~exists
    /\ auto /\ synced # {} /\ ~exists => ceased \/ Pending(Removed)

\* An auto-updated property reaches the HMC's value, unless an out-of-order write
\* rolls it back.
Converges ==
    \A p \in Prop : auto /\ p \in synced ~> ~auto \/ p \notin synced \/ local[p] = hmc[p]

\* The deletion of a resource reaches an auto-updated object that was in step.
DeletionNoticed ==
    auto /\ synced # {} /\ ~exists ~> ~auto \/ ceased

\* What an object says of itself: that it has all properties, that its resource is gone.
SelfKnowledge == FullHasAll /\ CeasedIsGone

\* Changes and deletions reach an auto-updated object that was in step.
CatchesUp == Converges /\ DeletionNoticed
================================================================================
