---------------------------- MODULE AutoUpdatedList ----------------------------
(***************************************************************************)
(* The local resource list of ONE manager object (zhmcclient/_manager.py,  *)
(* _ResourceList and BaseManager._list_with_operation), kept up to date by *)
(* the listener thread of the session's AutoUpdater                        *)
(* (zhmcclient/_auto_updater.py) while a user thread lists, enables and    *)
(* disables.                                                               *)
(*                                                                         *)
(* Three parties run concurrently: the HMC, which creates and deletes      *)
(* resources, answers GET requests and sends one inventory-change          *)
(* notification per change on a FIFO topic; the listener thread, which     *)
(* handles notifications one by one; and the user thread.  A list() call   *)
(* is three steps - request, answer, add_list() - and no lock is held      *)
(* between them.                                                           *)
(*                                                                         *)
(* A filter is the set of URIs that match it.  URIs are never reused       *)
(* (object IDs are UUIDs), so a resource is unborn, alive, then gone.      *)
(***************************************************************************)
EXTENDS Naturals, Sequences

CONSTANTS
    Uri,      \* the resources that may ever exist below the manager's parent
    Filter    \* the filters the user lists with, each the set of its matches

ASSUME FilterAssumption == Filter \subseteq SUBSET Uri /\ Uri \in Filter

VARIABLES
    inv,         \* HMC: the life of each resource
    chan,        \* notifications sent on the object topic and not handled yet
    subscribed,  \* the session is subscribed to its object topic
    registered,  \* the manager is among the updater's registered objects
    enabled,     \* _ResourceList._enabled
    needsPull,   \* _ResourceList._needs_pull
    resources,   \* the keys of _ResourceList._resources
    pc,          \* where the user thread is
    op,          \* the call it is in: list() or enable_auto_update()
    filter,      \* the filter of that call
    reply,       \* the URIs in the HMC's answer to its GET request
    heard,       \* history: notifications handled since the last full merge
    missed       \* history: resources whose notification a pull overtook

hmcVars  == <<inv, chan, subscribed>>
listVars == <<registered, enabled, needsPull, resources>>
callVars == <<pc, op, filter, reply>>
history  == <<heard, missed>>
vars     == <<hmcVars, listVars, callVars, history>>

Add(u)    == [action |-> "add",    uri |-> u]
Remove(u) == [action |-> "remove", uri |-> u]
Notification == [action : {"add", "remove"}, uri : Uri]

Alive      == {u \in Uri : inv[u] = "alive"}
Has(s, n)  == \E i \in 1..Len(s) : s[i] = n
Pending(n) == Has(chan, n)

\* The resources about which a pull that now completes leaves the list wrong,
\* because it does not reflect a notification that was already handled.
Overtaken == {u \in Uri : \/ Add(u) \in heard /\ Remove(u) \notin heard /\ u \notin reply
                          \/ Remove(u) \in heard /\ u \in reply}

TypeOK ==
    /\ inv \in [Uri -> {"unborn", "alive", "gone"}]
    /\ chan \in Seq(Notification)
    /\ subscribed \in BOOLEAN
    /\ registered \in BOOLEAN
    /\ enabled \in BOOLEAN
    /\ needsPull \in BOOLEAN
    /\ resources \subseteq Uri
    /\ pc \in {"idle", "get", "answered", "replace"}
    /\ op \in {"list", "enable"}
    /\ filter \subseteq Uri
    /\ reply \subseteq Uri
    /\ heard \subseteq Notification
    /\ missed \subseteq Uri

\* Another object of the session may have subscribed it before.
Init ==
    /\ inv \in [Uri -> {"unborn", "alive"}]
    /\ chan = <<>>
    /\ subscribed \in BOOLEAN
    /\ registered = FALSE
    /\ enabled = FALSE
    /\ needsPull = TRUE
    /\ resources = {}
    /\ pc = "idle"
    /\ op = "list"
    /\ filter = Uri
    /\ reply = {}
    /\ heard = {}
    /\ missed = {}

--------------------------------------------------------------------------------
(* The HMC *)

Announce(n) == chan' = IF subscribed THEN Append(chan, n) ELSE chan

Create(u) ==
    /\ inv[u] = "unborn"
    /\ inv' = [inv EXCEPT ![u] = "alive"]
    /\ Announce(Add(u))
    /\ UNCHANGED <<subscribed, listVars, callVars, history>>

Delete(u) ==
    /\ inv[u] = "alive"
    /\ inv' = [inv EXCEPT ![u] = "gone"]
    /\ Announce(Remove(u))
    /\ UNCHANGED <<subscribed, listVars, callVars, history>>

\* The List operation: the inventory at this instant, filtered.
AnswerGet ==
    /\ pc = "get"
    /\ reply' = Alive \cap filter
    /\ pc' = "answered"
    /\ UNCHANGED <<hmcVars, listVars, op, filter, history>>

--------------------------------------------------------------------------------
(* The user thread *)

\* list() on a manager that is not auto-updated, or whose list needs a pull.
\* Otherwise list() reads the local resources and changes nothing.
ListPull(f) ==
    /\ pc = "idle"
    /\ ~ (enabled /\ ~needsPull)
    /\ pc' = "get"
    /\ op' = "list"
    /\ filter' = f
    /\ UNCHANGED <<hmcVars, listVars, reply, history>>

\* enable_auto_update(): subscribe, register, then call list(), which pulls
\* because the manager is not yet enabled.
Enable ==
    /\ pc = "idle"
    /\ ~enabled
    /\ subscribed' = TRUE
    /\ registered' = TRUE
    /\ pc' = "get"
    /\ op' = "enable"
    /\ filter' = Uri
    /\ heard' = {}
    /\ missed' = {}
    /\ UNCHANGED <<inv, chan, enabled, needsPull, resources, reply>>

\* The GET request raises (HTTP error, connection error): the call ends.  What
\* enable_auto_update() did before is not undone.
GetFails ==
    /\ pc = "get"
    /\ pc' = "idle"
    /\ UNCHANGED <<hmcVars, listVars, op, filter, reply, history>>

\* Faulty variant of AddList: the answer replaces the list, also that to a filter.
AddListReplaces ==
    /\ pc = "answered"
    /\ resources' = reply
    /\ needsPull' = FALSE
    /\ IF op = "list"
       THEN /\ pc' = "idle"
            /\ reply' = {}
            /\ missed' = (missed \ reply) \cup Overtaken
            /\ heard' = {}
       ELSE /\ pc' = "replace"
            /\ UNCHANGED <<reply, history>>
    /\ UNCHANGED <<hmcVars, registered, enabled, op, filter>>

\* add_list(): merge the answer into the list, under the lock.
AddList ==
    /\ pc = "answered"
    /\ resources' = resources \cup reply
    /\ needsPull' = FALSE
    /\ IF op = "list"
       THEN /\ pc' = "idle"
            /\ reply' = {}
            /\ missed' = (missed \ reply) \cup Overtaken
            /\ heard' = {}
       ELSE /\ pc' = "replace"
            /\ UNCHANGED <<reply, history>>
    /\ UNCHANGED <<hmcVars, registered, enabled, op, filter>>

\* Faulty variant of Replace: the list is not cleared first.
ReplaceMerges ==
    /\ pc = "replace"
    /\ resources' = resources \cup reply
    /\ needsPull' = FALSE
    /\ enabled' = TRUE
    /\ pc' = "idle"
    /\ reply' = {}
    /\ missed' = Overtaken
    /\ heard' = {}
    /\ UNCHANGED <<hmcVars, registered, op, filter>>

\* The end of enable_auto_update(), under the lock.
Replace ==
    /\ pc = "replace"
    /\ resources' = reply
    /\ needsPull' = FALSE
    /\ enabled' = TRUE
    /\ pc' = "idle"
    /\ reply' = {}
    /\ missed' = Overtaken
    /\ heard' = {}
    /\ UNCHANGED <<hmcVars, registered, op, filter>>

\* disable_auto_update().  The updater's own Client.cpcs manager stays
\* registered, so has_objects() holds and the session stays subscribed.
Disable ==
    /\ pc = "idle"
    /\ enabled
    /\ registered' = FALSE
    /\ resources' = {}
    /\ needsPull' = TRUE
    /\ enabled' = FALSE
    /\ heard' = {}
    /\ missed' = {}
    /\ UNCHANGED <<hmcVars, callVars>>

--------------------------------------------------------------------------------
(* The listener thread: on_message() for an inventory-change notification *)

Receive == chan # <<>> /\ chan' = Tail(chan)

\* Faulty variant of OnAdd: the flag is reset instead of set.
OnAddResets ==
    /\ Receive
    /\ registered /\ enabled
    /\ Head(chan).action = "add"
    /\ needsPull' = FALSE
    /\ heard' = heard \cup {Head(chan)}
    /\ UNCHANGED <<inv, subscribed, registered, enabled, resources, callVars, missed>>

\* inventory-change with action add: trigger_pull().
OnAdd ==
    /\ Receive
    /\ registered /\ enabled
    /\ Head(chan).action = "add"
    /\ needsPull' = TRUE
    /\ heard' = heard \cup {Head(chan)}
    /\ UNCHANGED <<inv, subscribed, registered, enabled, resources, callVars, missed>>

\* inventory-change with action remove: remove().
OnRemove ==
    /\ Receive
    /\ registered /\ enabled
    /\ Head(chan).action = "remove"
    /\ resources' = resources \ {Head(chan).uri}
    /\ heard' = heard \cup {Head(chan)}
    /\ UNCHANGED <<inv, subscribed, registered, enabled, needsPull, callVars, missed>>

\* The manager is not registered, or auto_update_enabled() is still false.
OnIgnored ==
    /\ Receive
    /\ ~ (registered /\ enabled)
    /\ heard' = IF registered THEN heard \cup {Head(chan)} ELSE heard
    /\ UNCHANGED <<inv, subscribed, listVars, callVars, missed>>

--------------------------------------------------------------------------------
Listener == OnAdd \/ OnRemove \/ OnIgnored
Hmc      == \E u \in Uri : Create(u) \/ Delete(u)

Next ==
    \/ Hmc
    \/ AnswerGet
    \/ \E f \in Filter : ListPull(f)
    \/ Enable
    \/ GetFails
    \/ AddList
    \/ Replace
    \/ Disable
    \/ OnAdd
    \/ OnRemove
    \/ OnIgnored

Spec == Init /\ [][Next]_vars

\* The STOMP library's receiver loop keeps delivering.  Nothing makes the user
\* start a call, the HMC answer it, or anybody create or delete a resource.
FairSpec == Spec /\ WF_vars(Listener)

--------------------------------------------------------------------------------
(* Properties *)

\* While a manager is auto-updated, its list and the HMC's inventory differ only
\* by changes whose notification is still on its way, or by resources that a
\* pull overtook: a resource that is gone is listed only until its remove
\* notification is handled, and a new one is absent only until its add
\* notification is handled, which makes the next list() pull.
LagIsPending ==
    enabled /\ pc = "idle" =>
        \A u \in Uri \ missed :
            /\ u \in resources /\ u \notin Alive => Pending(Remove(u))
            /\ u \in Alive /\ u \notin resources => needsPull \/ Pending(Add(u))

\* A deleted resource disappears from an auto-updated list, unless a pull
\* overtook its remove notification.
DeletedDisappears ==
    \A u \in Uri :
        enabled /\ inv[u] = "gone" ~> ~enabled \/ u \notin resources \/ u \in missed

\* A created resource becomes visible to list() - it is in the local list or
\* the next list() pulls - unless a pull overtook its add notification.
CreatedIsNoticed ==
    \A u \in Uri :
        enabled /\ inv[u] = "alive" ~> \/ ~enabled \/ inv[u] = "gone"
                                       \/ u \in resources \/ needsPull \/ u \in missed

\* Every change is noticed by an auto-updated list, unless a pull overtook it.
ChangesNoticed == DeletedDisappears /\ CreatedIsNoticed

\* An auto-updated list implements a copy that lags behind: it lists what exists or
\* existed, and keeps what still exists, whichever notifications, pulls with a filter and
\* failed requests fall together.
Mirror == INSTANCE LaggingMirror WITH
    Item <- Uri, life <- inv, following <- enabled, shown <- resources

ImplementsMirror == Mirror!MirrorSpec
================================================================================
