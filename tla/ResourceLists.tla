------------------------------ MODULE ResourceLists ------------------------------
(***************************************************************************)
(* Listing and finding resources with filters: BaseManager.list() in its   *)
(* two forms, findall() and find() (zhmcclient/_manager.py), with the      *)
(* filters of zhmcclient/_utils.py, and the methods that work in the same  *)
(* way (module ResourceManagers).                                          *)
(*                                                                         *)
(* A call is a sequence of requests: a List operation, or the URIs in the  *)
(* parent object; then requests for the full properties, or for properties *)
(* that a filter needs.  Filters are divided into those that the HMC       *)
(* applies when it answers the List operation, and those that the client   *)
(* applies later.  Meanwhile resources change, appear and vanish.          *)
(*                                                                         *)
(* The module is about managers that are not auto-updated                  *)
(* (AutoUpdatedList), and leaves the cache of names to NameUriCache: a     *)
(* find() with a name is a find_by_name(), which is modelled there.  A     *)
(* behaviour is one call, in any state of the HMC and of the parent        *)
(* object: nothing else that a call uses is left by an earlier one.        *)
(***************************************************************************)
EXTENDS ResourceManagers, FiniteSets, Naturals, Sequences

CONSTANTS
    Res,         \* resources
    Prop,        \* "name"; "key", a property that operations may filter by; "other"
    Value,       \* values of a property
    Numeric,     \* those of the types bool, int and float; the others are strings
    Begins,      \* <<v, w>>: v is longer than w and begins with it
    MatchValue,  \* what a filter compares a property with: lists of patterns
    NoValue,     \* the local copy does not have the property
    Absent,      \* the resource does not have the property
    BulkLimit,   \* the requests that fit into one bulk operation (BULK_MAX_SIZE)
    MaxChanges   \* bound: changes by other clients

ASSUME ListAssumption ==
    /\ IsFiniteSet(Res)
    /\ Prop \subseteq {"name", "key", "other"}
    /\ Numeric \subseteq Value
    /\ Begins \subseteq Value \X Value
    /\ {NoValue, Absent} \cap Value = {} /\ NoValue # Absent
    /\ BulkLimit \in Nat \ {0} /\ MaxChanges \in Nat

VARIABLES
    life,     \* HMC: the life of each resource
    val,      \* HMC: the values of its properties
    call,     \* the call
    todo,     \* resources still to be requested, or filtered
    batch,    \* resources in the request under way
    local,    \* the properties of the Python objects that the call creates
    result,   \* the objects that it has taken so far, or returned
    stay,     \* history: the resources that exist, and are in the array, since the call began
    seen,     \* history: the values of their properties since then
    changes   \* number of changes so far

resVars   == <<life, val, changes>>
stepVars  == <<call, todo, batch, local, result>>
listsVars == <<resVars, stepVars, stay, seen>>

(* What matters of a manager. *)
Kind(m) == [via     |-> m.via, rest |-> m.rest, filters |-> m.filters,
            named   |-> m.named, patient |-> m.patient, grouped |-> m.grouped,
            served  |-> {p \in Prop : \/ p = "name" /\ "name" \in m.query
                                      \/ p = "key" /\ m.query \ {"name"} # {}}]
Kinds == {Kind(m) : m \in Managers}

Filterable(k) == CASE k.filters = "any"   -> Prop
                   [] k.filters = "query" -> k.served
                   [] k.filters = "none"  -> {}
Filters(k) == UNION {[ps -> MatchValue] : ps \in SUBSET Filterable(k)}
Outcome    == {"none", "listed", "found", "notfound", "notunique", "failed"}

CallType == [pc : {"start", "items", "full", "bulk", "end"}, kind : Kinds, full : BOOLEAN,
             filter : UNION {[ps -> MatchValue] : ps \in SUBSET Prop}, adds : SUBSET Prop,
             outcome : Outcome, cut : BOOLEAN]

ListsTypeOK ==
    /\ life \in [Res -> {"unborn", "alive", "gone"}]
    /\ val \in [Res -> [Prop -> Value \cup {Absent}]]
    /\ todo \subseteq Res /\ batch \subseteq Res /\ result \subseteq Res
    /\ Cardinality(batch) <= BulkLimit
    /\ call \in CallType /\ call.filter \in Filters(call.kind)
    /\ local \in [Res -> [Prop -> Value \cup {Absent, NoValue}]]
    /\ stay \subseteq Res
    /\ seen \in [Res -> [Prop -> SUBSET (Value \cup {Absent})]]
    /\ changes \in 0..MaxChanges

Existing == {r \in Res : life[r] = "alive"}
Unknown  == [p \in Prop |-> NoValue]

\* Names, and what operations filter by, are strings here.
ListsInit ==
    /\ life \in [Res -> {"unborn", "alive", "gone"}]
    /\ \E v \in Value \ Numeric : \E w \in {v, Absent} \cup Numeric :
        val = [r \in Res |-> [p \in Prop |-> IF p = "other" THEN w ELSE v]]
    /\ call = [pc |-> "start", kind |-> Kind(CpcManager), full |-> FALSE,
               filter |-> <<>>, adds |-> {}, outcome |-> "none", cut |-> FALSE]
    /\ todo = {} /\ batch = {} /\ result = {} /\ stay = {} /\ changes = 0
    /\ local = [r \in Res |-> Unknown]
    /\ seen = [r \in Res |-> [p \in Prop |-> {}]]

-----------------------------------------------------------------------------
(* Matching.  A pattern is a sequence of alternatives, a regular expression like 'on|off'.   *)
(* A match value is a list of patterns.                                                      *)

(* convert_match_value(): only a number that is given as such has the type of a number.      *)
Converts(v, pattern) == v \in Numeric => \E w \in Numeric : pattern = <<w>>

(* re.match(f'{prop_match}$', value) for strings: the end of the value belongs to the last    *)
(* alternative.                                                                              *)
MatchesPattern(v, pattern) ==
    IF v \in Numeric
    THEN pattern = <<v>>
    ELSE \E i \in DOMAIN pattern :
            \/ v = pattern[i]
            \/ i < Len(pattern) /\ <<v, pattern[i]>> \in Begins

(* The items of the list before the first that matches have to be converted.                 *)
matches_prop(v, match) ==
    \E i \in DOMAIN match : /\ MatchesPattern(v, match[i])
                            /\ \A j \in DOMAIN match : j < i => Converts(v, match[j])

(* FilterConversionError: an item cannot be converted, and no item before it matches.        *)
Unconvertible(v, match) ==
    ~ matches_prop(v, match) /\ \E i \in DOMAIN match : ~ Converts(v, match[i])

(* The HMC lets a whole value match. *)
HmcMatches(v, match) == \E i \in DOMAIN match : \E j \in DOMAIN match[i] : v = match[i][j]

(* divide_filter_args(), make_query_str(): what the HMC filters by, and the rest. *)
QueryParms(k, filter)    == k.served \cap DOMAIN filter
ClientFilters(k, filter) == DOMAIN filter \ k.served

(* matches_filters() for the filter arguments of ps.  They are looked at in the order of a    *)
(* dictionary, and the first that does not match decides: by the result, or by the error.    *)
matches_filters(props, filter, ps) == \A p \in ps : matches_prop(props[p], filter[p])
Rejects(props, filter, ps) ==
    \E p \in ps : ~ matches_prop(props[p], filter[p]) /\ ~ Unconvertible(props[p], filter[p])
Chokes(props, filter, ps) == \E p \in ps : Unconvertible(props[p], filter[p])

-----------------------------------------------------------------------------
(* The steps of a call. *)

ListedProps(r, ps) == [p \in Prop |-> IF p \in ps /\ val[r][p] # Absent THEN val[r][p] ELSE NoValue]

Begin(k, full, filter, adds) ==
    /\ call.pc = "start"
    /\ full => k.rest # "none"
    /\ call' = [pc |-> IF full /\ k.rest = "bulk" THEN "bulk" ELSE "items", kind |-> k,
                full |-> full, filter |-> filter, adds |-> adds,
                outcome |-> "none", cut |-> FALSE]
    /\ result' = {} /\ batch' = {}
    /\ seen' = [r \in Res |-> [p \in Prop |-> {val[r][p]}]]

Named(k) == IF k.named THEN {"name"} \cap Prop ELSE {}

(* _list_with_operation(), up to the answer.  It contains the properties in further, those   *)
(* that the operation always returns and the additional_properties of the caller.  For       *)
(* list_permitted_lpars(), the latter (adds) may be lacking.                                 *)
ListOperation(k, full, filter, adds) ==
    /\ k.via = "operation"
    /\ Begin(k, full, filter, adds)
    /\ stay' = Existing
    /\ \E further \in SUBSET (Prop \ {"name"}) :
        LET answer == {r \in Existing : \A p \in QueryParms(k, filter) :
                                        HmcMatches(val[r][p], filter[p])}
        IN  /\ todo' = answer
            /\ local' = [r \in Res |-> IF r \in answer
                                       THEN ListedProps(r, further \cup Named(k)) ELSE Unknown]
    /\ UNCHANGED resVars

(* _list_with_parent_array(): the array is that of the parent object, as it was when it was   *)
(* pulled.                                                                                    *)
ListArray(k, full, filter) ==
    /\ k.via = "array"
    /\ Begin(k, full, filter, {})
    /\ \E array \in SUBSET {r \in Res : life[r] # "unborn"} :
        /\ todo' = array
        /\ stay' = array \cap Existing
    /\ local' = [r \in Res |-> Unknown]
    /\ UNCHANGED resVars

\* The objects are given up.
Fail(cut) ==
    /\ call' = [call EXCEPT !.pc = "end", !.outcome = "failed", !.cut = cut]
    /\ todo' = {} /\ batch' = {} /\ result' = {} /\ local' = [r \in Res |-> Unknown]

(* Any request may fail: no connection, no authority, an error of the HMC. *)
RequestFails ==
    /\ call.pc \notin {"start", "end"}
    /\ Fail(TRUE)
    /\ UNCHANGED <<resVars, stay, seen>>

Checked  == ClientFilters(call.kind, call.filter)
Known(r) == {p \in Prop : local[r][p] # NoValue}
Lacks(r) == IF call.kind.patient THEN call.adds \ Known(r) ELSE {}  \* pull_props

(* The object is taken.  An object listed one by one is then pulled, if wanted. *)
Take(r) ==
    IF call.full /\ call.kind.rest = "pull"
    THEN /\ call' = [call EXCEPT !.pc = "full"]
         /\ batch' = {r}
         /\ UNCHANGED result
    ELSE /\ result' = result \cup {r}
         /\ UNCHANGED <<call, batch>>

(* pull_properties() for additional properties that the list lacks: only these, or all. *)
PullMissing(r) ==
    /\ call.pc = "items" /\ r \in todo
    /\ Lacks(r) # {}
    /\ life[r] = "alive"
    /\ \E ps \in {Lacks(r), Prop} :
        /\ (\E p \in Lacks(r) : val[r][p] = Absent) => ps = Prop
        /\ local' = [local EXCEPT ![r] = [p \in Prop |-> IF p \in ps THEN val[r][p] ELSE @[p]]]
    /\ UNCHANGED <<resVars, call, todo, batch, result, stay, seen>>

Item(r) ==
    /\ call.pc = "items" /\ r \in todo
    /\ Lacks(r) = {}
    /\ todo' = todo \ {r}
    /\ UNCHANGED <<resVars, stay, seen>>

(* matches_filters(): a filter by a known property decides against the object. *)
DropItem(r) ==
    /\ Item(r)
    /\ Rejects(local[r], call.filter, Checked \cap Known(r))
    /\ UNCHANGED <<call, batch, local, result>>

TakeItem(r) ==
    /\ Item(r)
    /\ Checked \subseteq Known(r)
    /\ matches_filters(local[r], call.filter, Checked)
    /\ Take(r)
    /\ UNCHANGED local

(* The filter arguments that are still to be looked at once the resource has been pulled: one *)
(* needs a property that is not known, u is its name, those of early come first, and have     *)
(* matched what was known.  The others follow if this one matches.                            *)
Late(r) ==
    LET earlier == {ps \in SUBSET (Checked \cap Known(r)) : matches_filters(local[r], call.filter, ps)}
    IN  UNION {{IF matches_prop(val[r][u], call.filter[u]) THEN Checked \ early ELSE {u} :
                   u \in Checked \ Known(r)} : early \in earlier}

(* get_property() of a property that is not known pulls the resource. *)
PullItem(r) ==
    /\ Item(r)
    /\ life[r] = "alive"
    /\ local' = [local EXCEPT ![r] = val[r]]
    /\ \E late \in Late(r) :
        \/ matches_filters(val[r], call.filter, late) /\ Take(r)
        \/ Rejects(val[r], call.filter, late) /\ UNCHANGED <<call, batch, result>>

(* FilterConversionError, of a property that is known or has to be pulled, ends the call. *)
FilterFails(r) ==
    /\ call.pc = "items" /\ r \in todo /\ Lacks(r) = {}
    /\ \/ Chokes(local[r], call.filter, Checked \cap Known(r))
       \/ life[r] = "alive" /\ \E late \in Late(r) : Chokes(val[r], call.filter, late)
    /\ Fail(FALSE)
    /\ UNCHANGED <<resVars, stay, seen>>

(* pull_full_properties() of an object that was taken. *)
PullTaken(r) ==
    /\ call.pc = "full" /\ batch = {r}
    /\ life[r] = "alive"
    /\ local' = [local EXCEPT ![r] = val[r]]
    /\ result' = result \cup {r}
    /\ batch' = {}
    /\ call' = [call EXCEPT !.pc = "items"]
    /\ UNCHANGED <<resVars, todo, stay, seen>>

(* The resource to be pulled has vanished: CeasedExistence. *)
PullGone(r) ==
    /\ life[r] = "gone"
    /\ \/ call.pc = "full" /\ batch = {r}
       \/ call.pc = "items" /\ r \in todo /\ ~ (Checked \subseteq Known(r) /\ Lacks(r) = {})
    /\ Fail(FALSE)
    /\ UNCHANGED <<resVars, stay, seen>>

(* The highest number of a request after which _get_properties_bulk() appends another one. *)
max_req_id == BulkLimit - 1

(* Faulty variant of BulkSubmit: the highest number is taken for the number of requests. *)
BulkSubmitOneMore(rs) ==
    /\ call.pc = "bulk" /\ batch = {}
    /\ rs \subseteq todo /\ rs # {}
    /\ \/ Cardinality(rs) = BulkLimit + 1
       \/ Cardinality(rs) <= BulkLimit /\ rs = todo
    /\ batch' = rs
    /\ todo' = todo \ rs
    /\ UNCHANGED <<resVars, call, local, result, stay, seen>>

(* Faulty variant of BulkSubmit: the request that fills an operation gets lost. *)
BulkSubmitLosesLast(rs) ==
    /\ call.pc = "bulk" /\ batch = {}
    /\ rs \subseteq todo /\ rs # {}
    /\ \/ Cardinality(rs) > max_req_id /\ \E r \in rs : batch' = rs \ {r}
       \/ Cardinality(rs) <= max_req_id /\ rs = todo /\ batch' = rs
    /\ todo' = todo \ rs
    /\ UNCHANGED <<resVars, call, local, result, stay, seen>>

(* _get_properties_bulk(): the next Submit Requests operation.  The loop that splits the list *)
(* closes an operation as soon as it has more than max_req_id requests, and at the end of the *)
(* list, or of the part of the list that belongs to one CPC.                                  *)
BulkSubmit(rs) ==
    /\ call.pc = "bulk" /\ batch = {}
    /\ rs \subseteq todo /\ rs # {}
    /\ \/ Cardinality(rs) = max_req_id + 1
       \/ Cardinality(rs) <= max_req_id /\ (rs = todo \/ call.kind.grouped)
    /\ batch' = rs
    /\ todo' = todo \ rs
    /\ UNCHANGED <<resVars, call, local, result, stay, seen>>

(* Faulty variant of BulkGet: the client's filters are left to the HMC. *)
BulkGetUnfiltered(r) ==
    /\ call.pc = "bulk" /\ r \in batch
    /\ life[r] = "alive"
    /\ batch' = batch \ {r}
    /\ local' = [local EXCEPT ![r] = val[r]]
    /\ result' = result \cup {r}
    /\ UNCHANGED <<resVars, call, todo, stay, seen>>

(* Faulty variant of BulkGet: what was listed goes over what was got. *)
BulkGetSwapped(r) ==
    /\ call.pc = "bulk" /\ r \in batch
    /\ life[r] = "alive"
    /\ batch' = batch \ {r}
    /\ local' = [local EXCEPT ![r] = [p \in Prop |-> IF p \in Known(r) THEN @[p] ELSE val[r][p]]]
    /\ result' = IF matches_filters(val[r], call.filter, Checked) THEN result \cup {r} ELSE result
    /\ UNCHANGED <<resVars, call, todo, stay, seen>>

(* The HMC executes one request of the operation, and the client handles its answer. *)
BulkGet(r) ==
    /\ call.pc = "bulk" /\ r \in batch
    /\ life[r] = "alive"
    /\ batch' = batch \ {r}
    /\ local' = [local EXCEPT ![r] = val[r]]
    /\ \/ matches_filters(val[r], call.filter, Checked) /\ result' = result \cup {r}
       \/ Rejects(val[r], call.filter, Checked) /\ UNCHANGED result
    /\ UNCHANGED <<resVars, call, todo, stay, seen>>

(* FilterConversionError, of a property that was got. *)
BulkFilterFails(r) ==
    /\ call.pc = "bulk" /\ r \in batch
    /\ life[r] = "alive"
    /\ Chokes(val[r], call.filter, Checked)
    /\ Fail(FALSE)
    /\ UNCHANGED <<resVars, stay, seen>>

(* One answer that is not 200 makes the whole call fail. *)
BulkGone(r) ==
    /\ call.pc = "bulk" /\ r \in batch
    /\ life[r] = "gone"
    /\ Fail(FALSE)
    /\ UNCHANGED <<resVars, stay, seen>>

(* find(): the one resource, or an error. *)
Found == CASE Cardinality(result) = 0 -> "notfound"
           [] Cardinality(result) = 1 -> "found"
           [] OTHER                   -> "notunique"

(* The end of list(), and of find(), which is a list() without full properties whose result   *)
(* is counted; with the name among the filter arguments it is find_by_name() instead.         *)
Return ==
    /\ call.pc \in {"items", "bulk"} /\ todo = {} /\ batch = {}
    /\ \E outcome \in {"listed", Found} :
        /\ outcome # "listed" =>
              call.kind.filters = "any" /\ ~ call.full /\ "name" \notin DOMAIN call.filter
        /\ call' = [call EXCEPT !.pc = "end", !.outcome = outcome]
    /\ UNCHANGED <<resVars, todo, batch, local, result, stay, seen>>

-----------------------------------------------------------------------------
(* Other clients. *)

Changes ==
    /\ call.pc \notin {"start", "end"}
    /\ changes < MaxChanges /\ changes' = changes + 1
    /\ UNCHANGED stepVars

Appear(r) ==
    /\ Changes
    /\ life[r] = "unborn" /\ life' = [life EXCEPT ![r] = "alive"]
    /\ UNCHANGED <<val, stay, seen>>

\* A property keeps its type.
Change(r, p, v) ==
    /\ Changes
    /\ life[r] = "alive" /\ val[r][p] \notin {v, Absent}
    /\ (v \in Numeric) = (val[r][p] \in Numeric)
    /\ val' = [val EXCEPT ![r][p] = v]
    /\ seen' = [seen EXCEPT ![r][p] = @ \cup {v}]
    /\ UNCHANGED <<life, stay>>

Vanish(r) ==
    /\ Changes
    /\ life[r] = "alive" /\ life' = [life EXCEPT ![r] = "gone"]
    /\ stay' = stay \ {r}
    /\ UNCHANGED <<val, seen>>

-----------------------------------------------------------------------------
ListsNext ==
    \/ \E k \in Kinds, full \in BOOLEAN :
        \E filter \in Filters(k) :
            \/ \E adds \in IF k.patient THEN SUBSET (Prop \ {"name"}) ELSE {{}} :
                  ListOperation(k, full, filter, adds)
            \/ ListArray(k, full, filter)
    \/ \E r \in Res : \/ PullMissing(r) \/ DropItem(r) \/ TakeItem(r) \/ PullItem(r)
                      \/ PullTaken(r) \/ PullGone(r) \/ FilterFails(r)
                      \/ BulkGet(r) \/ BulkGone(r) \/ BulkFilterFails(r)
    \/ \E rs \in SUBSET todo : BulkSubmit(rs)
    \/ RequestFails \/ Return
    \/ \E r \in Res : Appear(r) \/ Vanish(r) \/ \E p \in Prop, v \in Value : Change(r, p, v)

ListsSpec == ListsInit /\ [][ListsNext]_listsVars

-----------------------------------------------------------------------------
(* What a call promises when it returns. *)

Returned == call.outcome \notin {"none", "failed"}
Filtered == DOMAIN call.filter

(* The whole value matches: what docs/concepts.rst:284-286 says of a filter argument. *)
Always(r) == \A p \in Filtered : \A v \in seen[r][p] : HmcMatches(v, call.filter[p])

(* The value matches for the one that has to apply the filter argument, HMC or client. *)
Selects(p, v) == IF p \in Checked THEN matches_prop(v, call.filter[p]) ELSE HmcMatches(v, call.filter[p])
Once(r)       == \A p \in Filtered : \E v \in seen[r][p] : Selects(p, v)

(* A resource that exists and matches during the whole call is among the results, whatever    *)
(* happens to the others, and whether it is the HMC or the client that filters:               *)
(* _manager.py:755-803, 805-917, 971-995, matches_filters().  One that is listed by its       *)
(* parent has to be in the array of the parent object.                                        *)
ListComplete ==
    Returned => \A r \in stay : Always(r) => r \in result

(* A resource in the result had, for each filter argument, a value during the call that       *)
(* matches: no filter is lost between the HMC and the client, divide_filter_args().  For a    *)
(* pattern with alternatives, the client's match is the weaker one (README.md).               *)
ListExplained == Returned => \A r \in result : Once(r)

(* find() (_manager.py:1289-1298) returns the only match; it says that there is no resource,  *)
(* or more than one, only if none matched all the time, or two matched during the call.       *)
FindExplained ==
    /\ call.outcome = "found" => Cardinality(result) = 1
    /\ call.outcome = "notfound" => \A r \in stay : ~ Always(r)
    /\ call.outcome = "notunique" => \E r, q \in Res : r # q /\ Once(r) /\ Once(q)

(* The client could not convert a match value to the type of a property of the resource,      *)
(* convert_match_value().                                                                     *)
Unfit(r) == \E p \in Checked : \E v \in seen[r][p] : Unconvertible(v, call.filter[p])

(* A call that fails without an error of the HMC or the connection fails because a resource   *)
(* vanished (CeasedExistence, HTTPError 404) or because of a match value that does not have   *)
(* the type of the property (FilterConversionError), and not for a filter that the HMC        *)
(* applies; that a resource has no property that is filtered by is no reason                  *)
(* (_utils.py:538-546).                                                                       *)
FailureExplained ==
    call.outcome = "failed" => call.cut \/ \E r \in Res : life[r] = "gone" \/ Unfit(r)

(* Whatever a call returns or raises is explained by what the resources were during the call. *)
OutcomeExplained == ListExplained /\ FindExplained /\ FailureExplained

(* With full_properties, the objects returned have all properties, with values of the time of *)
(* the call; and after a bulk request, what the objects say agrees with the client's filters  *)
(* (_manager.py:893-915).                                                                     *)
FullAndFresh ==
    Returned /\ call.full => \A r \in result :
        /\ \A p \in Prop : local[r][p] \in seen[r][p]
        /\ call.kind.rest = "bulk" => matches_filters(local[r], call.filter, Checked)

=============================================================================
