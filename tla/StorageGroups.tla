----------------------------- MODULE StorageGroups -----------------------------
(***************************************************************************)
(* Storage groups and storage group templates with their volumes, and the  *)
(* candidate adapter ports of storage groups (zhmcclient/_storage_group.py,*)
(* _storage_volume.py, _storage_group_template.py,                         *)
(* _storage_volume_template.py), with the handlers and objects of the mock *)
(* HMC (zhmcclient/mock/_urihandler.py, _hmc.py).                          *)
(*                                                                         *)
(* Volumes are created, modified and deleted by a list of requests in the  *)
(* body of a create or modify operation of their group.  The handler takes *)
(* them one by one, and leaves what it has done when one of them fails.    *)
(***************************************************************************)
EXTENDS ConsoleObjects, Sequences, SequencesExt

CONSTANTS
    Group, Template,  \* the storage groups, and the templates, among the resources
    Vol,              \* the identities of volumes, each of them used once
    Port,             \* adapter ports
    MaxRequests       \* bound: the volume requests, or ports, of one operation

Container == Group \cup Template

ASSUME StorageAssumption ==
    Container \subseteq Obj /\ Group \cap Template = {} /\ MaxRequests \in Nat \ {0}

VARIABLES
    vol,      \* the volumes
    volUris,  \* storage-volume-uris and storage-template-volume-uris of the HMC
    ports,    \* candidate-adapter-port-uris; {} when the group has no such property
    luris,    \* the lists of volume URIs in the clients' objects; {} when not pulled
    gone      \* history: the volumes that a client has deleted, since its last pull

storageVars == <<vol, volUris, ports, luris, gone>>

StorageTypeOK ==
    /\ vol \in [Vol -> [state : {"none", "live", "deleted"}, of : OneOf(Container)]]
    /\ volUris \in [Container -> SUBSET Vol]
    /\ \A g \in Group : Cardinality(ports[g]) <= 1 /\ \A s \in ports[g] : Range(s) \subseteq Port
    /\ luris \in [Client -> [Container -> OneOf(SUBSET Vol)]]
    /\ gone \in [Client -> SUBSET Vol]

\* Groups that are set up with the mock HMC may have candidate ports, others have none.
StorageInit ==
    /\ vol = [v \in Vol |-> [state |-> "none", of |-> {}]]
    /\ volUris = [g \in Container |-> {}]
    /\ ports = [g \in Group |-> IF Lives(g) THEN {<<>>} ELSE {}]
    /\ luris = [c \in Client |-> [g \in Container |-> IF Lives(g) THEN {{}} ELSE {}]]
    /\ gone = [c \in Client |-> {}]

NewVolumes   == {v \in Vol : vol[v].state = "none"}
VolumesOf(g) == {v \in Vol : vol[v].state = "live" /\ vol[v].of = {g}}

--------------------------------------------------------------------------------
(* The volume requests of one operation.  A state of their handling is a     *)
(* record of the volumes, the URIs of the group, and whether all has gone    *)
(* well so far.                                                              *)

Request == [op : {"create", "modify", "delete"}, v : Vol]
Body    == BoundedSeq(Request, MaxRequests)

Fail(s) == [s EXCEPT !.ok = FALSE]

\* FakedStorageVolumeManager.add()
AddVolume(s, g, v) ==
    [s EXCEPT !.vol[v] = [state |-> "live", of |-> {g}], !.uris = @ \cup {v}]

\* The manager has no remove() of its own: the URI stays in the list of the group.
RemoveVolume(s, v) == [s EXCEPT !.vol[v].state = "deleted"]

\* Modify: a volume that is not found ends the handling; so would an unknown operation.
Modified(s, g, r) ==
    CASE s.ok /\ r.op = "create" -> AddVolume(s, g, r.v)
      [] s.ok /\ r.op = "modify" /\ s.vol[r.v].state = "live" -> s
      [] s.ok /\ r.op = "delete" /\ s.vol[r.v].state = "live" -> RemoveVolume(s, r.v)
      [] OTHER -> Fail(s)

\* Create: volumes can only be created.
Created(s, g, r) == IF s.ok /\ r.op = "create" THEN AddVolume(s, g, r.v) ELSE Fail(s)

Untouched(g) == [vol |-> vol, uris |-> volUris[g], ok |-> TRUE]

\* One request after the other.
Handled(g, rs, creating) ==
    LET s[i \in 0..Len(rs)] == IF i = 0 THEN Untouched(g)
                               ELSE IF creating THEN Created(s[i - 1], g, rs[i])
                               ELSE Modified(s[i - 1], g, rs[i])
    IN  s[Len(rs)]

\* Requests create volumes with new identities, and name no volumes of other groups.
Requests(g) ==
    {rs \in Body :
        \A i \in DOMAIN rs :
            IF rs[i].op = "create"
               THEN /\ rs[i].v \in NewVolumes
                    /\ \A j \in 1..(i - 1) : rs[j].op = "create" => rs[j].v # rs[i].v
               ELSE vol[rs[i].v].of \subseteq {g}}

Take(s, g) ==
    /\ vol' = s.vol
    /\ volUris' = [volUris EXCEPT ![g] = s.uris]

--------------------------------------------------------------------------------
(* Storage groups and templates *)

HmcGroups    == {g \in Group : Lives(g)}
HmcTemplates == {g \in Template : Lives(g)}

\* Both Create handlers: the resource is added before its volumes; when one of these
\* fails, it remains.
HmcCreate(g, v, rs) == HmcAdd(g, v) /\ Take(Handled(g, rs, TRUE), g)

\* The client has no object for a resource whose creation has failed halfway.
CreateContainer(c, g) ==
    /\ Begin
    /\ \E v \in Val, rs \in Requests(g) :
          LET ok == Handled(g, rs, TRUE).ok
          IN  /\ HmcCreate(g, v, rs)
              /\ copies' = IF ok THEN [copies EXCEPT ![c][g] = [state |-> "live", val |-> {v}]]
                                 ELSE copies
              /\ Touches(c, g, ~ ok)
    /\ UNCHANGED <<ports, luris, gone>>

CreateGroup(c, g)    == g \in Group /\ CreateContainer(c, g)
CreateTemplate(c, g) == g \in Template /\ CreateContainer(c, g)

\* Faulty variant of ForgetUris: the client waits for its next pull.
KeepUris(c, g, vs) == UNCHANGED luris

\* A volume that its client deletes leaves the client's own list.  A volume template does
\* not: it looks for the list under the name that the property has in storage groups.
ForgetUris(c, g, vs) ==
    luris' = [luris EXCEPT ![c][g] = IF g \in Group THEN {us \ vs : us \in @} ELSE @]

\* Both Modify handlers: the properties, of which there may be none, are updated before
\* the volumes.
HmcModify(g, newVal, rs) ==
    /\ IF newVal = {} THEN UNCHANGED obj ELSE \E v \in newVal : HmcUpdate(g, v)
    /\ Take(Handled(g, rs, FALSE), g)

\* When the request fails halfway, the HMC has new properties that the client does not
\* know.  deleted: the volumes whose own delete() sends the request.
Modify(c, g, newVal, rs, deleted) ==
    LET ok   == Handled(g, rs, FALSE).ok
        done == IF ok THEN deleted ELSE {}
    IN  /\ HmcModify(g, newVal, rs)
        /\ IF newVal = {}
              THEN UNCHANGED <<copies, differs, overruled>>
              ELSE /\ copies' = IF ok THEN [copies EXCEPT ![c][g].val = newVal] ELSE copies
                   /\ Touches(c, g, ~ ok)
        /\ ForgetUris(c, g, done)
        /\ gone' = [gone EXCEPT ![c] = @ \cup done]
        /\ UNCHANGED ports

Calls(c, g) == Begin /\ Holds(c, g) /\ Lives(g)

UpdateGroup(c, g) ==
    /\ g \in Group /\ Calls(c, g)
    /\ \E rs \in Requests(g), v \in OneOf(Val) : Modify(c, g, v, rs, {})

UpdateTemplate(c, g) ==
    /\ g \in Template /\ Calls(c, g)
    /\ \E rs \in Requests(g), v \in OneOf(Val) : Modify(c, g, v, rs, {})

\* Volumes stay in the table of resources, but without a group no request reaches them.
HmcDeleteGroup(g)    == g \in HmcGroups /\ HmcRemove(g)
HmcDeleteTemplate(g) == g \in HmcTemplates /\ HmcRemove(g)

DeleteGroup(c, g)    == HmcDeleteGroup(g) /\ DeleteObj(c, g) /\ UNCHANGED storageVars
DeleteTemplate(c, g) == HmcDeleteTemplate(g) /\ DeleteObj(c, g) /\ UNCHANGED storageVars

\* pull_full_properties() of a group brings its list of volumes, too.
PullUris(c, o) ==
    IF o \in Container /\ Lives(o)
       THEN /\ luris' = [luris EXCEPT ![c][o] = {volUris[o]}]
            /\ gone' = [gone EXCEPT ![c] = {v \in @ : vol[v].of # {o}}]
            /\ UNCHANGED <<vol, volUris, ports>>
       ELSE UNCHANGED storageVars

\* A new object has no list until it is pulled.
ListUris(c, g, full) ==
    IF full
       THEN PullUris(c, g)
       ELSE /\ luris' = [luris EXCEPT ![c][g] = {}]
            /\ gone' = [gone EXCEPT ![c] = {v \in @ : vol[v].of # {g}}]
            /\ UNCHANGED <<vol, volUris, ports>>

ListGroups(c, g, full)    == g \in HmcGroups /\ ListObj(c, g, full) /\ ListUris(c, g, full)
ListTemplates(c, g, full) == g \in HmcTemplates /\ ListObj(c, g, full) /\ ListUris(c, g, full)

--------------------------------------------------------------------------------
(* Volumes, through their own objects *)

Single(op, v) == <<[op |-> op, v |-> v]>>

CreateVolume(c, g) ==
    /\ g \in Group /\ Calls(c, g)
    /\ \E v \in NewVolumes : Modify(c, g, {}, Single("create", v), {})

UpdateVolume(c, g) ==
    /\ g \in Group /\ Calls(c, g)
    /\ \E v \in VolumesOf(g) : Modify(c, g, {}, Single("modify", v), {})

DeleteVolume(c, g) ==
    /\ g \in Group /\ Calls(c, g)
    /\ \E v \in VolumesOf(g) : Modify(c, g, {}, Single("delete", v), {v})

CreateVolumeTemplate(c, g) ==
    /\ g \in Template /\ Calls(c, g)
    /\ \E v \in NewVolumes : Modify(c, g, {}, Single("create", v), {})

UpdateVolumeTemplate(c, g) ==
    /\ g \in Template /\ Calls(c, g)
    /\ \E v \in VolumesOf(g) : Modify(c, g, {}, Single("modify", v), {})

DeleteVolumeTemplate(c, g) ==
    /\ g \in Template /\ Calls(c, g)
    /\ \E v \in VolumesOf(g) : Modify(c, g, {}, Single("delete", v), {v})

--------------------------------------------------------------------------------
(* Candidate adapter ports *)

PortList == BoundedSeq(Port, MaxRequests)

\* The ports are appended one by one, up to the first that is there already.
Appended(s, ps) ==
    LET t[i \in 0..Len(ps)] == IF i = 0 THEN [seq |-> s, ok |-> TRUE]
                               ELSE IF ~ t[i - 1].ok \/ ps[i] \in Range(t[i - 1].seq)
                                       THEN Fail(t[i - 1])
                                       ELSE [t[i - 1] EXCEPT !.seq = Append(@, ps[i])]
    IN  t[Len(ps)].seq

HmcAddCandidatePorts(g, ps) ==
    /\ g \in HmcGroups
    /\ \E s \in ports[g] : ports' = [ports EXCEPT ![g] = {Appended(s, ps)}]

AddCandidatePorts(c, g) ==
    /\ UseObj(c, g)
    /\ \E ps \in PortList : HmcAddCandidatePorts(g, ps)
    /\ UNCHANGED <<vol, volUris, luris, gone>>

\* The ports are removed one by one, up to the first that is not there.
Removed(s, ps) ==
    LET t[i \in 0..Len(ps)] == IF i = 0 THEN [seq |-> s, ok |-> TRUE]
                               ELSE IF ~ t[i - 1].ok \/ ps[i] \notin Range(t[i - 1].seq)
                                       THEN Fail(t[i - 1])
                                       ELSE [t[i - 1] EXCEPT !.seq = RemoveFirst(@, ps[i])]
    IN  t[Len(ps)].seq

HmcRemoveCandidatePorts(g, ps) ==
    /\ g \in HmcGroups
    /\ \E s \in ports[g] : ports' = [ports EXCEPT ![g] = {Removed(s, ps)}]

RemoveCandidatePorts(c, g) ==
    /\ UseObj(c, g)
    /\ \E ps \in PortList : HmcRemoveCandidatePorts(g, ps)
    /\ UNCHANGED <<vol, volUris, luris, gone>>

--------------------------------------------------------------------------------
StorageStep(c, g) ==
    /\ g \in Container
    /\ \/ CreateGroup(c, g) \/ UpdateGroup(c, g) \/ DeleteGroup(c, g)
       \/ CreateTemplate(c, g) \/ UpdateTemplate(c, g) \/ DeleteTemplate(c, g)
       \/ CreateVolume(c, g) \/ UpdateVolume(c, g) \/ DeleteVolume(c, g)
       \/ CreateVolumeTemplate(c, g) \/ UpdateVolumeTemplate(c, g) \/ DeleteVolumeTemplate(c, g)
       \/ AddCandidatePorts(c, g) \/ RemoveCandidatePorts(c, g)
       \/ \E full \in BOOLEAN : ListGroups(c, g, full) \/ ListTemplates(c, g, full)

(* Properties *)

\* Also after requests that have failed halfway: a group or template lists each of its
\* volumes and none of another one, and the candidate ports of a group are distinct.
StorageConsistent ==
    /\ \A g \in Container : VolumesOf(g) \subseteq volUris[g] /\ \A v \in volUris[g] : vol[v].of = {g}
    /\ \A g \in Group : \A s \in ports[g] : IsInjective(s)

\* A volume that a client has deleted is not in the list of the client's own group object,
\* until the client pulls the group again.  Of volume templates this is not so, and is not
\* claimed: see ForgetUris.
VolumesFollowOwnDelete ==
    \A c \in Client : \A v \in gone[c], g \in Group :
        vol[v].of = {g} => \A us \in luris[c][g] : v \notin us
================================================================================
