------------------------------ MODULE DpmDevices ------------------------------
(***************************************************************************)
(* The NICs, HBAs and virtual functions of a partition in DPM mode         *)
(* (zhmcclient/_nic.py, _hba.py, _virtual_function.py), with the adapters, *)
(* ports and virtual switches behind them, composed with their handlers    *)
(* and with the objects of the mock HMC (zhmcclient/mock/_urihandler.py,   *)
(* _hmc.py, _idpool.py).                                                   *)
(*                                                                         *)
(* The HMC keeps each element twice, as an object and in a list of URIs of *)
(* the partition, and a NIC a third time, in its virtual switch.  Each     *)
(* client has a Partition object of its own, whose lists of URIs are those *)
(* of its latest pull; the managers of the elements list from them.  A     *)
(* request is handled atomically, and so is a method that sends only one.  *)
(***************************************************************************)
EXTENDS ClientCalls, Naturals, FiniteSets

CONSTANTS
    Elem,       \* the identities of elements, each of them used once
    Adapter,    \* the hipersockets adapters that can be created, with a port and a switch each
    Pool,       \* the range of device numbers that the mock HMC assigns
    UserDevno   \* the device numbers that users choose

\* The pool is not exhausted.
ASSUME DeviceAssumption == Cardinality(Elem) <= Cardinality(Pool)

VARIABLES
    host,       \* whether CPC and partition admit changes: "ready", "busy", "deleted"
    adapter,    \* each adapter: "none", "live", "deleted"; switch and port outlive it
    elem,       \* the elements
    uris,       \* nic-uris, hba-uris and virtual-function-uris of the partition
    connected,  \* connected-vnic-uris of each virtual switch
    used,       \* the numbers allocated from the pool
    loc,        \* the URIs in the Partition object of each client
    mixed       \* history: a user has chosen a device number from the range of the pool

hmcVars == <<adapter, elem, uris, connected, used, mixed>>
vars    == <<host, hmcVars, loc, calls>>

Kind == {"nic", "hba", "vf"}
Devno == Pool \cup UserDevno

\* half: in the tables of the HMC but not in nic-uris, with a device number only if users
\* have chosen one.
\* deleter, history: the client that has deleted it.
NoElem == [state |-> "none", kind |-> "none", dev |-> {}, switch |-> {}, deleter |-> {}]

\* loc: "pulled" is FALSE as long as the full properties have not been pulled.
TypeOK ==
    /\ host \in {"ready", "busy", "deleted"}
    /\ adapter \in [Adapter -> {"none", "live", "deleted"}]
    /\ elem \in [Elem -> [state : {"none", "live", "half", "deleted"}, kind : Kind \cup {"none"},
                          dev : OneOf(Devno), switch : OneOf(Adapter),
                          deleter : OneOf(Client)]]
    /\ \A e \in Elem : elem[e].state # "half" => (elem[e].state = "live") = (elem[e].dev # {})
    /\ uris \in [Kind -> SUBSET Elem]
    /\ connected \in [Adapter -> SUBSET Elem]
    /\ used \subseteq Pool
    /\ loc \in [Client -> [pulled : BOOLEAN, uris : [Kind -> SUBSET Elem]]]
    /\ mixed \in BOOLEAN
    /\ calls \in 0..MaxCalls

Live(k) == {e \in Elem : elem[e].state = "live" /\ elem[e].kind = k}

Init ==
    /\ host = "ready"
    /\ adapter = [a \in Adapter |-> "none"]
    /\ elem = [e \in Elem |-> NoElem]
    /\ uris = [k \in Kind |-> {}]
    /\ connected = [a \in Adapter |-> {}]
    /\ used = {}
    /\ loc = [c \in Client |-> [pulled |-> FALSE, uris |-> [k \in Kind |-> {}]]]
    /\ mixed = FALSE
    /\ calls = 0

--------------------------------------------------------------------------------
(* IdPool, and the device numbers of the partition *)

\* Faulty variant of Alloc: the number remains free.
AllocForgets(dev) == dev \in Pool \ used /\ UNCHANGED used

\* devno_alloc(): any number that is free; free numbers are materialized as needed.
Alloc(dev) == dev \in Pool \ used /\ used' = used \cup {dev}

\* devno_free_if_allocated(): a number chosen by a user is not in the pool, unless it
\* happens to be allocated.
FreeIfAllocated(dev) == used' = used \ dev

--------------------------------------------------------------------------------
(* Adapters, ports and virtual switches *)

\* create_hipersocket() adds the adapter, a virtual switch and a port.
AdaptersPost(a) ==
    /\ adapter[a] = "none"
    /\ adapter' = [adapter EXCEPT ![a] = "live"]
    /\ UNCHANGED <<host, elem, uris, connected, used, loc, mixed>>

\* The switch and the port remain, with the elements that they back.
AdapterDelete(a) ==
    /\ adapter[a] = "live"
    /\ adapter' = [adapter EXCEPT ![a] = "deleted"]
    /\ UNCHANGED <<host, elem, uris, connected, used, loc, mixed>>

CreateHipersocket(a) == Begin /\ AdaptersPost(a)
DeleteAdapter(a)     == Begin /\ AdapterDelete(a)

\* The request for a NIC names a port, whose adapter must exist, or a switch.
PortExists(a)   == adapter[a] = "live"
SwitchExists(a) == adapter[a] # "none"

--------------------------------------------------------------------------------
(* The handlers that create, update and delete elements *)

\* The element gets the number that the request chooses, or one from the pool; the
\* client's own lists of URIs are not changed.
AddElem(e, k, switch) ==
    /\ \E dev \in Devno :
          /\ \/ Alloc(dev) /\ UNCHANGED mixed
             \/ UNCHANGED used /\ mixed' = (mixed \/ dev \in Pool)
          /\ elem' = [elem EXCEPT ![e] = [NoElem EXCEPT !.state = "live", !.kind = k,
                                                      !.dev = {dev}, !.switch = switch]]
    /\ uris' = [uris EXCEPT ![k] = @ \cup {e}]
    /\ connected' = [a \in Adapter |-> IF a \in switch THEN connected[a] \cup {e} ELSE connected[a]]
    /\ UNCHANGED <<host, adapter, loc>>

\* nics.add(): InputError when the NIC is in the tables already, with the properties of the
\* request, and its switch does not exist.
AddNic(e, switch) ==
    IF \A a \in switch : SwitchExists(a)
       THEN AddElem(e, "nic", switch)
       ELSE /\ \E dev \in OneOf(Devno) :
                  /\ elem' = [elem EXCEPT ![e] = [NoElem EXCEPT !.state = "half", !.kind = "nic",
                                                              !.dev = dev, !.switch = switch]]
                  /\ mixed' = (mixed \/ dev \cap Pool # {})
            /\ UNCHANGED <<host, adapter, uris, connected, used, loc>>

AddHba(e) == AddElem(e, "hba", {})
AddVf(e)  == AddElem(e, "vf", {})

\* A rejected request changes nothing, and is left out.
Accepts(e) == host = "ready" /\ elem[e].state = "none"

\* A port or a switch is given, or both, of which only the port is checked.
NicsPost(e, port, switch) ==
    /\ Accepts(e)
    /\ \/ port # {} /\ \A a \in port : PortExists(a)
       \/ port = {} /\ switch # {} /\ \A a \in switch : SwitchExists(a)
    /\ AddNic(e, switch)

HbasPost(e) == Accepts(e) /\ AddHba(e)
VfsPost(e)  == Accepts(e) /\ AddVf(e)

CreateNic(e) == Begin /\ \E port, switch \in OneOf(Adapter) : NicsPost(e, port, switch)
CreateHba(e) == Begin /\ HbasPost(e)
CreateVf(e)  == Begin /\ VfsPost(e)

\* A request changes the device number of an element.  The pool is not told: the old
\* number stays allocated, the new one is not allocated.
SetDevno(e, k) ==
    /\ elem[e].state \in {"live", "half"} /\ elem[e].kind = k
    /\ \E dev \in Devno :
          /\ elem' = [elem EXCEPT ![e].dev = {dev}]
          /\ mixed' = (mixed \/ dev \in Pool)
    /\ UNCHANGED <<host, adapter, uris, connected, used, loc>>

\* Only the handler of NICs looks at CPC and partition; NICs of a deleted partition, and
\* those that are half created, are still found.
NicPost(e) == host # "busy" /\ SetDevno(e, "nic")

UpdateNic(e) == Begin /\ NicPost(e)
UpdateHba(e) == Begin /\ SetDevno(e, "hba")
UpdateVf(e)  == Begin /\ SetDevno(e, "vf")

\* The new port of an HBA is not checked.
HbaReassignPort(e) ==
    /\ host = "ready" /\ elem[e].state = "live" /\ elem[e].kind = "hba"
    /\ UNCHANGED <<host, hmcVars, loc>>

ReassignPort(e) == Begin /\ HbaReassignPort(e)

\* Faulty variant of RemoveElem: the partition keeps the URI.
RemoveObject(c, e) ==
    /\ FreeIfAllocated(elem[e].dev)
    /\ elem' = [elem EXCEPT ![e].state = "deleted", ![e].dev = {}, ![e].deleter = {c}]
    /\ UNCHANGED <<host, adapter, uris, connected, mixed>>

\* Faulty variant of RemoveElem: the element keeps its device number.
RemoveKeepsDevno(c, e) ==
    /\ elem' = [elem EXCEPT ![e].state = "deleted", ![e].deleter = {c}]
    /\ uris' = [uris EXCEPT ![elem[e].kind] = @ \ {e}]
    /\ UNCHANGED <<host, adapter, connected, used, mixed>>

\* The element leaves its tables and its partition, but not connected-vnic-uris.
RemoveElem(c, e) ==
    /\ FreeIfAllocated(elem[e].dev)
    /\ elem' = [elem EXCEPT ![e].state = "deleted", ![e].dev = {}, ![e].deleter = {c}]
    /\ uris' = [uris EXCEPT ![elem[e].kind] = @ \ {e}]
    /\ UNCHANGED <<host, adapter, connected, mixed>>

\* Faulty variant of ForgetUri: the client waits for its next pull.
KeepUri(c, e) == UNCHANGED loc

\* The client takes the URI of the element that it deletes out of its own lists.
ForgetUri(c, e) == loc' = [loc EXCEPT ![c].uris = [k \in Kind |-> @[k] \ {e}]]

\* The handlers: elements of a deleted partition are still found.
Deletable(e, k) == host # "busy" /\ elem[e].state = "live" /\ elem[e].kind = k

NicDelete(c, e) == Deletable(e, "nic") /\ RemoveElem(c, e)
HbaDelete(c, e) == Deletable(e, "hba") /\ RemoveElem(c, e)
VfDelete(c, e)  == Deletable(e, "vf") /\ RemoveElem(c, e)

DeleteNic(c, e) == Begin /\ NicDelete(c, e) /\ ForgetUri(c, e)
DeleteHba(c, e) == Begin /\ HbaDelete(c, e) /\ ForgetUri(c, e)
DeleteVf(c, e)  == Begin /\ VfDelete(c, e) /\ ForgetUri(c, e)

\* ValueError: a NIC that is half created cannot be deleted; only its number is freed.
DeleteHalf(e) ==
    /\ Begin /\ host # "busy"
    /\ elem[e].state = "half"
    /\ FreeIfAllocated(elem[e].dev)
    /\ UNCHANGED <<host, adapter, elem, uris, connected, mixed, loc>>

--------------------------------------------------------------------------------
(* The lists of the clients *)

\* pull_full_properties() of the partition.  The lists are copies, as those of an HMC that
\* is reached over the network; FakedSession answers with the mock HMC's own lists.
PullPartition(c) ==
    /\ Begin
    /\ host # "deleted"
    /\ loc' = [loc EXCEPT ![c] = [pulled |-> TRUE, uris |-> uris]]
    /\ UNCHANGED <<host, hmcVars>>

\* list(): get_property() pulls the partition when it does not have the list yet.
Listed(c, k) == IF loc[c].pulled THEN loc[c].uris[k] ELSE uris[k]

ListElems(c, k) ==
    /\ Begin
    /\ loc[c].pulled \/ host # "deleted"
    /\ loc' = IF loc[c].pulled THEN loc ELSE [loc EXCEPT ![c] = [pulled |-> TRUE, uris |-> uris]]
    /\ UNCHANGED <<host, hmcVars>>

\* get_connected_nics() of a switch: one object for each URI, without a look at the HMC.
ConnectedNics(c, a) ==
    /\ Begin
    /\ SwitchExists(a)
    /\ UNCHANGED <<host, hmcVars, loc>>

--------------------------------------------------------------------------------
\* The CPC or the partition gets a status that admits no changes, and back; or the
\* partition is deleted.  The handlers of DpmPartitions.
HostChanges ==
    /\ host # "deleted"
    /\ host' \in {"ready", "busy", "deleted"} \ {host}
    /\ UNCHANGED <<hmcVars, loc, calls>>

AdapterOperation(c) ==
    \E a \in Adapter :
        \/ CreateHipersocket(a) \/ DeleteAdapter(a) \/ ConnectedNics(c, a)

ElemOperation(c, e) ==
    \/ CreateNic(e) \/ CreateHba(e) \/ CreateVf(e)
    \/ UpdateNic(e) \/ UpdateHba(e) \/ UpdateVf(e) \/ ReassignPort(e)
    \/ DeleteNic(c, e) \/ DeleteHba(c, e) \/ DeleteVf(c, e) \/ DeleteHalf(e)

Next ==
    \/ \E c \in Client :
          \/ AdapterOperation(c) \/ PullPartition(c)
          \/ \E k \in Kind : ListElems(c, k)
          \/ \E e \in Elem : ElemOperation(c, e)
    \/ HostChanges

Spec == Init /\ [][Next]_vars

--------------------------------------------------------------------------------
(* Properties *)

\* The relations that the HMC keeps twice agree: the partition lists exactly its live
\* elements, and a virtual switch knows its live NICs and none of another switch.
RelationsAgree ==
    /\ \A k \in Kind : uris[k] = Live(k)
    /\ \A a \in Adapter :
          /\ {e \in Live("nic") : elem[e].switch = {a}} \subseteq connected[a]
          /\ \A e \in connected[a] : elem[e].switch = {a}

\* A number that the mock HMC has assigned is not the number of a second element, as
\* long as no user chooses one from the range of the pool (mock/_hmc.py:2880 asks users
\* not to mix both).
DevnosDistinct ==
    mixed \/ \A e, f \in Elem : e # f /\ elem[e].dev = elem[f].dev => elem[e].dev \cap Pool = {}

\* After a client has deleted an element, its own managers never list it again, also when
\* it deletes it between two lists and other clients create and delete elements.
OwnDeletesFollow ==
    \A c \in Client, e \in Elem, k \in Kind :
        loc[c].pulled /\ elem[e].deleter = {c} => e \notin Listed(c, k)
================================================================================
