--------------------------- MODULE MockHmc_proofs ---------------------------
(***************************************************************************)
(* Proofs about the modules whose handlers are those of the mock HMC, for  *)
(* any clients and any number of calls: about DpmDevices, for any elements,*)
(* adapters and device numbers; about DpmPartitions, for any partitions    *)
(* and domains; and about ConsoleInventory, for any resources of each      *)
(* class, volumes, ports, capacity groups, targets and requests.           *)
(***************************************************************************)
EXTENDS DpmDevices, DpmPartitions, ConsoleInventory, FiniteSetTheorems, SequenceTheorems, TLAPS

USE DeviceAssumption, CallsAssumption DEF DeviceAssumption, CallsAssumption

ElemType == [state : {"none", "live", "half", "deleted"}, kind : Kind \cup {"none"},
             dev : OneOf(Devno), switch : OneOf(Adapter), deleter : OneOf(Client)]

LocType == [pulled : BOOLEAN, uris : [Kind -> SUBSET Elem]]

ElemsOK ==
    /\ elem \in [Elem -> ElemType]
    /\ \A e \in Elem : elem[e].state # "half" => (elem[e].state = "live") = (elem[e].dev # {})

--------------------------------------------------------------------------------
(* What the handlers do with an element *)

LEMMA NoElemType ==
  /\ NoElem \in ElemType /\ NoElem.state = "none" /\ NoElem.kind = "none"
  /\ NoElem.dev = {} /\ NoElem.switch = {} /\ NoElem.deleter = {}
BY DEF NoElem, ElemType, OneOf

LEMMA DevnoChanged ==
  ASSUME ElemsOK, NEW e \in Elem, NEW k \in Kind, SetDevno(e, k)
  PROVE  \E dev \in Devno :
           /\ elem' \in [Elem -> ElemType]
           /\ elem'[e].dev = {dev} /\ elem'[e].state = elem[e].state
           /\ elem'[e].kind = elem[e].kind /\ elem'[e].switch = elem[e].switch
           /\ elem'[e].deleter = elem[e].deleter
           /\ \A f \in Elem \ {e} : elem'[f] = elem[f]
           /\ mixed' = (mixed \/ dev \in Pool)
<1>1. PICK dev \in Devno : /\ elem' = [elem EXCEPT ![e].dev = {dev}]
                           /\ mixed' = (mixed \/ dev \in Pool)
  BY DEF SetDevno
<1> DEFINE x == [elem[e] EXCEPT !.dev = {dev}]
<1>2. elem' = [elem EXCEPT ![e] = x]
  BY <1>1
<1>3. /\ x \in ElemType /\ x.dev = {dev} /\ x.state = elem[e].state /\ x.kind = elem[e].kind
      /\ x.switch = elem[e].switch /\ x.deleter = elem[e].deleter
  BY DEF ElemsOK, ElemType, OneOf
<1> QED
  BY <1>1, <1>2, <1>3 DEF ElemsOK

LEMMA ElemRemoved ==
  ASSUME ElemsOK, NEW c \in Client, NEW e \in Elem, RemoveElem(c, e)
  PROVE  /\ elem' \in [Elem -> ElemType]
         /\ elem'[e].dev = {} /\ elem'[e].state = "deleted"
         /\ elem'[e].kind = elem[e].kind /\ elem'[e].switch = elem[e].switch
         /\ elem'[e].deleter = {c}
         /\ \A f \in Elem \ {e} : elem'[f] = elem[f]
<1> DEFINE x == [elem[e] EXCEPT !.state = "deleted", !.dev = {}, !.deleter = {c}]
<1>1. elem' = [elem EXCEPT ![e] = x]
  BY DEF RemoveElem
<1>2. /\ x \in ElemType /\ x.dev = {} /\ x.state = "deleted" /\ x.kind = elem[e].kind
      /\ x.switch = elem[e].switch /\ x.deleter = {c}
  BY DEF ElemsOK, ElemType, OneOf
<1> QED
  BY <1>1, <1>2 DEF ElemsOK

\* What AddElem() does, whichever way the device number is found.
LEMMA ElemAdded ==
  ASSUME ElemsOK, NEW e \in Elem, NEW k \in Kind, NEW switch \in OneOf(Adapter),
         AddElem(e, k, switch)
  PROVE  \E dev \in Devno :
           /\ elem' \in [Elem -> ElemType]
           /\ elem'[e].dev = {dev} /\ elem'[e].state = "live"
           /\ elem'[e].kind = k /\ elem'[e].switch = switch /\ elem'[e].deleter = {}
           /\ \A f \in Elem \ {e} : elem'[f] = elem[f]
           /\ \/ dev \in Pool \ used /\ used' = used \cup {dev} /\ mixed' = mixed
              \/ used' = used /\ mixed' = (mixed \/ dev \in Pool)
<1> DEFINE x(dev) == [NoElem EXCEPT !.state = "live", !.kind = k, !.dev = {dev},
                                    !.switch = switch]
<1>1. PICK dev \in Devno : /\ \/ Alloc(dev) /\ UNCHANGED mixed
                              \/ UNCHANGED used /\ mixed' = (mixed \/ dev \in Pool)
                           /\ elem' = [elem EXCEPT ![e] = x(dev)]
  BY DEF AddElem
<1>2. /\ x(dev) \in ElemType /\ x(dev).state = "live" /\ x(dev).kind = k /\ x(dev).dev = {dev}
      /\ x(dev).switch = switch /\ x(dev).deleter = {}
  BY DEF NoElem, ElemType, OneOf
<1> HIDE DEF x
<1> QED
  BY <1>1, <1>2 DEF ElemsOK, Alloc

\* A NIC of a switch that does not exist is half created, with a number only if users choose it.
LEMMA NicHalfAdded ==
  ASSUME ElemsOK, NEW e \in Elem, NEW switch \in OneOf(Adapter),
         AddNic(e, switch), ~AddElem(e, "nic", switch)
  PROVE  \E dev \in OneOf(Devno) :
           /\ elem' \in [Elem -> ElemType]
           /\ elem'[e].dev = dev /\ elem'[e].state = "half" /\ elem'[e].deleter = {}
           /\ \A f \in Elem \ {e} : elem'[f] = elem[f]
           /\ mixed' = (mixed \/ dev \cap Pool # {})
           /\ UNCHANGED <<host, adapter, uris, connected, used, loc>>
<1> DEFINE x(dev) == [NoElem EXCEPT !.state = "half", !.kind = "nic", !.dev = dev,
                                    !.switch = switch]
<1>1. PICK dev \in OneOf(Devno) :
         /\ elem' = [elem EXCEPT ![e] = x(dev)]
         /\ mixed' = (mixed \/ dev \cap Pool # {})
         /\ UNCHANGED <<host, adapter, uris, connected, used, loc>>
  BY DEF AddNic
<1>2. x(dev) \in ElemType /\ x(dev).state = "half" /\ x(dev).dev = dev /\ x(dev).deleter = {}
  BY DEF NoElem, ElemType, OneOf, Kind
<1> HIDE DEF x
<1> QED
  BY <1>1, <1>2 DEF ElemsOK

--------------------------------------------------------------------------------
(* The operations, by what they do *)

Adds(e)       == elem[e].state = "none" /\ \E k \in Kind, s \in OneOf(Adapter) : AddElem(e, k, s)
HalfAdds(e)   == /\ elem[e].state = "none"
                 /\ \E s \in OneOf(Adapter) : AddNic(e, s) /\ ~AddElem(e, "nic", s)
Renumbers(e)  == \E k \in Kind : SetDevno(e, k)
Removes(c, e) == elem[e].state = "live" /\ RemoveElem(c, e) /\ ForgetUri(c, e)
FreesHalf(e)  == /\ elem[e].state = "half" /\ FreeIfAllocated(elem[e].dev)
                 /\ UNCHANGED <<host, adapter, elem, uris, connected, mixed, loc>>
Pulls(c)      == /\ loc' = [loc EXCEPT ![c] = [pulled |-> TRUE, uris |-> uris]]
                 /\ UNCHANGED <<host, hmcVars>>
Leaves        == UNCHANGED <<elem, uris, connected, used, mixed, loc>>

LEMMA StepKinds ==
  ASSUME TypeOK, Next
  PROVE  \/ \E c \in Client, e \in Elem :
               Begin /\ (Adds(e) \/ HalfAdds(e) \/ Renumbers(e) \/ Removes(c, e) \/ FreesHalf(e))
         \/ \E c \in Client : Begin /\ Pulls(c)
         \/ Begin /\ Leaves /\ host' = host
                  /\ (adapter' = adapter
                        \/ \E a \in Adapter, s \in {"live", "deleted"} :
                              adapter' = [adapter EXCEPT ![a] = s])
         \/ HostChanges
<1> DEFINE Goal == \/ \E c \in Client, e \in Elem :
                        Begin /\ (Adds(e) \/ HalfAdds(e) \/ Renumbers(e) \/ Removes(c, e)
                                     \/ FreesHalf(e))
                   \/ \E c \in Client : Begin /\ Pulls(c)
                   \/ Begin /\ Leaves /\ host' = host
                        /\ (adapter' = adapter
                              \/ \E a \in Adapter, s \in {"live", "deleted"} :
                                    adapter' = [adapter EXCEPT ![a] = s])
<1>1. ASSUME NEW c \in Client, AdapterOperation(c)  PROVE Goal
  BY <1>1 DEF AdapterOperation, CreateHipersocket, DeleteAdapter, ConnectedNics, AdaptersPost,
              AdapterDelete, Leaves, hmcVars
<1>2. ASSUME NEW c \in Client, PullPartition(c) \/ \E k \in Kind : ListElems(c, k)  PROVE Goal
  BY <1>2 DEF PullPartition, ListElems, Pulls, Leaves, hmcVars
<1>3. ASSUME NEW c \in Client, NEW e \in Elem, ElemOperation(c, e)  PROVE Goal
  <2>1. {} \in OneOf(Adapter) /\ {"nic", "hba", "vf"} = Kind
    BY DEF OneOf, Kind
  <2>2. CASE CreateNic(e)
    BY <2>1, <2>2 DEF CreateNic, NicsPost, Accepts, Adds, HalfAdds
  <2>3. CASE CreateHba(e) \/ CreateVf(e)
    BY <2>1, <2>3 DEF CreateHba, CreateVf, HbasPost, VfsPost, AddHba, AddVf, Accepts, Adds
  <2>4. CASE UpdateNic(e) \/ UpdateHba(e) \/ UpdateVf(e)
    BY <2>1, <2>4 DEF UpdateNic, UpdateHba, UpdateVf, NicPost, Renumbers
  <2>5. CASE ReassignPort(e) \/ DeleteHalf(e)
    BY <2>5 DEF ReassignPort, HbaReassignPort, DeleteHalf, FreesHalf, Leaves, hmcVars
  <2>6. CASE DeleteNic(c, e) \/ DeleteHba(c, e) \/ DeleteVf(c, e)
    BY <2>6 DEF DeleteNic, DeleteHba, DeleteVf, NicDelete, HbaDelete, VfDelete, Deletable, Removes
  <2> HIDE DEF Goal
  <2> QED
    BY <1>3, <2>2, <2>3, <2>4, <2>5, <2>6 DEF ElemOperation
<1> QED
  BY <1>1, <1>2, <1>3 DEF Next

--------------------------------------------------------------------------------
(* Types *)

\* Every variable has its type, and exactly the live elements have a device number, besides
\* NICs that are half created.
THEOREM TypeCorrect == Spec => []TypeOK
<1>1. Init => TypeOK
  <2> SUFFICES ASSUME Init  PROVE TypeOK
    OBVIOUS
  <2>1. elem \in [Elem -> ElemType]
    BY NoElemType DEF Init
  <2>2. \A e \in Elem : elem[e].state = "none" /\ elem[e].dev = {}
    BY NoElemType DEF Init
  <2>3. loc \in [Client -> LocType]
    BY DEF Init, LocType
  <2> QED
    <3>1. calls \in 0..MaxCalls
      BY DEF Init
    <3>2. mixed \in BOOLEAN /\ host \in {"ready", "busy", "deleted"}
      BY DEF Init
    <3>3. \A e \in Elem : elem[e].state # "half" => (elem[e].state = "live") = (elem[e].dev # {})
      BY <2>2
    <3> QED
      BY <2>1, <2>3, <3>1, <3>2, <3>3 DEF Init, TypeOK, ElemType, LocType
<1>2. TypeOK /\ [Next]_vars => TypeOK'
  <2> SUFFICES ASSUME TypeOK, [Next]_vars  PROVE TypeOK'
    OBVIOUS
  <2>0. ElemsOK /\ loc \in [Client -> LocType] /\ uris \in [Kind -> SUBSET Elem]
    BY DEF TypeOK, ElemsOK, ElemType, LocType
  <2> DEFINE Rest == /\ host \in {"ready", "busy", "deleted"}
                     /\ adapter \in [Adapter -> {"none", "live", "deleted"}]
                     /\ uris \in [Kind -> SUBSET Elem]
                     /\ connected \in [Adapter -> SUBSET Elem]
                     /\ used \subseteq Pool
                     /\ mixed \in BOOLEAN
  <2>1. ASSUME NEW e \in Elem, Adds(e)  PROVE ElemsOK' /\ Rest' /\ loc' = loc
    <3>1. PICK k \in Kind, s \in OneOf(Adapter) : AddElem(e, k, s)
      BY <2>1 DEF Adds
    <3>2. ElemsOK' /\ used' \subseteq Pool /\ mixed' \in BOOLEAN
      <4>1. PICK dev \in Devno :
               /\ elem' \in [Elem -> ElemType] /\ elem'[e].dev = {dev} /\ elem'[e].state = "live"
               /\ \A f \in Elem \ {e} : elem'[f] = elem[f]
               /\ \/ dev \in Pool \ used /\ used' = used \cup {dev} /\ mixed' = mixed
                  \/ used' = used /\ mixed' = (mixed \/ dev \in Pool)
        BY <2>0, <3>1, ElemAdded
      <4>2. used' \subseteq Pool
        BY <4>1 DEF TypeOK
      <4>3. mixed' \in BOOLEAN
        BY <4>1 DEF TypeOK
      <4>4. ElemsOK'
        BY <2>0, <4>1 DEF ElemsOK
      <4> QED
        BY <4>2, <4>3, <4>4
    <3>3. uris' \in [Kind -> SUBSET Elem] /\ connected' \in [Adapter -> SUBSET Elem]
      BY <3>1 DEF AddElem, TypeOK
    <3> QED
      BY <3>1, <3>2, <3>3 DEF AddElem, TypeOK
  <2>2. ASSUME NEW e \in Elem, HalfAdds(e)  PROVE ElemsOK' /\ Rest' /\ loc' = loc
    <3>1. PICK s \in OneOf(Adapter) : AddNic(e, s) /\ ~AddElem(e, "nic", s)
      BY <2>2 DEF HalfAdds
    <3>2. PICK dev \in OneOf(Devno) :
             /\ elem' \in [Elem -> ElemType] /\ elem'[e].state = "half"
             /\ \A f \in Elem \ {e} : elem'[f] = elem[f]
             /\ mixed' = (mixed \/ dev \cap Pool # {})
             /\ UNCHANGED <<host, adapter, uris, connected, used, loc>>
      BY <2>0, <3>1, NicHalfAdded
    <3>3. ElemsOK'
      BY <2>0, <3>2 DEF ElemsOK
    <3> QED
      BY <2>0, <3>2, <3>3 DEF TypeOK
  <2>3. ASSUME NEW e \in Elem, Renumbers(e)  PROVE ElemsOK' /\ Rest' /\ loc' = loc
    <3>1. PICK k \in Kind : SetDevno(e, k)
      BY <2>3 DEF Renumbers
    <3>2. ElemsOK' /\ mixed' \in BOOLEAN
      <4>1. PICK dev \in Devno :
               /\ elem' \in [Elem -> ElemType] /\ elem'[e].dev = {dev}
               /\ elem'[e].state = elem[e].state
               /\ \A f \in Elem \ {e} : elem'[f] = elem[f]
               /\ mixed' = (mixed \/ dev \in Pool)
        BY <2>0, <3>1, DevnoChanged
      <4>2. elem[e].state \in {"live", "half"}
        BY <3>1 DEF SetDevno
      <4>3. ElemsOK'
        BY <2>0, <4>1, <4>2 DEF ElemsOK
      <4> QED
        BY <4>1, <4>3 DEF TypeOK
    <3> QED
      BY <3>1, <3>2 DEF SetDevno, TypeOK
  <2>4. ASSUME NEW c \in Client, NEW e \in Elem, Removes(c, e)
        PROVE  ElemsOK' /\ Rest' /\ (loc \in [Client -> LocType])'
    <3>1. ElemsOK'
      BY <2>0, <2>4, ElemRemoved DEF ElemsOK, Removes
    <3>2. uris' \in [Kind -> SUBSET Elem] /\ used' \subseteq Pool
      BY <2>4 DEF Removes, RemoveElem, FreeIfAllocated, TypeOK
    <3>3. (loc \in [Client -> LocType])'
      <4> DEFINE u == [k \in Kind |-> loc[c].uris[k] \ {e}]
                 x == [loc[c] EXCEPT !.uris = u]
      <4>1. u \in [Kind -> SUBSET Elem]
        BY <2>0 DEF LocType
      <4>2. x \in LocType
        BY <2>0, <4>1 DEF LocType
      <4>3. loc' = [loc EXCEPT ![c] = x]
        BY <2>4 DEF Removes, ForgetUri
      <4> QED
        BY <2>0, <4>2, <4>3
    <3> QED
      BY <2>4, <3>1, <3>2, <3>3 DEF Removes, RemoveElem, TypeOK
  <2>12. ASSUME NEW e \in Elem, FreesHalf(e)  PROVE ElemsOK' /\ Rest' /\ loc' = loc
    BY <2>0, <2>12 DEF FreesHalf, FreeIfAllocated, ElemsOK, TypeOK
  <2>5. ASSUME NEW c \in Client, Pulls(c)
        PROVE  ElemsOK' /\ Rest' /\ (loc \in [Client -> LocType])'
    <3>1. [pulled |-> TRUE, uris |-> uris] \in LocType
      BY <2>0 DEF LocType
    <3> QED
      BY <2>0, <2>5, <3>1 DEF Pulls, hmcVars, ElemsOK, TypeOK
  <2>6. ASSUME Leaves, host' = host,
               \/ adapter' = adapter
               \/ \E a \in Adapter, s \in {"live", "deleted"} : adapter' = [adapter EXCEPT ![a] = s]
        PROVE  ElemsOK' /\ Rest' /\ loc' = loc
    BY <2>0, <2>6 DEF Leaves, ElemsOK, TypeOK
  <2>7. CASE HostChanges
    BY <2>0, <2>7 DEF HostChanges, hmcVars, ElemsOK, TypeOK
  <2>8. Begin => calls' \in 0..MaxCalls
    BY DEF Begin, TypeOK
  <2>9. ElemsOK' /\ Rest' /\ (loc \in [Client -> LocType])' /\ calls' \in 0..MaxCalls => TypeOK'
    BY DEF TypeOK, ElemsOK, ElemType, LocType
  <2>10. CASE UNCHANGED vars
    BY <2>10 DEF vars, hmcVars, TypeOK
  <2>11. CASE Next
    <3> HIDE DEF Rest
    <3> QED
      BY <2>0, <2>1, <2>2, <2>3, <2>4, <2>5, <2>6, <2>7, <2>8, <2>9, <2>11, <2>12, StepKinds
  <2> QED
    BY <2>10, <2>11
<1> QED
  BY <1>1, <1>2, PTL DEF Spec

--------------------------------------------------------------------------------
(* The relations *)

\* An element that does not exist is in no switch, and only a deleted one has a deleter.
History ==
    \A e \in Elem : /\ elem[e].state = "none" => elem[e].switch = {}
                    /\ elem[e].deleter # {} => elem[e].state = "deleted"

\* As long as users leave the range of the pool alone, the numbers in it that elements have
\* are allocated, and none is that of a half-created NIC.
NumbersAllocated ==
    mixed \/ \A e \in Elem : /\ elem[e].dev \cap Pool \subseteq used
                             /\ elem[e].state = "half" => elem[e].dev \cap Pool = {}

DeviceInv == RelationsAgree /\ History /\ NumbersAllocated /\ DevnosDistinct /\ OwnDeletesFollow

LEMMA AddsKeeps ==
  ASSUME TypeOK, DeviceInv, NEW e \in Elem, Adds(e)
  PROVE  DeviceInv'
<1>1. PICK k \in Kind, s \in OneOf(Adapter) : AddElem(e, k, s)
  BY DEF Adds
<1>2. ElemsOK /\ elem[e].state = "none"
  BY DEF TypeOK, ElemsOK, ElemType, Adds
<1>3. PICK dev \in Devno :
           /\ elem' \in [Elem -> ElemType]
           /\ elem'[e].dev = {dev} /\ elem'[e].state = "live"
           /\ elem'[e].kind = k /\ elem'[e].switch = s /\ elem'[e].deleter = {}
           /\ \A f \in Elem \ {e} : elem'[f] = elem[f]
           /\ \/ dev \in Pool \ used /\ used' = used \cup {dev} /\ mixed' = mixed
              \/ used' = used /\ mixed' = (mixed \/ dev \in Pool)
  BY <1>1, <1>2, ElemAdded
<1>4. RelationsAgree'
  <2>1. /\ uris' = [uris EXCEPT ![k] = @ \cup {e}]
        /\ connected' = [a \in Adapter |-> IF a \in s THEN connected[a] \cup {e} ELSE connected[a]]
    BY <1>1 DEF AddElem
  <2>2. \A j \in Kind : uris'[j] = Live(j)'
    BY <1>2, <1>3, <2>1 DEF TypeOK, DeviceInv, RelationsAgree, Live
  <2>3. ASSUME NEW a \in Adapter
        PROVE  /\ {f \in Live("nic") : elem[f].switch = {a}}' \subseteq connected'[a]
               /\ \A f \in connected'[a] : elem'[f].switch = {a}
    <3>1. /\ {f \in Live("nic") : elem[f].switch = {a}} \subseteq connected[a]
          /\ \A f \in connected[a] : f \in Elem /\ elem[f].switch = {a}
      BY DEF DeviceInv, RelationsAgree, TypeOK
    <3>2. e \notin connected[a]
      BY <1>2, <3>1 DEF DeviceInv, History
    <3>3. a \in s <=> s = {a}
      BY DEF OneOf
    <3> QED
      BY <1>3, <2>1, <3>1, <3>2, <3>3 DEF Live
  <2> QED
    BY <2>2, <2>3 DEF RelationsAgree
<1>5. History'
  BY <1>3 DEF DeviceInv, History
<1>6. NumbersAllocated' /\ DevnosDistinct'
  <2>1. CASE mixed'
    BY <2>1 DEF NumbersAllocated, DevnosDistinct
  <2>2. CASE ~mixed'
    <3>1. ~mixed /\ (dev \in Pool => dev \notin used) /\ used \subseteq used'
          /\ (dev \in Pool => dev \in used')
      <4>1. CASE dev \in Pool \ used /\ used' = used \cup {dev} /\ mixed' = mixed
        BY <2>2, <4>1
      <4>2. CASE used' = used /\ mixed' = (mixed \/ dev \in Pool)
        <5>1. ~(mixed \/ dev \in Pool)
          BY <2>2, <4>2, Zenon
        <5> QED
          BY <4>2, <5>1
      <4> QED
        BY <1>3, <4>1, <4>2
    <3>2. \A f \in Elem : elem[f].dev \cap Pool \subseteq used
      BY <3>1 DEF DeviceInv, NumbersAllocated
    <3>3. \A f \in Elem \ {e} : elem'[f].dev = {dev} => elem'[f].dev \cap Pool = {}
      BY <1>3, <3>1, <3>2
    <3>4. NumbersAllocated'
      BY <1>3, <3>1, <3>2 DEF DeviceInv, NumbersAllocated
    <3> QED
      BY <1>3, <3>1, <3>3, <3>4 DEF DeviceInv, DevnosDistinct
  <2> QED
    BY <2>1, <2>2
<1>7. OwnDeletesFollow'
  <2>1. loc' = loc
    BY <1>1 DEF AddElem
  <2> QED
    BY <1>3, <2>1 DEF DeviceInv, OwnDeletesFollow, Listed
<1> QED
  BY <1>4, <1>5, <1>6, <1>7 DEF DeviceInv

LEMMA HalfAddsKeeps ==
  ASSUME TypeOK, DeviceInv, NEW e \in Elem, HalfAdds(e)
  PROVE  DeviceInv'
<1>1. PICK s \in OneOf(Adapter) : AddNic(e, s) /\ ~AddElem(e, "nic", s)
  BY DEF HalfAdds
<1>2. ElemsOK /\ elem[e].state = "none"
  BY DEF TypeOK, ElemsOK, ElemType, HalfAdds
<1>3. PICK dev \in OneOf(Devno) :
         /\ elem'[e].dev = dev /\ elem'[e].state = "half" /\ elem'[e].deleter = {}
         /\ \A f \in Elem \ {e} : elem'[f] = elem[f]
         /\ mixed' = (mixed \/ dev \cap Pool # {})
         /\ UNCHANGED <<host, adapter, uris, connected, used, loc>>
  BY <1>1, <1>2, NicHalfAdded
<1>4. RelationsAgree'
  <2>1. \A j \in Kind : Live(j)' = Live(j)
    BY <1>2, <1>3 DEF Live
  <2>2. "nic" \in Kind
    BY DEF Kind
  <2>3. ASSUME NEW a \in Adapter
        PROVE  /\ {f \in Live("nic") : elem[f].switch = {a}}' \subseteq connected'[a]
               /\ \A f \in connected'[a] : elem'[f].switch = {a}
    <3>1. /\ {f \in Live("nic") : elem[f].switch = {a}} \subseteq connected[a]
          /\ \A f \in connected[a] : f \in Elem /\ elem[f].switch = {a}
      BY DEF DeviceInv, RelationsAgree, TypeOK
    <3>2. e \notin connected[a]
      BY <1>2, <3>1 DEF DeviceInv, History
    <3> QED
      BY <1>3, <3>1, <3>2 DEF Live
  <2> QED
    BY <1>3, <2>1, <2>3 DEF DeviceInv, RelationsAgree
<1>5. History' /\ OwnDeletesFollow'
  BY <1>3 DEF DeviceInv, History, OwnDeletesFollow, Listed
<1>6. NumbersAllocated' /\ DevnosDistinct'
  <2>1. CASE mixed'
    BY <2>1 DEF NumbersAllocated, DevnosDistinct
  <2>2. CASE ~mixed'
    <3>1. ~(mixed \/ dev \cap Pool # {})
      BY <1>3, <2>2, Zenon
    <3>2. NumbersAllocated'
      BY <1>3, <3>1 DEF DeviceInv, NumbersAllocated
    <3>3. DevnosDistinct'
      BY <1>3, <3>1 DEF DeviceInv, DevnosDistinct
    <3> QED
      BY <3>2, <3>3
  <2> QED
    BY <2>1, <2>2
<1> QED
  BY <1>4, <1>5, <1>6 DEF DeviceInv

LEMMA RenumbersKeeps ==
  ASSUME TypeOK, DeviceInv, NEW e \in Elem, Renumbers(e)
  PROVE  DeviceInv'
<1>1. PICK k \in Kind : SetDevno(e, k)
  BY DEF Renumbers
<1>2. ElemsOK
  BY DEF TypeOK, ElemsOK, ElemType
<1>3. PICK dev \in Devno :
           /\ elem'[e].dev = {dev} /\ elem'[e].state = elem[e].state
           /\ elem'[e].kind = elem[e].kind /\ elem'[e].switch = elem[e].switch
           /\ elem'[e].deleter = elem[e].deleter
           /\ \A f \in Elem \ {e} : elem'[f] = elem[f]
           /\ mixed' = (mixed \/ dev \in Pool)
  BY <1>1, <1>2, DevnoChanged
<1>4. UNCHANGED <<uris, connected, used, loc>>
  BY <1>1 DEF SetDevno
<1>5. /\ \A j \in Kind : Live(j)' = Live(j)
      /\ \A f \in Elem : /\ elem'[f].switch = elem[f].switch
                         /\ elem'[f].deleter = elem[f].deleter
                         /\ elem'[f].state = elem[f].state
  BY <1>3 DEF Live
<1>6. RelationsAgree'
  <2>1. "nic" \in Kind /\ \A a \in Adapter : connected[a] \subseteq Elem
    BY DEF Kind, TypeOK
  <2>2. \A j \in Kind : Live(j) \subseteq Elem
    BY DEF Live
  <2> QED
    BY <1>4, <1>5, <2>1, <2>2 DEF DeviceInv, RelationsAgree
<1>7. History' /\ OwnDeletesFollow'
  BY <1>4, <1>5 DEF DeviceInv, History, OwnDeletesFollow, Listed
<1>8. NumbersAllocated' /\ DevnosDistinct'
  <2>1. CASE mixed'
    BY <2>1 DEF NumbersAllocated, DevnosDistinct
  <2>2. CASE ~mixed'
    <3>1. ~(mixed \/ dev \in Pool)
      BY <1>3, <2>2, Zenon
    <3>2. \A f \in Elem : elem[f].dev \cap Pool \subseteq used
      BY <3>1 DEF DeviceInv, NumbersAllocated
    <3>3. NumbersAllocated'
      BY <1>3, <1>4, <3>1, <3>2 DEF DeviceInv, NumbersAllocated
    <3>4. DevnosDistinct'
      BY <1>3, <3>1 DEF DeviceInv, DevnosDistinct
    <3> QED
      BY <3>3, <3>4
  <2> QED
    BY <2>1, <2>2
<1> QED
  BY <1>6, <1>7, <1>8 DEF DeviceInv

LEMMA RemovesKeeps ==
  ASSUME TypeOK, DeviceInv, NEW c \in Client, NEW e \in Elem, Removes(c, e)
  PROVE  DeviceInv'
<1>1. ElemsOK /\ elem[e].state = "live"
  BY DEF TypeOK, ElemsOK, ElemType, Removes
<1>2. /\ elem'[e].dev = {} /\ elem'[e].state = "deleted"
      /\ elem'[e].kind = elem[e].kind /\ elem'[e].switch = elem[e].switch
      /\ elem'[e].deleter = {c}
      /\ \A f \in Elem \ {e} : elem'[f] = elem[f]
  BY <1>1, ElemRemoved DEF Removes
<1>3. /\ used' = used \ elem[e].dev
      /\ uris' = [uris EXCEPT ![elem[e].kind] = @ \ {e}]
      /\ connected' = connected /\ mixed' = mixed
      /\ loc' = [loc EXCEPT ![c].uris = [k \in Kind |-> @[k] \ {e}]]
  BY DEF Removes, RemoveElem, FreeIfAllocated, ForgetUri
<1>4. RelationsAgree'
  <2>1. \A j \in Kind : uris[j] = Live(j)
    BY DEF DeviceInv, RelationsAgree
  <2>2. \A j \in Kind : Live(j)' = Live(j) \ {e}
    BY <1>2 DEF Live
  <2>3. \A j \in Kind : uris'[j] = Live(j)'
    <3>1. \A j \in Kind : j # elem[e].kind => e \notin Live(j)
      BY DEF Live
    <3>2. uris \in [Kind -> SUBSET Elem]
      BY DEF TypeOK
    <3> SUFFICES ASSUME NEW j \in Kind  PROVE uris'[j] = Live(j) \ {e}
      BY <2>2
    <3>3. CASE j = elem[e].kind
      BY <1>3, <2>1, <3>2, <3>3
    <3>4. CASE j # elem[e].kind
      <4>1. uris'[j] = Live(j)
        BY <1>3, <2>1, <3>2, <3>4
      <4> QED
        BY <3>1, <3>4, <4>1
    <3> QED
      BY <3>3, <3>4
  <2>4. "nic" \in Kind /\ \A a \in Adapter : connected[a] \subseteq Elem
    BY DEF Kind, TypeOK
  <2>5. \A f \in Elem : elem'[f].switch = elem[f].switch
    BY <1>2
  <2>6. Live("nic") \subseteq Elem
    BY DEF Live
  <2> QED
    BY <1>3, <2>2, <2>3, <2>4, <2>5, <2>6 DEF DeviceInv, RelationsAgree
<1>5. History'
  BY <1>1, <1>2 DEF DeviceInv, History
<1>6. NumbersAllocated' /\ DevnosDistinct'
  <2>1. CASE mixed
    BY <1>3, <2>1 DEF NumbersAllocated, DevnosDistinct
  <2>2. CASE ~mixed
    <3>1. /\ \A f \in Elem : elem[f].dev \cap Pool \subseteq used
          /\ \A f \in Elem \ {e} : elem[f].dev = elem[e].dev => elem[e].dev \cap Pool = {}
      BY <2>2 DEF DeviceInv, NumbersAllocated, DevnosDistinct
    <3>2. \A f \in Elem \ {e} : elem[f].dev # elem[e].dev => elem[f].dev \cap elem[e].dev = {}
      <4>1. \A f \in Elem : elem[f].dev \in OneOf(Devno)
        BY <1>1 DEF ElemsOK, ElemType
      <4>2. \A d1, d2 \in OneOf(Devno) : d1 # d2 => d1 \cap d2 = {}
        BY DEF OneOf
      <4> QED
        BY <4>1, <4>2
    <3>3. NumbersAllocated'
      BY <1>2, <1>3, <2>2, <3>1, <3>2 DEF DeviceInv, NumbersAllocated
    <3>4. DevnosDistinct'
      BY <1>2, <1>3, <2>2 DEF DeviceInv, DevnosDistinct
    <3> QED
      BY <3>3, <3>4
  <2> QED
    BY <2>1, <2>2
<1>7. OwnDeletesFollow'
  <2> SUFFICES ASSUME NEW d \in Client, NEW f \in Elem, NEW k \in Kind,
                      loc'[d].pulled, elem'[f].deleter = {d}
               PROVE  f \notin loc'[d].uris[k]
    BY DEF OwnDeletesFollow, Listed
  <2>1. /\ loc'[d].pulled = loc[d].pulled
        /\ loc'[d].uris[k] = IF d = c THEN loc[d].uris[k] \ {e} ELSE loc[d].uris[k]
    BY <1>3 DEF TypeOK
  <2>2. CASE f = e
    BY <1>2, <2>1, <2>2
  <2>3. CASE f # e
    BY <1>2, <2>1, <2>3 DEF DeviceInv, OwnDeletesFollow, Listed
  <2> QED
    BY <2>2, <2>3
<1> QED
  BY <1>4, <1>5, <1>6, <1>7 DEF DeviceInv

\* Outside the range of the pool, freeing a number that users have chosen changes nothing.
LEMMA FreesHalfKeeps ==
  ASSUME TypeOK, DeviceInv, NEW e \in Elem, FreesHalf(e)
  PROVE  DeviceInv'
<1>1. UNCHANGED <<elem, uris, connected, mixed, loc>> /\ used' = used \ elem[e].dev
  BY DEF FreesHalf, FreeIfAllocated
<1>2. mixed \/ used' = used
  BY <1>1 DEF FreesHalf, DeviceInv, NumbersAllocated, TypeOK
<1>3. NumbersAllocated'
  BY <1>1, <1>2 DEF DeviceInv, NumbersAllocated
<1> QED
  BY <1>1, <1>3 DEF DeviceInv, RelationsAgree, History, DevnosDistinct, OwnDeletesFollow, Listed,
                   Live

\* A pull brings the elements that are live, of which none has a deleter.
LEMMA PullsKeeps ==
  ASSUME TypeOK, DeviceInv, NEW c \in Client, Pulls(c)
  PROVE  DeviceInv'
<1>1. UNCHANGED <<elem, uris, connected, used, mixed>>
  BY DEF Pulls, hmcVars
<1>2. \A e \in Elem, k \in Kind : elem[e].deleter # {} => e \notin uris[k]
  BY DEF DeviceInv, RelationsAgree, History, Live
<1>3. OwnDeletesFollow'
  <2> SUFFICES ASSUME NEW d \in Client, NEW f \in Elem, NEW k \in Kind,
                      loc'[d].pulled, elem[f].deleter = {d}
               PROVE  f \notin loc'[d].uris[k]
    BY <1>1 DEF OwnDeletesFollow, Listed
  <2>1. CASE d = c
    BY <1>2, <2>1 DEF Pulls, TypeOK
  <2>2. CASE d # c
    BY <2>2 DEF Pulls, TypeOK, DeviceInv, OwnDeletesFollow, Listed
  <2> QED
    BY <2>1, <2>2
<1> QED
  BY <1>1, <1>3 DEF DeviceInv, RelationsAgree, History, NumbersAllocated, DevnosDistinct, Live

LEMMA LeavesKeeps ==
  ASSUME DeviceInv, Leaves
  PROVE  DeviceInv'
BY DEF Leaves, DeviceInv, RelationsAgree, History, NumbersAllocated, DevnosDistinct,
       OwnDeletesFollow, Listed, Live

LEMMA DeviceInductive == Spec => []DeviceInv
<1>1. Init => DeviceInv
  <2> SUFFICES ASSUME Init  PROVE DeviceInv
    OBVIOUS
  <2>1. \A e \in Elem : /\ elem[e].state = "none" /\ elem[e].dev = {} /\ elem[e].switch = {}
                        /\ elem[e].deleter = {}
    BY NoElemType DEF Init
  <2>2. RelationsAgree
    BY <2>1 DEF Init, RelationsAgree, Live
  <2>3. History /\ NumbersAllocated /\ DevnosDistinct
    BY <2>1 DEF History, NumbersAllocated, DevnosDistinct
  <2>4. OwnDeletesFollow
    BY DEF Init, OwnDeletesFollow
  <2> QED
    BY <2>2, <2>3, <2>4 DEF DeviceInv
<1>2. ASSUME TypeOK, DeviceInv, [Next]_vars  PROVE DeviceInv'
  <2>1. CASE UNCHANGED vars
    BY <1>2, <2>1, LeavesKeeps DEF vars, hmcVars, Leaves
  <2>2. CASE HostChanges
    BY <1>2, <2>2, LeavesKeeps DEF HostChanges, hmcVars, Leaves
  <2>3. CASE Next
    BY <1>2, <2>2, <2>3, StepKinds, AddsKeeps, HalfAddsKeeps, RenumbersKeeps, RemovesKeeps,
       FreesHalfKeeps, PullsKeeps, LeavesKeeps
  <2> QED
    BY <1>2, <2>1, <2>3
<1> QED
  BY <1>1, <1>2, TypeCorrect, PTL DEF Spec

\* The lists of URIs of a partition are exactly its live elements, and a virtual switch
\* knows its live NICs and none of another switch.
THEOREM RelationsKept == Spec => []RelationsAgree
<1>1. DeviceInv => RelationsAgree
  BY DEF DeviceInv
<1> QED
  BY <1>1, DeviceInductive, PTL

\* The mock HMC never assigns a number that another element has, unless users choose
\* numbers from the range of its pool.
THEOREM DevnosUnique == Spec => []DevnosDistinct
<1>1. DeviceInv => DevnosDistinct
  BY DEF DeviceInv
<1> QED
  BY <1>1, DeviceInductive, PTL

\* A client that has deleted an element never lists it again.
THEOREM OwnDeletesSeen == Spec => []OwnDeletesFollow
<1>1. DeviceInv => OwnDeletesFollow
  BY DEF DeviceInv
<1> QED
  BY <1>1, DeviceInductive, PTL

--------------------------------------------------------------------------------
(***************************************************************************)
(* Induction over the natural numbers, through sets: a set of numbers      *)
(* without a least one is empty, because the finite sets are well-founded. *)
(* What a recursive function computes is the run of its steps.             *)
(***************************************************************************)
\* A set of numbers has a least one.
LEMMA LeastNumber ==
  ASSUME NEW T, T \subseteq Nat, T # {}
  PROVE  \E n \in T : \A m \in T : n <= m
<1> DEFINE below == {0..n : n \in T}
<1>1. below \subseteq FiniteSubsetsOf(Nat) /\ below # {}
  <2>1. \A n \in Nat : IsFiniteSet(0..n)
    BY FS_Interval
  <2>2. \A n \in Nat : 0..n \in FiniteSubsetsOf(Nat)
    BY <2>1 DEF FiniteSubsetsOf
  <2>3. PICK n \in T : TRUE
    OBVIOUS
  <2>4. 0..n \in below
    OBVIOUS
  <2> QED
    BY <2>2, <2>4, Zenon
<1> HIDE DEF below
<1>2. PICK x \in below : \A y \in below : <<y, x>> \notin StrictSubsetOrdering(Nat)
  BY <1>1, WFMin, FS_StrictSubsetOrderingWellFounded
<1>3. PICK n \in T : x = 0..n
  BY DEF below
<1>4. ASSUME NEW m \in T  PROVE n <= m
  <2>1. 0..m \in below
    BY DEF below
  <2>2. <<0..m, 0..n>> \notin StrictSubsetOrdering(Nat)
    BY <1>2, <1>3, <2>1
  <2>3. 0..m \subseteq Nat /\ 0..n \subseteq Nat
    OBVIOUS
  <2>4. ~(0..m \subseteq 0..n /\ 0..m # 0..n)
    BY <2>2, <2>3 DEF StrictSubsetOrdering
  <2> QED
    BY <2>4
<1> QED
  BY <1>4

\* A set that a number is in if its predecessor is has them all.
LEMMA SetInduction ==
  ASSUME NEW n \in Nat, NEW T, 0 \in T, \A i \in 1..n : i - 1 \in T => i \in T
  PROVE  \A i \in 0..n : i \in T
<1> DEFINE bad == {i \in 0..n : i \notin T}
<1> SUFFICES ASSUME bad # {}  PROVE FALSE
  OBVIOUS
<1>1. PICK i \in bad : \A j \in bad : i <= j
  <2> HIDE DEF bad
  <2>1. bad \subseteq Nat
    BY DEF bad
  <2> QED
    BY <2>1, LeastNumber
<1>2. i \in 1..n /\ i - 1 \notin bad /\ i - 1 \in 0..n
  BY <1>1
<1> QED
  BY <1>1, <1>2

\* f is the run of n steps from s0.
IsRun(f, n, s0, step) == f[0] = s0 /\ \A i \in 1..n : f[i] = step[i][f[i - 1]]

\* There is such a run.
LEMMA RunExists ==
  ASSUME NEW n \in Nat, NEW S, NEW s0 \in S, NEW step \in [1..n -> [S -> S]]
  PROVE  \E f \in [0..n -> S] : IsRun(f, n, s0, step)
<1> DEFINE T == {k \in 0..n : \E f \in [0..k -> S] : IsRun(f, k, s0, step)}
<1>1. 0 \in T
  <2> DEFINE f == [i \in 0..0 |-> s0]
  <2>1. f \in [0..0 -> S] /\ IsRun(f, 0, s0, step) /\ 0 \in 0..n
    BY DEF IsRun
  <2> HIDE DEF f
  <2> QED
    BY <2>1
<1>2. ASSUME NEW i \in 1..n, i - 1 \in T  PROVE i \in T
  <2>1. PICK f \in [0..(i - 1) -> S] : IsRun(f, i - 1, s0, step)
    BY <1>2
  <2> DEFINE g == [j \in 0..i |-> IF j = i THEN step[i][f[i - 1]] ELSE f[j]]
  <2>2. g \in [0..i -> S]
    BY <2>1
  <2>3. g[0] = s0 /\ g[i] = step[i][g[i - 1]]
    <3>1. g[0] = f[0] /\ g[i - 1] = f[i - 1] /\ g[i] = step[i][f[i - 1]]
      OBVIOUS
    <3> QED
      BY <2>1, <3>1 DEF IsRun
  <2>4. ASSUME NEW j \in 1..(i - 1)  PROVE g[j] = step[j][g[j - 1]]
    BY <2>1 DEF IsRun
  <2>5. \A j \in 1..i : j = i \/ j \in 1..(i - 1)
    OBVIOUS
  <2> HIDE DEF g
  <2>6. IsRun(g, i, s0, step)
    BY <2>3, <2>4, <2>5 DEF IsRun
  <2>7. i \in 0..n
    OBVIOUS
  <2> QED
    BY <2>2, <2>6, <2>7
<1>3. n \in 0..n
  OBVIOUS
<1> HIDE DEF T
<1>4. n \in T
  BY <1>1, <1>2, <1>3, SetInduction
<1> QED
  BY <1>4 DEF T

\* What every step keeps holds along the run.
LEMMA AlongRun ==
  ASSUME NEW n \in Nat, NEW S, NEW r, r[0] \in S, \A i \in 1..n : r[i - 1] \in S => r[i] \in S
  PROVE  \A i \in 0..n : r[i] \in S
<1> DEFINE T == {i \in 0..n : r[i] \in S}
<1>1. 0 \in T /\ \A i \in 1..n : i - 1 \in T => i \in T
  OBVIOUS
<1> HIDE DEF T
<1>2. \A i \in 0..n : i \in T
  BY <1>1, SetInduction
<1> QED
  BY <1>2 DEF T

--------------------------------------------------------------------------------
(***************************************************************************)
(* Proofs about DpmPartitions, for the same clients, and for any           *)
(* partitions and domains.                                                 *)
(***************************************************************************)
Entries == Seq(Domain \X Mode)

--------------------------------------------------------------------------------
(* What the handlers do to a crypto configuration *)

\* The entries that are left are of the entries that were there.
LEMMA KeptEntries ==
  ASSUME NEW es \in Entries, NEW ds
  PROVE  /\ Kept(es, ds) \in Entries
         /\ \A i \in 1..Len(Kept(es, ds)) : \E j \in 1..Len(es) : Kept(es, ds)[i] = es[j]
<1> DEFINE n       == Len(es)
           S       == [seq : Entries, skip : BOOLEAN]
           Good(s) == \A i \in 1..Len(s) : \E j \in 1..n : s[i] = es[j]
           start   == [seq |-> <<>>, skip |-> FALSE]
           Next1(i, s) == IF ~s.skip /\ es[i][1] \in ds
                          THEN [seq |-> s.seq, skip |-> TRUE]
                          ELSE [seq |-> Append(s.seq, es[i]), skip |-> FALSE]
           step    == [i \in 1..n |-> [s \in S |-> Next1(i, s)]]
           Follows(f) == f = [i \in 0..n |-> IF i = 0 THEN start ELSE Next1(i, f[i - 1])]
           run     == CHOOSE f : Follows(f)
<1>1. n \in Nat /\ \A i \in 1..n : es[i] \in Domain \X Mode
  BY DEF Entries
<1>2. start \in S /\ \A i \in 1..n, s \in S : Next1(i, s) \in S
  BY <1>1 DEF Entries
<1>3. step \in [1..n -> [S -> S]]
  BY <1>2
<1>4. \E f : Follows(f)
  <2>1. PICK f \in [0..n -> S] : IsRun(f, n, start, step)
    <3>1. n \in Nat /\ start \in S
      BY <1>1, <1>2
    <3> HIDE DEF step, start, S, n
    <3> QED
      BY <3>1, <1>3, RunExists
  <2>2. ASSUME NEW i \in 1..n  PROVE f[i] = Next1(i, f[i - 1])
    <3>1. i - 1 \in 0..n
      BY <1>1
    <3>2. f[i - 1] \in S
      BY <3>1
    <3>3. step[i][f[i - 1]] = Next1(i, f[i - 1])
      BY <3>2
    <3> QED
      BY <2>1, <3>3 DEF IsRun
  <2> HIDE DEF step, start, S, Next1
  <2>3. f = [i \in 0..n |-> IF i = 0 THEN start ELSE Next1(i, f[i - 1])]
    BY <1>1, <2>1, <2>2 DEF IsRun
  <2> QED
    BY <2>3
<1>5. Follows(run)
  BY <1>4, Zenon
<1> DEFINE G == {s \in S : Good(s.seq)}
<1>6. run[n] \in G
  <2>1. run[0] = start /\ \A i \in 1..n : run[i] = Next1(i, run[i - 1])
    <3> HIDE DEF start, Next1, run
    <3> QED
      BY <1>1, <1>5
  <2>2. start \in G
    BY <1>2
  <2>3. ASSUME NEW i \in 1..n, NEW s \in G  PROVE Next1(i, s) \in G
    <3>1. Next1(i, s) \in S
      BY <1>2
    <3>2. CASE ~s.skip /\ es[i][1] \in ds
      BY <3>1, <3>2
    <3>3. CASE ~(~s.skip /\ es[i][1] \in ds)
      <4>1. es[i] \in Domain \X Mode /\ s.seq \in Seq(Domain \X Mode)
        BY <1>1 DEF Entries
      <4>2. \A k \in 1..Len(Append(s.seq, es[i])) : \E j \in 1..n : Append(s.seq, es[i])[k] = es[j]
        BY <4>1
      <4> QED
        BY <3>1, <3>3, <4>2
    <3> QED
      BY <3>2, <3>3
  <2> HIDE DEF start, Next1, run, G
  <2>4. run[0] \in G /\ \A i \in 1..n : run[i - 1] \in G => run[i] \in G
    BY <2>1, <2>2, <2>3
  <2>5. n \in Nat
    BY <1>1
  <2> HIDE DEF n
  <2>6. \A i \in 0..n : run[i] \in G
    BY <2>4, <2>5, AlongRun, Zenon
  <2> QED
    BY <2>5, <2>6
<1>7. Kept(es, ds) = run[n].seq
  BY DEF Kept
<1> QED
  <2> HIDE DEF run
  <2> QED
    BY <1>6, <1>7


\* The handlers return configurations, ...
LEMMA ConfigTypes ==
  ASSUME NEW config \in Config
  PROVE  /\ \A on \in BOOLEAN : \A es \in {<<>>} \cup {<<e>> : e \in Domain \X Mode} :
               Increased(config, on, es) \in Config
         /\ \A on \in BOOLEAN : \A ds : Decreased(config, on, ds) \in Config
         /\ \A d \in Domain, m \in Mode : Changed(config, d, m) \in Config
<1>1. config.entries \in Entries
  BY DEF Config, Entries
<1>2. ASSUME NEW on \in BOOLEAN, NEW es \in {<<>>} \cup {<<e>> : e \in Domain \X Mode}
      PROVE  Increased(config, on, es) \in Config
  <2>1. es \in Entries
    <3>1. CASE es = <<>>
      BY <3>1 DEF Entries
    <3>2. CASE \E e \in Domain \X Mode : es = <<e>>
      BY <3>2 DEF Entries
    <3> QED
      BY <3>1, <3>2
  <2>2. config.entries \o es \in Entries
    BY <1>1, <2>1 DEF Entries
  <2> QED
    BY <1>1, <2>2 DEF Increased, Config, Entries
<1>3. ASSUME NEW on \in BOOLEAN, NEW ds
      PROVE  Decreased(config, on, ds) \in Config
  <2>1. Kept(config.entries, ds) \in Entries
    BY <1>1, KeptEntries
  <2> QED
    BY <2>1 DEF Decreased, Config, Entries
<1>4. ASSUME NEW d \in Domain, NEW m \in Mode
      PROVE  Changed(config, d, m) \in Config
  <2> DEFINE es == [i \in 1..Len(config.entries) |->
                      IF config.entries[i][1] = d THEN <<d, m>> ELSE config.entries[i]]
  <2>1. Len(config.entries) \in Nat /\ es \in [1..Len(config.entries) -> Domain \X Mode]
    BY <1>1 DEF Entries
  <2>2. es \in Entries
    BY <2>1 DEF Entries
  <2>3. Changed(config, d, m) = [config EXCEPT !.entries = es]
    BY DEF Changed
  <2> QED
    BY <2>2, <2>3 DEF Config, Entries
<1> QED
  BY <1>2, <1>3, <1>4

\* ... and only one in which a domain was found to be free takes it into use.
LEMMA FreeTaken ==
  ASSUME PartitionsTypeOK, NEW p \in Partition, NEW d \in Domain,
         crypto[p].adapter \/ crypto[p].entries = <<>>,
         crypto' = [crypto EXCEPT ![p] = Increased(crypto[p], TRUE, <<<<d, "control-usage">>>>)]
  PROVE  \A q \in Partition, e \in Domain :
           Uses(crypto', q, e) => Uses(crypto, q, e) \/ (q = p /\ e = d)
<1> SUFFICES ASSUME NEW q \in Partition, NEW e \in Domain, Uses(crypto', q, e),
                    ~(q = p /\ e = d)
             PROVE  Uses(crypto, q, e)
  OBVIOUS
<1> DEFINE new == Increased(crypto[p], TRUE, <<<<d, "control-usage">>>>)
<1>1. crypto \in [Partition -> Config] /\ crypto[p].entries \in Seq(Domain \X Mode)
  BY DEF PartitionsTypeOK, Config
<1>2. CASE q # p
  BY <1>1, <1>2 DEF Uses
<1>3. CASE q = p
  <2> DEFINE old == crypto[p].entries
             es  == new.entries
             u   == <<d, "control-usage">>
  <2>1. crypto'[p] = new
    BY <1>1
  <2>2. new.entries \in {old, old \o <<u>>}
    BY DEF Increased
  <2> HIDE DEF new
  <2>3. PICK i \in 1..Len(es) : es[i] = <<e, "control-usage">>
    BY <1>3, <2>1 DEF Uses
  <2>4. i \in 1..Len(old) /\ old[i] = <<e, "control-usage">>
    <3>1. e # d
      BY <1>3
    <3>2. u # <<e, "control-usage">>
      BY <3>1
    <3> HIDE DEF old, u
    <3>3. CASE es = old
      BY <2>3, <3>3
    <3>4. CASE es = old \o <<u>>
      <4>1. old \in Seq(Domain \X Mode)
        BY <1>1 DEF old
      <4>2. i \in 1..(Len(old) + 1) /\ (i = Len(old) + 1 => es[i] = u)
            /\ (i \in 1..Len(old) => es[i] = old[i])
        BY <2>3, <3>4, <4>1
      <4> QED
        BY <2>3, <3>2, <4>1, <4>2
    <3> QED
      BY <2>2, <3>3, <3>4
  <2>5. crypto[p].adapter
    BY <2>4
  <2> QED
    BY <1>3, <2>4, <2>5 DEF Uses
<1> QED
  BY <1>2, <1>3

--------------------------------------------------------------------------------
(* The kinds of steps *)

\* A call ends and changes nothing that others see.
AnswerStep(c) ==
    /\ \E pc \in {"idle", "error"} : Answer(c, pc)
    /\ UNCHANGED <<part, crypto, careless>>

\* A partition gets a status, and a call waits for it or for another one.
WaitStep(c, p) ==
    /\ part[p] \in PartStatus
    /\ \E s \in PartStatus, want \in SUBSET PartStatus :
          SetStatus(p, s, [call EXCEPT ![c] = [NoCall EXCEPT !.pc = "wait", !.on = {p},
                                                                 !.want = want]])
    /\ UNCHANGED <<crypto, careless>>

CreateStep(c, p) ==
    /\ SetStatus(p, "stopped", [call EXCEPT ![c] = NoCall])
    /\ UNCHANGED <<crypto, careless>>

DeleteStep(c, p) ==
    /\ SetStatus(p, "gone", [call EXCEPT ![c] = NoCall])
    /\ crypto' = [crypto EXCEPT ![p] = [adapter |-> FALSE, entries |-> <<>>]]
    /\ UNCHANGED careless

ChangeStep(p) ==
    /\ part[p] \in PartStatus
    /\ \E s \in PartStatus : SetStatus(p, s, call)
    /\ UNCHANGED <<crypto, careless>>

\* A call goes on.
CallStep(c) ==
    /\ \/ PollStatus(c) \/ CheckStatus(c) \/ TimePasses(c)
       \/ FindFree(c) \/ ReadPartition(c) \/ FreeFound(c)
    /\ UNCHANGED <<part, crypto, careless>>

\* A crypto configuration changes, by a call that has found out that a domain is free, ...
FreeStep(c, p) ==
    /\ part[p] \in PartStatus
    /\ call[c].pc = "assign"
    /\ crypto[p].adapter \/ crypto[p].entries = <<>>
    /\ \E d \in Domain \ call[c].used :
          SetCrypto(c, p, Increased(crypto[p], TRUE, <<<<d, "control-usage">>>>), TRUE)

\* ... or by one that does not care.
ConfigStep(c, p) ==
    /\ part[p] \in PartStatus
    /\ \E config \in Config : SetCrypto(c, p, config, FALSE)

PartitionStep(c, p) ==
    \/ WaitStep(c, p) \/ CreateStep(c, p) \/ DeleteStep(c, p) \/ FreeStep(c, p) \/ ConfigStep(c, p)

LEMMA ConfigSteps ==
  ASSUME PartitionsTypeOK, NEW c \in Client, NEW p \in Partition,
         IncreaseCrypto(c, p) \/ DecreaseCrypto(c, p) \/ ChangeCrypto(c, p)
  PROVE  AnswerStep(c) \/ ConfigStep(c, p)
<1>1. crypto[p] \in Config
  BY DEF PartitionsTypeOK
<1>2. Steady \subseteq PartStatus
  BY DEF Steady
<1>3. Rejected(c) => AnswerStep(c)
  BY DEF Rejected, AnswerStep, partVars
<1>4. ASSUME NEW config \in Config, PartitionStatus(p, Steady), SetCrypto(c, p, config, FALSE)
      PROVE  ConfigStep(c, p)
  BY <1>2, <1>4 DEF ConfigStep, PartitionStatus
<1>5. CASE IncreaseCrypto(c, p)
  <2>1. PICK on \in BOOLEAN, es \in {<<>>} \cup {<<e>> : e \in Domain \X Mode} :
          IF PartitionStatus(p, Steady)
             THEN SetCrypto(c, p, Increased(crypto[p], on, es), FALSE)
             ELSE Rejected(c)
    BY <1>5, Zenon DEF IncreaseCrypto
  <2>2. Increased(crypto[p], on, es) \in Config
    BY <1>1, ConfigTypes, Zenon
  <2> QED
    BY <1>3, <1>4, <2>1, <2>2, Zenon
<1>6. CASE DecreaseCrypto(c, p)
  <2>1. PICK on \in BOOLEAN, ds \in {{}} \cup {{d} : d \in Domain} :
          IF PartitionStatus(p, Steady)
             THEN SetCrypto(c, p, Decreased(crypto[p], on, ds), FALSE)
             ELSE Rejected(c)
    BY <1>6, Zenon DEF DecreaseCrypto
  <2>2. Decreased(crypto[p], on, ds) \in Config
    BY <1>1, ConfigTypes, Zenon
  <2> QED
    BY <1>3, <1>4, <2>1, <2>2, Zenon
<1>7. CASE ChangeCrypto(c, p)
  <2>1. PICK d \in Domain, m \in Mode :
          IF PartitionStatus(p, Steady)
             THEN SetCrypto(c, p, Changed(crypto[p], d, m), FALSE)
             ELSE Rejected(c)
    BY <1>7, Zenon DEF ChangeCrypto
  <2>2. Changed(crypto[p], d, m) \in Config
    BY <1>1, ConfigTypes, Zenon
  <2> QED
    BY <1>3, <1>4, <2>1, <2>2, Zenon
<1> QED
  BY <1>5, <1>6, <1>7

LEMMA PartitionSteps ==
  ASSUME PartitionsTypeOK, NEW c \in Client, NEW p \in Partition, PartitionOperation(c, p)
  PROVE  AnswerStep(c) \/ PartitionStep(c, p)
<1>1. Rejected(c) => AnswerStep(c)
  BY DEF Rejected, AnswerStep, partVars
<1>2. ASSUME NEW accepted, NoEffect(c, accepted)  PROVE AnswerStep(c)
  BY <1>1, <1>2 DEF NoEffect, AnswerStep, partVars
<1>3. ASSUME NEW accepted, NEW new, SetIso(c, accepted, new)  PROVE AnswerStep(c)
  BY <1>1, <1>3 DEF SetIso, AnswerStep, partVars
<1>4. CASE DumpPartition(c, p) \/ StartDumpProgram(c, p) \/ PswRestart(c, p) \/ UpdateProperties(c, p)
  BY <1>2, <1>4 DEF DumpPartition, StartDumpProgram, PswRestart, UpdateProperties
<1>5. CASE MountIsoImage(c, p) \/ UnmountIsoImage(c, p)
  BY <1>3, <1>5 DEF MountIsoImage, UnmountIsoImage
<1>6. CASE IncreaseCrypto(c, p) \/ DecreaseCrypto(c, p) \/ ChangeCrypto(c, p)
  BY <1>6, ConfigSteps DEF PartitionStep
<1>7. ASSUME NEW accepted, NEW s \in PartStatus, NEW want \in SUBSET PartStatus,
             accepted => part[p] \in PartStatus, SetAndWait(c, p, accepted, s, want)
      PROVE  AnswerStep(c) \/ WaitStep(c, p)
  <2>1. "paused" \in PartStatus
    BY DEF PartStatus
  <2>2. CASE accepted
    <3>1. PICK t \in {s, part[p], "paused"} :
            SetStatus(p, t, [call EXCEPT ![c] = [NoCall EXCEPT !.pc = "wait", !.on = {p},
                                                                   !.want = want]])
      BY <1>7, <2>2 DEF SetAndWait
    <3>2. t \in PartStatus /\ UNCHANGED <<crypto, careless>>
      BY <1>7, <2>1, <2>2 DEF SetAndWait
    <3> QED
      BY <1>7, <2>2, <3>1, <3>2, Zenon DEF WaitStep
  <2> QED
    BY <1>1, <1>7, <2>2 DEF SetAndWait
<1>8. CASE Start(c, p) \/ Stop(c, p)
  <2>1. /\ StartAccepts(p) => part[p] \in PartStatus
        /\ StopAccepts(p) => part[p] \in PartStatus
    BY DEF StartAccepts, StopAccepts, PartitionStatus, PartStatus
  <2>2. {"active", "stopped"} \subseteq PartStatus /\ {"active", "degraded"} \in SUBSET PartStatus
        /\ {"stopped"} \in SUBSET PartStatus
    BY DEF PartStatus
  <2> QED
    BY <1>7, <1>8, <2>1, <2>2 DEF Start, Stop, PartitionStep
<1>9. CASE Create(c, p)
  BY <1>1, <1>9 DEF Create, CreateStep, PartitionStep
<1>10. CASE Delete(c, p)
  BY <1>1, <1>10 DEF Delete, DeleteStep, PartitionStep
<1> QED
  BY <1>4, <1>5, <1>6, <1>8, <1>9, <1>10 DEF PartitionOperation

\* Every step is of one of these kinds.
LEMMA PartitionStepKinds ==
  ASSUME PartitionsTypeOK, [PartitionsNext]_cpcVars
  PROVE  \/ UNCHANGED <<part, crypto, careless, call>>
         \/ \E c \in Client : \/ AnswerStep(c) \/ CallStep(c)
                              \/ \E p \in Partition : PartitionStep(c, p)
         \/ \E p \in Partition : ChangeStep(p)
<1>1. CASE UNCHANGED cpcVars
  BY <1>1 DEF cpcVars, partVars
<1>2. ASSUME NEW c \in Client, CpcOperation(c)  PROVE AnswerStep(c)
  <2>1. ASSUME NEW ok, NEW s, SetCpc(c, ok, s)  PROVE AnswerStep(c)
    BY <2>1 DEF SetCpc, Rejected, AnswerStep, partVars
  <2> QED
    BY <1>2, <2>1 DEF CpcOperation, CpcStart, CpcStop, CpcActivate, CpcDeactivate
<1>3. ASSUME NEW c \in Client, NEW p \in Partition, AssignFree(c, p)
      PROVE  AnswerStep(c) \/ FreeStep(c, p)
  <2>1. Steady \subseteq PartStatus
    BY DEF Steady
  <2>2. Rejected(c) => AnswerStep(c)
    BY DEF Rejected, AnswerStep, partVars
  <2> QED
    BY <1>3, <2>1, <2>2 DEF AssignFree, PartitionStatus, FreeStep
<1>4. ASSUME NEW c \in Client, Proceed(c) \/ FindFree(c) \/ TimePasses(c)
      PROVE  \/ AnswerStep(c) \/ CallStep(c)
             \/ \E p \in Partition : PartitionStep(c, p)
  <2>1. CASE LeaveFree(c)
    BY <2>1 DEF LeaveFree, AnswerStep, partVars
  <2>2. CASE \E p \in Partition : AssignFree(c, p)
    BY <1>3, <2>2 DEF PartitionStep
  <2>3. CASE \/ PollStatus(c) \/ CheckStatus(c) \/ TimePasses(c)
             \/ FindFree(c) \/ ReadPartition(c) \/ FreeFound(c)
    <3>1. UNCHANGED <<part, crypto, careless>>
      BY <2>3 DEF PollStatus, CheckStatus, TimePasses, FindFree, ReadPartition,
                  FreeFound, partVars
    <3> QED
      BY <2>3, <3>1 DEF CallStep
  <2> QED
    BY <1>4, <2>1, <2>2, <2>3 DEF Proceed
<1>5. CASE CpcChanges
  BY <1>5 DEF CpcChanges, partVars
<1>6. ASSUME NEW p \in Partition, NEW s \in PartStatus, StatusChanges(p, s)
      PROVE  ChangeStep(p)
  BY <1>6 DEF StatusChanges, ChangeStep
<1> QED
  BY <1>1, <1>2, <1>4, <1>5, <1>6, PartitionSteps DEF PartitionsNext

--------------------------------------------------------------------------------
(* What a step does to the calls *)

LEMMA NewCalls ==
  /\ \A pc \in {"idle", "error", "ok", "timeout", "wait", "read"} :
        /\ [NoCall EXCEPT !.pc = pc] \in CallType
        /\ [NoCall EXCEPT !.pc = pc].pc = pc
        /\ [NoCall EXCEPT !.pc = pc].on = {}
  /\ NoCall \in CallType /\ NoCall.pc = "idle" /\ NoCall.on = {}
BY DEF NoCall, CallType

LEMMA NewWait ==
  ASSUME NEW p \in Partition, NEW want \in SUBSET PartStatus
  PROVE  LET w == [NoCall EXCEPT !.pc = "wait", !.on = {p}, !.want = want]
         IN  w \in CallType /\ w.pc = "wait" /\ w.on = {p} /\ w.want = want /\ w.hit = FALSE
BY DEF NoCall, CallType

LEMMA StatusSet ==
  ASSUME NEW cs \in [Client -> CallType], NEW p, NEW s, SetStatus(p, s, cs)
  PROVE  /\ part' = [part EXCEPT ![p] = s]
         /\ call' \in [Client -> CallType]
         /\ \A d \in Client :
               /\ call'[d].pc = cs[d].pc /\ call'[d].on = cs[d].on /\ call'[d].want = cs[d].want
               /\ call'[d].saw = cs[d].saw /\ call'[d].left = cs[d].left
               /\ call'[d].used = cs[d].used /\ call'[d].raced = cs[d].raced
               /\ cs[d].hit => call'[d].hit
               /\ cs[d].on = {p} /\ s \in cs[d].want => call'[d].hit
<1> DEFINE new(d) == IF cs[d].on = {p} THEN [cs[d] EXCEPT !.hit = @ \/ s \in cs[d].want] ELSE cs[d]
<1>1. part' = [part EXCEPT ![p] = s] /\ call' = [d \in Client |-> new(d)]
  BY DEF SetStatus
<1>2. ASSUME NEW d \in Client
      PROVE  /\ new(d) \in CallType
             /\ new(d).pc = cs[d].pc /\ new(d).on = cs[d].on /\ new(d).want = cs[d].want
             /\ new(d).saw = cs[d].saw /\ new(d).left = cs[d].left
             /\ new(d).used = cs[d].used /\ new(d).raced = cs[d].raced
             /\ cs[d].hit => new(d).hit
             /\ cs[d].on = {p} /\ s \in cs[d].want => new(d).hit
  <2> DEFINE k == cs[d]
  <2>1. k \in CallType
    OBVIOUS
  <2> HIDE DEF k
  <2>2. [k EXCEPT !.hit = @ \/ s \in k.want] \in CallType
    BY <2>1 DEF CallType
  <2> QED
    BY <2>1, <2>2 DEF CallType, k
<1> HIDE DEF new
<1> QED
  BY <1>1, <1>2

\* What a call is about depends only on its own steps, but for the history.
LEMMA CryptoSet ==
  ASSUME PartitionsTypeOK, NEW c \in Client, NEW p, NEW config, NEW found, SetCrypto(c, p, config, found)
  PROVE  LET more == ~(Usage(crypto') \subseteq Usage(crypto))
         IN  /\ crypto' = [crypto EXCEPT ![p] = config]
             /\ careless' = (careless \/ (more /\ (~found \/ call[c].raced)))
             /\ UNCHANGED part
             /\ call' \in [Client -> CallType]
             /\ call'[c] = NoCall
             /\ \A d \in Client \ {c} :
                   /\ call[d].pc \in {"read", "assign"} =>
                         /\ call'[d].pc = call[d].pc /\ call'[d].left = call[d].left
                         /\ call'[d].used = call[d].used
                         /\ call'[d].raced = (call[d].raced \/ more)
                   /\ call[d].pc \notin {"read", "assign"} => call'[d] = call[d]
<1> DEFINE more   == ~(Usage(crypto') \subseteq Usage(crypto))
           new(d) == IF d = c THEN NoCall
                     ELSE IF call[d].pc \in {"read", "assign"}
                     THEN [call[d] EXCEPT !.raced = @ \/ more] ELSE call[d]
<1>1. /\ crypto' = [crypto EXCEPT ![p] = config]
      /\ careless' = (careless \/ (more /\ (~found \/ call[c].raced)))
      /\ UNCHANGED part
      /\ call' = [d \in Client |-> new(d)]
  BY DEF SetCrypto
<1> HIDE DEF more
<1>2. ASSUME NEW d \in Client, d # c, call[d].pc \in {"read", "assign"}
      PROVE  /\ new(d) \in CallType
             /\ new(d).pc = call[d].pc /\ new(d).left = call[d].left
             /\ new(d).used = call[d].used /\ new(d).raced = (call[d].raced \/ more)
  <2> DEFINE k == call[d]
             n == [k EXCEPT !.raced = @ \/ more]
  <2>1. k \in CallType
    BY DEF PartitionsTypeOK
  <2>2. new(d) = n
    BY <1>2
  <2> HIDE DEF k, new
  <2>3. /\ n \in CallType /\ n.pc = k.pc /\ n.left = k.left
        /\ n.used = k.used /\ n.raced = (k.raced \/ more)
    BY <2>1 DEF CallType
  <2> QED
    BY <2>2, <2>3 DEF k
<1>3. ASSUME NEW d \in Client  PROVE new(d) \in CallType
  BY <1>2, NewCalls DEF PartitionsTypeOK
<1>4. call' \in [Client -> CallType] /\ \A d \in Client : call'[d] = new(d)
  <2> HIDE DEF new
  <2> QED
    BY <1>1, <1>3
<1>5. new(c) = NoCall /\ \A d \in Client \ {c} : call[d].pc \notin {"read", "assign"} => new(d) = call[d]
  OBVIOUS
<1> HIDE DEF new
<1> QED
  BY <1>1, <1>2, <1>4, <1>5 DEF more

LEMMA CallStepTypes ==
  ASSUME PartitionsTypeOK, NEW c \in Client, CallStep(c)
  PROVE  /\ call' \in [Client -> CallType]
         /\ \A d \in Client \ {c} : call'[d] = call[d]
         /\ call'[c].pc \in {"wait", "check"} => call'[c].on # {}
<1> DEFINE k == call[c]
<1>1. k \in CallType /\ call \in [Client -> CallType]
  BY DEF PartitionsTypeOK
<1>2. ASSUME NEW new \in CallType, call' = [call EXCEPT ![c] = new],
             new.pc \in {"wait", "check"} => new.on # {}
      PROVE  /\ call' \in [Client -> CallType]
             /\ \A d \in Client \ {c} : call'[d] = call[d]
             /\ call'[c].pc \in {"wait", "check"} => call'[c].on # {}
  BY <1>1, <1>2
<1>3. k.pc \in {"wait", "check"} => k.on # {}
  BY DEF PartitionsTypeOK
<1>4. ASSUME Answer(c, "error")  PROVE call' = [call EXCEPT ![c] = [NoCall EXCEPT !.pc = "error"]]
  BY <1>4 DEF Answer
<1>5. [NoCall EXCEPT !.pc = "error"] \in CallType /\ [NoCall EXCEPT !.pc = "error"].pc = "error"
  BY NewCalls
<1>6. CASE PollStatus(c)
  <2>1. PICK p \in k.on : IF part[p] \in PartStatus
             THEN call' = [call EXCEPT ![c].pc = "check", ![c].saw = part[p]]
             ELSE Answer(c, "error")
    BY <1>6 DEF PollStatus
  <2>2. CASE part[p] \in PartStatus
    <3> DEFINE new == [k EXCEPT !.pc = "check", !.saw = part[p]]
    <3>1. call' = [call EXCEPT ![c] = new]
      BY <2>1, <2>2
    <3>2. k.pc = "wait"
      BY <1>6 DEF PollStatus
    <3> HIDE DEF k
    <3>3. new \in CallType /\ new.on = k.on
      BY <1>1, <2>2 DEF CallType
    <3> HIDE DEF new
    <3> QED
      BY <1>2, <1>3, <3>1, <3>2, <3>3
  <2> QED
    BY <1>2, <1>4, <1>5, <2>1, <2>2
<1>7. CASE CheckStatus(c)
  <2> DEFINE pc  == IF k.saw \in k.want THEN "ok" ELSE IF k.late THEN "timeout" ELSE "wait"
             new == [k EXCEPT !.saw = "none", !.pc = pc]
  <2>1. call' = [call EXCEPT ![c] = new] /\ k.pc = "check"
    BY <1>7 DEF CheckStatus
  <2>2. pc \in {"ok", "timeout", "wait"}
    OBVIOUS
  <2> HIDE DEF k, pc
  <2>3. new \in CallType /\ new.on = k.on
    BY <1>1, <2>2 DEF CallType
  <2> HIDE DEF new
  <2> QED
    BY <1>2, <1>3, <2>1, <2>3
<1>8. CASE TimePasses(c)
  <2> DEFINE new == [k EXCEPT !.late = TRUE]
  <2>1. call' = [call EXCEPT ![c] = new]
    BY <1>8 DEF TimePasses
  <2> HIDE DEF k
  <2>2. new \in CallType /\ new.on = k.on /\ new.pc = k.pc
    BY <1>1 DEF CallType
  <2> HIDE DEF new
  <2> QED
    BY <1>2, <1>3, <2>1, <2>2
<1>9. CASE FindFree(c)
  <2> DEFINE new == [NoCall EXCEPT !.pc = "read", !.left = LivePartitions]
  <2>1. call' = [call EXCEPT ![c] = new]
    BY <1>9 DEF FindFree
  <2>2. new \in CallType /\ new.pc = "read"
    BY DEF CallType, NoCall, LivePartitions
  <2> HIDE DEF new
  <2> QED
    BY <1>2, <2>1, <2>2
<1>10. CASE ReadPartition(c)
  <2>1. PICK p \in k.left : IF part[p] = "gone" THEN Answer(c, "error")
             ELSE call' = [call EXCEPT ![c].left = @ \ {p},
                             ![c].used = @ \cup {d \in Domain : Uses(crypto, p, d)}]
    BY <1>10 DEF ReadPartition
  <2>2. CASE part[p] # "gone"
    <3> DEFINE us  == {d \in Domain : Uses(crypto, p, d)}
               new == [k EXCEPT !.left = @ \ {p}, !.used = @ \cup us]
    <3>1. call' = [call EXCEPT ![c] = new]
      BY <2>1, <2>2
    <3>2. k.pc = "read" /\ us \subseteq Domain
      BY <1>10 DEF ReadPartition
    <3> HIDE DEF k, us
    <3>3. new \in CallType /\ new.pc = k.pc
      BY <1>1, <3>2 DEF CallType
    <3> HIDE DEF new
    <3> QED
      BY <1>2, <3>1, <3>2, <3>3
  <2> QED
    BY <1>2, <1>4, <1>5, <2>1, <2>2
<1>11. CASE FreeFound(c)
  <2> DEFINE new == [k EXCEPT !.pc = "assign"]
  <2>1. call' = [call EXCEPT ![c] = new]
    BY <1>11 DEF FreeFound
  <2> HIDE DEF k
  <2>2. new \in CallType /\ new.pc = "assign"
    BY <1>1 DEF CallType
  <2> HIDE DEF new
  <2> QED
    BY <1>2, <2>1, <2>2
<1> QED
  BY <1>6, <1>7, <1>8, <1>9, <1>10, <1>11 DEF CallStep

--------------------------------------------------------------------------------
(* Type correctness *)

LEMMA FrameTypes ==
  ASSUME PartitionsTypeOK, [PartitionsNext]_cpcVars
  PROVE  dpm' \in BOOLEAN /\ cpc' \in CpcStatus /\ iso' \subseteq Partition /\ calls' \in 0..MaxCalls
<1> DEFINE Frame == /\ dpm' \in BOOLEAN /\ cpc' \in CpcStatus
                    /\ iso' \subseteq Partition /\ calls' \in 0..MaxCalls
           Fixed == UNCHANGED <<dpm, cpc, iso>>
           Count == calls' \in 0..MaxCalls
<1>1. /\ dpm \in BOOLEAN /\ cpc \in CpcStatus /\ iso \subseteq Partition
      /\ calls \in 0..MaxCalls /\ MaxCalls \in Nat
  BY DEF PartitionsTypeOK
<1>2. Fixed /\ Count => Frame
  BY <1>1
<1>3. UNCHANGED calls => Count
  BY <1>1
<1>4. ASSUME NEW c, BeginCall(c)  PROVE Count
  BY <1>1, <1>4 DEF BeginCall, Begin
<1>5. ASSUME NEW c, Rejected(c)  PROVE Fixed
  BY <1>5 DEF Rejected, partVars
<1>6. ASSUME NEW c, NEW p, NEW config, NEW found, SetCrypto(c, p, config, found)  PROVE Fixed
  BY <1>6 DEF SetCrypto
<1>7. ASSUME UNCHANGED cpcVars  PROVE Fixed /\ Count
  BY <1>3, <1>7 DEF cpcVars, partVars
<1>8. ASSUME NEW c \in Client, CpcOperation(c)  PROVE Frame
  <2>1. ASSUME NEW ok, NEW s \in CpcStatus, SetCpc(c, ok, s)  PROVE Frame
    BY <1>1, <1>4, <1>5, <2>1 DEF SetCpc, partVars
  <2>2. {"active", "not-operating", "operating", "no-power"} \subseteq CpcStatus
    BY DEF CpcStatus
  <2> QED
    BY <1>8, <2>1, <2>2 DEF CpcOperation, CpcStart, CpcStop, CpcActivate, CpcDeactivate
<1>9. ASSUME NEW c \in Client, FindFree(c) \/ Proceed(c) \/ TimePasses(c)  PROVE Fixed /\ Count
  <2>1. CASE FindFree(c)
    BY <1>4, <2>1 DEF FindFree, partVars
  <2>2. ASSUME NEW p \in Partition, AssignFree(c, p)  PROVE Fixed /\ Count
    <3>1. UNCHANGED calls
      BY <2>2 DEF AssignFree
    <3>2. Fixed
      BY <1>5, <1>6, <2>2 DEF AssignFree
    <3> QED
      BY <1>3, <3>1, <3>2
  <2>3. CASE \/ PollStatus(c) \/ CheckStatus(c) \/ TimePasses(c) \/ ReadPartition(c)
             \/ FreeFound(c) \/ LeaveFree(c)
    <3>1. UNCHANGED <<dpm, cpc, iso, calls>>
      BY <2>3 DEF PollStatus, CheckStatus, TimePasses, ReadPartition, FreeFound,
                  LeaveFree, partVars
    <3> QED
      BY <1>3, <3>1
  <2> QED
    BY <1>9, <2>1, <2>2, <2>3 DEF Proceed
<1>10. ASSUME NEW c \in Client, NEW p \in Partition, PartitionOperation(c, p)  PROVE Frame
  <2>1. ASSUME NEW accepted, NEW s, NEW want, SetAndWait(c, p, accepted, s, want)  PROVE Fixed /\ Count
    BY <1>4, <1>5, <2>1 DEF SetAndWait
  <2>2. ASSUME NEW accepted, NoEffect(c, accepted)  PROVE Fixed /\ Count
    BY <1>4, <1>5, <2>2 DEF NoEffect, partVars
  <2>3. ASSUME NEW accepted, NEW new \in SUBSET Partition, SetIso(c, accepted, new)  PROVE Frame
    BY <1>1, <1>4, <1>5, <2>3 DEF SetIso
  <2>4. CASE Create(c, p) \/ Delete(c, p)
    <3>1. Count
      BY <1>4, <2>4 DEF Create, Delete
    <3>2. dpm' = dpm /\ cpc' = cpc /\ (iso' = iso \/ iso' = iso \ {p})
      BY <1>5, <2>4 DEF Create, Delete
    <3> QED
      BY <1>1, <3>1, <3>2
  <2>5. CASE IncreaseCrypto(c, p) \/ DecreaseCrypto(c, p) \/ ChangeCrypto(c, p)
    <3>1. Count
      BY <1>4, <2>5 DEF IncreaseCrypto, DecreaseCrypto, ChangeCrypto
    <3>2. Fixed
      BY <1>5, <1>6, <2>5 DEF IncreaseCrypto, DecreaseCrypto, ChangeCrypto
    <3> QED
      BY <1>2, <3>1, <3>2
  <2>6. iso \cup {p} \in SUBSET Partition /\ iso \ {p} \in SUBSET Partition
    BY <1>1
  <2> QED
    BY <1>2, <1>10, <2>1, <2>2, <2>3, <2>4, <2>5, <2>6
    DEF PartitionOperation, Start, Stop, DumpPartition, StartDumpProgram, PswRestart, UpdateProperties,
        MountIsoImage, UnmountIsoImage
<1>11. ASSUME CpcChanges  PROVE Frame
  BY <1>1, <1>11 DEF CpcChanges, partVars, CpcStatus
<1>12. ASSUME NEW p, NEW s, StatusChanges(p, s)  PROVE Fixed /\ Count
  BY <1>3, <1>12 DEF StatusChanges
<1> HIDE DEF Frame, Fixed, Count
<1>13. Frame
  BY <1>2, <1>7, <1>8, <1>9, <1>10, <1>11, <1>12 DEF PartitionsNext
<1> QED
  BY <1>13 DEF Frame

\* The calls on whose account a step is taken, and those that it leaves alone, are calls.
LEMMA CallTypes ==
  ASSUME PartitionsTypeOK, NEW c \in Client, NEW new \in CallType, new.pc \in {"wait", "check"} => new.on # {}
  PROVE  /\ [call EXCEPT ![c] = new] \in [Client -> CallType]
         /\ \A d \in Client : LET k == [call EXCEPT ![c] = new][d]
                              IN  k.pc \in {"wait", "check"} => k.on # {}
BY DEF PartitionsTypeOK

LEMMA StepTypes ==
  ASSUME PartitionsTypeOK, [PartitionsNext]_cpcVars
  PROVE  /\ part' \in [Partition -> PartStatus \cup {"none", "gone"}]
         /\ crypto' \in [Partition -> Config]
         /\ careless' \in BOOLEAN
         /\ call' \in [Client -> CallType]
         /\ \A c \in Client : call'[c].pc \in {"wait", "check"} => call'[c].on # {}
<1> DEFINE Waits(cs) == \A c \in Client : cs[c].pc \in {"wait", "check"} => cs[c].on # {}
           PartOK    == part' \in [Partition -> PartStatus \cup {"none", "gone"}]
           CryptoOK  == crypto' \in [Partition -> Config]
           CallOK    == call' \in [Client -> CallType] /\ Waits(call')
           Good      == PartOK /\ CryptoOK /\ careless' \in BOOLEAN /\ CallOK
<1>1. /\ part \in [Partition -> PartStatus \cup {"none", "gone"}]
      /\ crypto \in [Partition -> Config]
      /\ careless \in BOOLEAN
      /\ call \in [Client -> CallType]
      /\ Waits(call)
  BY DEF PartitionsTypeOK
<1>2. /\ UNCHANGED part => PartOK
      /\ UNCHANGED crypto => CryptoOK
      /\ UNCHANGED careless => careless' \in BOOLEAN
      /\ UNCHANGED call => CallOK
  BY <1>1
<1>3. ASSUME NEW cs \in [Client -> CallType], Waits(cs), NEW p,
             NEW s \in PartStatus \cup {"none", "gone"}, SetStatus(p, s, cs)
      PROVE  PartOK /\ CallOK
  <2>1. call' \in [Client -> CallType]
    BY <1>3, StatusSet
  <2>2. \A d \in Client : call'[d].pc = cs[d].pc /\ call'[d].on = cs[d].on
    BY <1>3, StatusSet
  <2>3. part' = [part EXCEPT ![p] = s]
    BY <1>3, StatusSet
  <2> QED
    BY <1>1, <1>3, <2>1, <2>2, <2>3
<1>4. ASSUME NEW c \in Client, NEW new \in CallType, new.pc \in {"wait", "check"} => new.on # {}
      PROVE  [call EXCEPT ![c] = new] \in [Client -> CallType] /\ Waits([call EXCEPT ![c] = new])
  BY <1>4, CallTypes
<1>5. ASSUME NEW c \in Client, NEW p \in Partition, NEW config \in Config, NEW found,
             SetCrypto(c, p, config, found)
      PROVE  Good
  <2>1. CryptoOK /\ PartOK
    BY <1>1, <1>2, <1>5, CryptoSet
  <2>9. careless' \in BOOLEAN
    BY <1>1, <1>5 DEF SetCrypto
  <2>2. call' \in [Client -> CallType] /\ call'[c].pc = "idle"
    BY <1>5, CryptoSet, NewCalls
  <2>3. \A d \in Client \ {c} :
          call'[d] = call[d] \/ call'[d].pc \in {"read", "assign"}
    BY <1>5, CryptoSet
  <2> QED
    BY <1>1, <2>1, <2>2, <2>3, <2>9
<1> HIDE DEF Waits, PartOK, CryptoOK, CallOK
<1>6. ASSUME NEW c \in Client, AnswerStep(c)  PROVE Good
  <2>1. PICK pc \in {"idle", "error"} : Answer(c, pc)
    BY <1>6 DEF AnswerStep
  <2>2. [NoCall EXCEPT !.pc = pc] \in CallType /\ [NoCall EXCEPT !.pc = pc].pc = pc
    BY NewCalls
  <2>3. call' = [call EXCEPT ![c] = [NoCall EXCEPT !.pc = pc]]
    BY <2>1 DEF Answer
  <2>4. CallOK
    BY <1>4, <2>2, <2>3 DEF CallOK
  <2> QED
    BY <1>2, <1>6, <2>4 DEF AnswerStep
<1>7. ASSUME NEW c \in Client, CallStep(c)  PROVE Good
  <2>1. CallOK
    BY <1>1, <1>7, CallStepTypes DEF CallOK, Waits
  <2> QED
    BY <1>2, <1>7, <2>1 DEF CallStep
<1>8. ASSUME NEW c \in Client, NEW p \in Partition, PartitionStep(c, p)  PROVE Good
  <2>1. CASE WaitStep(c, p)
    <3>1. PICK s \in PartStatus, want \in SUBSET PartStatus :
            SetStatus(p, s, [call EXCEPT ![c] = [NoCall EXCEPT !.pc = "wait", !.on = {p},
                                                                   !.want = want]])
      BY <2>1 DEF WaitStep
    <3> DEFINE w == [NoCall EXCEPT !.pc = "wait", !.on = {p}, !.want = want]
    <3>2. w \in CallType /\ w.on # {}
      <4>1. w \in CallType /\ w.on = {p}
        BY NewWait, Zenon
      <4> QED
        BY <4>1
    <3> HIDE DEF w
    <3>3. PartOK /\ CallOK
      BY <1>3, <1>4, <3>1, <3>2 DEF w
    <3> QED
      BY <1>2, <2>1, <3>3 DEF WaitStep
  <2>2. CASE CreateStep(c, p) \/ DeleteStep(c, p)
    <3>1. NoCall \in CallType /\ NoCall.pc = "idle"
      BY NewCalls
    <3>2. \E s \in {"stopped", "gone"} : SetStatus(p, s, [call EXCEPT ![c] = NoCall])
      BY <2>2 DEF CreateStep, DeleteStep
    <3>3. "stopped" \in PartStatus
      BY DEF PartStatus
    <3>4. PartOK /\ CallOK
      BY <1>3, <1>4, <3>1, <3>2, <3>3
    <3>5. [adapter |-> FALSE, entries |-> <<>>] \in Config
      BY DEF Config
    <3>6. CryptoOK
      BY <1>1, <1>2, <2>2, <3>5 DEF CreateStep, DeleteStep, CryptoOK
    <3> QED
      BY <1>2, <2>2, <3>4, <3>6 DEF CreateStep, DeleteStep
  <2>3. CASE FreeStep(c, p)
    <3>1. PICK d \in Domain \ call[c].used :
            SetCrypto(c, p, Increased(crypto[p], TRUE, <<<<d, "control-usage">>>>), TRUE)
      BY <2>3 DEF FreeStep
    <3>2. crypto[p] \in Config /\ <<d, "control-usage">> \in Domain \X Mode
      BY <1>1 DEF Mode
    <3>3. Increased(crypto[p], TRUE, <<<<d, "control-usage">>>>) \in Config
      BY <3>2, ConfigTypes
    <3> QED
      BY <1>5, <3>1, <3>3
  <2>4. CASE ConfigStep(c, p)
    BY <1>5, <2>4 DEF ConfigStep
  <2> QED
    BY <1>8, <2>1, <2>2, <2>3, <2>4 DEF PartitionStep
<1>9. ASSUME NEW p \in Partition, ChangeStep(p)  PROVE Good
  BY <1>1, <1>2, <1>3, <1>9 DEF ChangeStep
<1>10. Good
  BY <1>2, <1>6, <1>7, <1>8, <1>9, PartitionStepKinds
<1> QED
  BY <1>10 DEF PartOK, CryptoOK, CallOK, Waits

LEMMA InitTypes ==
  ASSUME PartitionsInit
  PROVE  PartitionsTypeOK
<1>1. "stopped" \in PartStatus
  BY DEF PartStatus
<1>2. part \in [Partition -> PartStatus \cup {"none", "gone"}]
  <2>1. CASE dpm
    <3>1. PICK ps : part = [p \in Partition |-> IF p \in ps THEN "stopped" ELSE "none"]
      BY <2>1 DEF PartitionsInit
    <3> QED
      BY <1>1, <3>1
  <2>2. CASE ~dpm
    BY <2>2 DEF PartitionsInit
  <2> QED
    BY <2>1, <2>2
<1>3. dpm \in BOOLEAN /\ cpc \in CpcStatus
  BY DEF PartitionsInit, CpcStatus
<1>4. crypto \in [Partition -> Config]
  BY DEF PartitionsInit, Config
<1>5. call \in [Client -> CallType] /\ \A c \in Client : call[c].pc = "idle"
  BY NewCalls DEF PartitionsInit
<1>6. iso \subseteq Partition /\ careless \in BOOLEAN /\ calls \in 0..MaxCalls
  <2>1. iso \subseteq Partition
    BY DEF PartitionsInit
  <2>2. careless \in BOOLEAN
    BY Zenon DEF PartitionsInit
  <2>3. calls = 0
    BY DEF PartitionsInit
  <2> QED
    BY <2>1, <2>2, <2>3
<1> QED
  BY <1>2, <1>3, <1>4, <1>5, <1>6 DEF PartitionsTypeOK

\* The crypto configurations stay sequences of domains with a mode, and the calls stay
\* within their states, through every operation on the CPC and its partitions.
THEOREM PartitionsTypeCorrect == PartitionsSpec => []PartitionsTypeOK
<1>1. PartitionsInit => PartitionsTypeOK
  BY InitTypes
<1>2. PartitionsTypeOK /\ [PartitionsNext]_cpcVars => PartitionsTypeOK'
  BY FrameTypes, StepTypes DEF PartitionsTypeOK
<1> QED
  BY <1>1, <1>2, PTL DEF PartitionsSpec

--------------------------------------------------------------------------------
(* What a call of start() or stop() has seen *)

\* A call that has reached, or is about to find, a desired status has had it; so has one whose
\* partition has such a status now, because the history is of the time since the request.
Waited(k, st) ==
    /\ k.pc = "ok" => k.hit
    /\ k.pc = "check" /\ k.saw \in k.want => k.hit
    /\ k.pc \in {"wait", "check"} => \A p \in k.on : st[p] \in k.want => k.hit

WaitInv == \A c \in Client : Waited(call[c], part)

\* Of the call whose request sets the status, nothing is asked before.
LEMMA WaitedStatus ==
  ASSUME PartitionsTypeOK, NEW cs \in [Client -> CallType], NEW p \in Partition, NEW s, SetStatus(p, s, cs),
         \A d \in Client : Waited(cs[d], part) \/ (cs[d].pc = "wait" /\ cs[d].on = {p})
  PROVE  WaitInv'
<1> SUFFICES ASSUME NEW d \in Client  PROVE Waited(call'[d], part')
  BY DEF WaitInv
<1>1. /\ part' = [part EXCEPT ![p] = s]
      /\ call'[d].pc = cs[d].pc /\ call'[d].on = cs[d].on /\ call'[d].want = cs[d].want
      /\ call'[d].saw = cs[d].saw /\ (cs[d].hit => call'[d].hit)
      /\ cs[d].on = {p} /\ s \in cs[d].want => call'[d].hit
  BY StatusSet
<1>2. part \in [Partition -> PartStatus \cup {"none", "gone"}]
  BY DEF PartitionsTypeOK
<1>3. cs[d].on = {} \/ \E q \in Partition : cs[d].on = {q}
  BY DEF CallType
<1>4. \A q \in Partition : q # p => part'[q] = part[q]
  BY <1>1, <1>2
<1>5. part'[p] = s
  BY <1>1, <1>2
<1> QED
  BY <1>1, <1>3, <1>4, <1>5 DEF Waited

LEMMA WaitedCall ==
  ASSUME PartitionsTypeOK, WaitInv, NEW c \in Client, CallStep(c)
  PROVE  Waited(call'[c], part')
<1> DEFINE k == call[c]
<1>1. /\ k \in CallType /\ call \in [Client -> CallType] /\ UNCHANGED part /\ Waited(k, part)
  BY DEF PartitionsTypeOK, CallStep, WaitInv
<1>2. ASSUME NEW new, call' = [call EXCEPT ![c] = new]  PROVE call'[c] = new
  BY <1>1, <1>2
<1>3. call'[c].pc \in {"error", "read", "assign"} => Waited(call'[c], part')
  BY DEF Waited
<1>10. ASSUME Answer(c, "error")  PROVE call'[c].pc = "error"
  <2>1. call' = [call EXCEPT ![c] = [NoCall EXCEPT !.pc = "error"]]
    BY <1>10 DEF Answer
  <2> QED
    BY <1>2, <2>1, NewCalls
<1>4. CASE PollStatus(c)
  <2>1. PICK p \in k.on : IF part[p] \in PartStatus
             THEN call' = [call EXCEPT ![c].pc = "check", ![c].saw = part[p]]
             ELSE Answer(c, "error")
    BY <1>4 DEF PollStatus
  <2>2. CASE part[p] \in PartStatus
    <3> DEFINE new == [k EXCEPT !.pc = "check", !.saw = part[p]]
    <3>1. call' = [call EXCEPT ![c] = new] /\ k.pc = "wait"
      BY <1>4, <2>1, <2>2 DEF PollStatus
    <3> HIDE DEF k
    <3>2. new.pc = "check" /\ new.saw = part[p] /\ new.on = k.on /\ new.want = k.want /\ new.hit = k.hit
      BY <1>1 DEF CallType
    <3> HIDE DEF new
    <3>3. Waited(new, part')
      BY <1>1, <2>1, <3>1, <3>2 DEF Waited
    <3> QED
      BY <1>2, <3>1, <3>3
  <2>3. CASE part[p] \notin PartStatus
    BY <1>3, <1>10, <2>1, <2>3
  <2> QED
    BY <2>2, <2>3
<1>5. CASE CheckStatus(c)
  <2> DEFINE pc  == IF k.saw \in k.want THEN "ok" ELSE IF k.late THEN "timeout" ELSE "wait"
             new == [k EXCEPT !.saw = "none", !.pc = pc]
  <2>1. call' = [call EXCEPT ![c] = new] /\ k.pc = "check"
    BY <1>5 DEF CheckStatus
  <2> HIDE DEF k
  <2>2. new.pc = pc /\ new.on = k.on /\ new.want = k.want /\ new.hit = k.hit
    BY <1>1 DEF CallType
  <2>3. Waited(new, part')
    <3>1. (pc = "ok") = (k.saw \in k.want) /\ pc \in {"ok", "timeout", "wait"}
      OBVIOUS
    <3> HIDE DEF new, pc
    <3> QED
      BY <1>1, <2>1, <2>2, <3>1 DEF Waited
  <2> HIDE DEF new
  <2> QED
    BY <1>2, <2>1, <2>3
<1>6. CASE TimePasses(c)
  <2> DEFINE new == [k EXCEPT !.late = TRUE]
  <2>1. call' = [call EXCEPT ![c] = new]
    BY <1>6 DEF TimePasses
  <2> HIDE DEF k
  <2>2. /\ new.pc = k.pc /\ new.on = k.on /\ new.want = k.want /\ new.hit = k.hit
        /\ new.saw = k.saw
    BY <1>1 DEF CallType
  <2> HIDE DEF new
  <2> QED
    BY <1>1, <1>2, <2>1, <2>2 DEF Waited
<1>7. CASE FindFree(c)
  <2> DEFINE new == [NoCall EXCEPT !.pc = "read", !.left = LivePartitions]
  <2>1. call' = [call EXCEPT ![c] = new] /\ new.pc = "read"
    BY <1>7 DEF FindFree, NoCall
  <2> HIDE DEF new
  <2> QED
    BY <1>2, <1>3, <2>1
<1>8. CASE ReadPartition(c)
  <2>1. call'[c].pc \in {"read", "error"}
    <3>1. PICK p \in k.left : IF part[p] = "gone" THEN Answer(c, "error")
               ELSE call' = [call EXCEPT ![c].left = @ \ {p},
                               ![c].used = @ \cup {d \in Domain : Uses(crypto, p, d)}]
      BY <1>8 DEF ReadPartition
    <3>2. CASE part[p] # "gone"
      <4> DEFINE us  == {d \in Domain : Uses(crypto, p, d)}
                 new == [k EXCEPT !.left = @ \ {p}, !.used = @ \cup us]
      <4>1. call' = [call EXCEPT ![c] = new] /\ k.pc = "read"
        BY <1>8, <3>1, <3>2 DEF ReadPartition
      <4> HIDE DEF k, us
      <4>2. new.pc = k.pc
        BY <1>1 DEF CallType
      <4> HIDE DEF new
      <4> QED
        BY <1>2, <4>1, <4>2
    <3>3. CASE part[p] = "gone"
      BY <1>10, <3>1, <3>3
    <3> QED
      BY <3>2, <3>3
  <2> QED
    BY <1>3, <2>1
<1>9. CASE FreeFound(c)
  <2> DEFINE new == [k EXCEPT !.pc = "assign"]
  <2>1. call' = [call EXCEPT ![c] = new]
    BY <1>9 DEF FreeFound
  <2> HIDE DEF k
  <2>2. new.pc = "assign"
    BY <1>1 DEF CallType
  <2> HIDE DEF new
  <2> QED
    BY <1>2, <1>3, <2>1, <2>2
<1> QED
  BY <1>4, <1>5, <1>6, <1>7, <1>8, <1>9 DEF CallStep

LEMMA WaitedStep ==
  ASSUME PartitionsTypeOK, WaitInv, [PartitionsNext]_cpcVars
  PROVE  WaitInv'
<1>1. call \in [Client -> CallType] /\ \A c \in Client : Waited(call[c], part)
  BY DEF PartitionsTypeOK, WaitInv
<1>2. CASE UNCHANGED <<part, crypto, careless, call>>
  BY <1>2 DEF WaitInv
<1>3. ASSUME NEW c \in Client, AnswerStep(c)  PROVE WaitInv'
  <2>1. PICK pc \in {"idle", "error"} : Answer(c, pc)
    BY <1>3 DEF AnswerStep
  <2>2. call' = [call EXCEPT ![c] = [NoCall EXCEPT !.pc = pc]]
    BY <2>1 DEF Answer
  <2>3. call'[c].pc = pc /\ \A d \in Client \ {c} : call'[d] = call[d]
    BY <1>1, <2>2, NewCalls
  <2>4. UNCHANGED part
    BY <1>3 DEF AnswerStep
  <2> QED
    BY <1>1, <2>3, <2>4 DEF WaitInv, Waited
<1>4. ASSUME NEW c \in Client, CallStep(c)  PROVE WaitInv'
  <2>1. Waited(call'[c], part') /\ UNCHANGED part /\ \A d \in Client \ {c} : call'[d] = call[d]
    BY <1>4, WaitedCall, CallStepTypes DEF CallStep
  <2> QED
    BY <1>1, <2>1 DEF WaitInv
<1>5. ASSUME NEW c \in Client, NEW p \in Partition, PartitionStep(c, p)  PROVE WaitInv'
  <2>1. CASE WaitStep(c, p)
    <3>1. PICK s \in PartStatus, want \in SUBSET PartStatus :
            SetStatus(p, s, [call EXCEPT ![c] = [NoCall EXCEPT !.pc = "wait", !.on = {p},
                                                                   !.want = want]])
      BY <2>1 DEF WaitStep
    <3> DEFINE w == [NoCall EXCEPT !.pc = "wait", !.on = {p}, !.want = want]
    <3>2. w \in CallType /\ w.pc = "wait" /\ w.on = {p}
      BY NewWait, Zenon
    <3> HIDE DEF w
    <3>3. /\ [call EXCEPT ![c] = w] \in [Client -> CallType]
          /\ \A d \in Client : \/ Waited([call EXCEPT ![c] = w][d], part)
                               \/ /\ [call EXCEPT ![c] = w][d].pc = "wait"
                                  /\ [call EXCEPT ![c] = w][d].on = {p}
      BY <1>1, <3>2
    <3> QED
      BY <3>1, <3>3, WaitedStatus DEF w
  <2>2. CASE CreateStep(c, p) \/ DeleteStep(c, p)
    <3>1. NoCall \in CallType /\ Waited(NoCall, part)
      BY NewCalls DEF Waited
    <3>2. PICK s \in {"stopped", "gone"} : SetStatus(p, s, [call EXCEPT ![c] = NoCall])
      BY <2>2 DEF CreateStep, DeleteStep
    <3>3. /\ [call EXCEPT ![c] = NoCall] \in [Client -> CallType]
          /\ \A d \in Client : Waited([call EXCEPT ![c] = NoCall][d], part)
      BY <1>1, <3>1
    <3> QED
      BY <3>2, <3>3, WaitedStatus
  <2>3. CASE FreeStep(c, p) \/ ConfigStep(c, p)
    <3>1. PICK config, found : SetCrypto(c, p, config, found)
      BY <2>3 DEF FreeStep, ConfigStep
    <3>2. /\ UNCHANGED part /\ call'[c].pc = "idle"
          /\ \A d \in Client \ {c} : call'[d] = call[d] \/ call'[d].pc \in {"read", "assign"}
      BY <3>1, CryptoSet, NewCalls
    <3> QED
      BY <1>1, <3>2 DEF WaitInv, Waited
  <2> QED
    BY <1>5, <2>1, <2>2, <2>3 DEF PartitionStep
<1>6. ASSUME NEW p \in Partition, ChangeStep(p)  PROVE WaitInv'
  BY <1>1, <1>6, WaitedStatus DEF ChangeStep
<1> QED
  BY <1>2, <1>3, <1>4, <1>5, <1>6, PartitionStepKinds

\* start() and stop() return only after the partition has had a desired status since the request,
\* however many clients poll, whatever the other clients and the CPC do to it between the
\* reading of a status and the decision, and whether or not the time is over meanwhile.
THEOREM StatusIsReached == PartitionsSpec => []StatusReached
<1>1. PartitionsInit => WaitInv
  <2>1. ASSUME PartitionsInit, NEW c \in Client  PROVE call[c].pc = "idle"
    BY <2>1, NewCalls DEF PartitionsInit
  <2> QED
    BY <2>1 DEF WaitInv, Waited
<1>2. PartitionsTypeOK /\ WaitInv /\ [PartitionsNext]_cpcVars => WaitInv'
  BY WaitedStep
<1>3. WaitInv => StatusReached
  BY DEF WaitInv, Waited, StatusReached
<1> QED
  BY <1>1, <1>2, <1>3, PartitionsTypeCorrect, PTL DEF PartitionsSpec

--------------------------------------------------------------------------------
(* The domains in use *)

\* What get_free_crypto_domains() has found out holds until another client takes a domain into
\* use: every domain in use is known, or is of a partition that is still to be read.
Informed(k, cr) ==
    /\ k.pc = "assign" => k.left = {}
    /\ k.pc \in {"read", "assign"} /\ ~k.raced =>
          \A p \in Partition, d \in Domain : Uses(cr, p, d) => p \in k.left \/ d \in k.used

\* A partition that has not been created or is gone uses no domain, so that it need not be read.
AdapterOfLive == \A p \in Partition : part[p] \notin PartStatus => ~crypto[p].adapter

ReadInv == \A c \in Client : Informed(call[c], crypto)

DomainInv == AdapterOfLive /\ ReadInv /\ UsageExclusive

LEMMA UsageKept ==
  ASSUME UsageExclusive, UNCHANGED careless,
         \A p \in Partition, d \in Domain : Uses(crypto', p, d) => Uses(crypto, p, d)
  PROVE  UsageExclusive'
BY DEF UsageExclusive

LEMMA UsageSubset ==
  ASSUME Usage(crypto') \subseteq Usage(crypto), NEW p \in Partition, NEW d \in Domain,
         Uses(crypto', p, d)
  PROVE  Uses(crypto, p, d)
<1>1. <<p, d>> \in Usage(crypto')
  BY DEF Usage
<1>2. <<p, d>> \in Usage(crypto)
  BY <1>1
<1> QED
  BY <1>2 DEF Usage

\* Of a change of the status, only the status of the partition is seen.
LEMMA InformedStatus ==
  ASSUME PartitionsTypeOK, NEW cs \in [Client -> CallType], NEW p, NEW s, SetStatus(p, s, cs),
         \A d \in Client : Informed(cs[d], crypto),
         \A q \in Partition, d \in Domain : Uses(crypto', q, d) => Uses(crypto, q, d)
  PROVE  ReadInv'
<1> SUFFICES ASSUME NEW d \in Client  PROVE Informed(call'[d], crypto')
  BY DEF ReadInv
<1>1. /\ call'[d].pc = cs[d].pc /\ call'[d].left = cs[d].left
      /\ call'[d].used = cs[d].used /\ call'[d].raced = cs[d].raced
  BY StatusSet
<1> QED
  BY <1>1 DEF Informed

LEMMA InformedCall ==
  ASSUME PartitionsTypeOK, AdapterOfLive, ReadInv, NEW c \in Client, CallStep(c)
  PROVE  Informed(call'[c], crypto')
<1> DEFINE k == call[c]
<1>1. /\ k \in CallType /\ call \in [Client -> CallType] /\ UNCHANGED crypto
      /\ Informed(k, crypto)
  BY DEF PartitionsTypeOK, CallStep, ReadInv
<1>2. ASSUME NEW new, call' = [call EXCEPT ![c] = new]  PROVE call'[c] = new
  BY <1>1, <1>2
<1>3. call'[c].pc \notin {"read", "assign"} => Informed(call'[c], crypto')
  BY DEF Informed
<1>4. ASSUME Answer(c, "error")  PROVE call'[c].pc = "error"
  <2>1. call' = [call EXCEPT ![c] = [NoCall EXCEPT !.pc = "error"]]
    BY <1>4 DEF Answer
  <2> QED
    BY <1>2, <2>1, NewCalls
<1>5. CASE PollStatus(c)
  <2>1. PICK p \in k.on : IF part[p] \in PartStatus
             THEN call' = [call EXCEPT ![c].pc = "check", ![c].saw = part[p]]
             ELSE Answer(c, "error")
    BY <1>5 DEF PollStatus
  <2>2. CASE part[p] \in PartStatus
    <3> DEFINE new == [k EXCEPT !.pc = "check", !.saw = part[p]]
    <3>1. call' = [call EXCEPT ![c] = new]
      BY <2>1, <2>2
    <3> HIDE DEF k
    <3>2. new.pc = "check"
      BY <1>1 DEF CallType
    <3> HIDE DEF new
    <3> QED
      BY <1>2, <1>3, <3>1, <3>2
  <2> QED
    BY <1>3, <1>4, <2>1, <2>2
<1>6. CASE CheckStatus(c)
  <2> DEFINE pc  == IF k.saw \in k.want THEN "ok" ELSE IF k.late THEN "timeout" ELSE "wait"
             new == [k EXCEPT !.saw = "none", !.pc = pc]
  <2>1. call' = [call EXCEPT ![c] = new]
    BY <1>6 DEF CheckStatus
  <2> HIDE DEF k
  <2>2. new.pc = pc /\ pc \in {"ok", "timeout", "wait"}
    BY <1>1 DEF CallType
  <2> HIDE DEF new
  <2> QED
    BY <1>2, <1>3, <2>1, <2>2
<1>7. CASE TimePasses(c)
  <2> DEFINE new == [k EXCEPT !.late = TRUE]
  <2>1. call' = [call EXCEPT ![c] = new] /\ k.pc \in {"wait", "check"}
    BY <1>7 DEF TimePasses
  <2> HIDE DEF k
  <2>2. new.pc = k.pc
    BY <1>1 DEF CallType
  <2> HIDE DEF new
  <2> QED
    BY <1>2, <1>3, <2>1, <2>2
<1>8. CASE FindFree(c)
  <2> DEFINE new == [NoCall EXCEPT !.pc = "read", !.left = LivePartitions]
  <2>1. call' = [call EXCEPT ![c] = new] /\ new.pc = "read" /\ new.left = LivePartitions
    BY <1>8 DEF FindFree, NoCall
  <2> HIDE DEF new
  <2>2. \A p \in Partition, d \in Domain : Uses(crypto, p, d) => p \in LivePartitions
    BY DEF AdapterOfLive, Uses, LivePartitions
  <2> QED
    BY <1>1, <1>2, <2>1, <2>2 DEF Informed
<1>9. CASE ReadPartition(c)
  <2>1. PICK p \in k.left : IF part[p] = "gone" THEN Answer(c, "error")
             ELSE call' = [call EXCEPT ![c].left = @ \ {p},
                             ![c].used = @ \cup {d \in Domain : Uses(crypto, p, d)}]
    BY <1>9 DEF ReadPartition
  <2>2. CASE part[p] # "gone"
    <3> DEFINE us  == {d \in Domain : Uses(crypto, p, d)}
               new == [k EXCEPT !.left = @ \ {p}, !.used = @ \cup us]
    <3>1. call' = [call EXCEPT ![c] = new] /\ k.pc = "read"
      BY <1>9, <2>1, <2>2 DEF ReadPartition
    <3>2. \A d \in Domain : Uses(crypto, p, d) => d \in us
      OBVIOUS
    <3> HIDE DEF k, us
    <3>3. /\ new.pc = k.pc /\ new.left = k.left \ {p} /\ new.used = k.used \cup us
          /\ new.raced = k.raced
      BY <1>1 DEF CallType
    <3> HIDE DEF new
    <3>4. Informed(new, crypto)
      BY <1>1, <3>1, <3>2, <3>3 DEF Informed
    <3> QED
      BY <1>1, <1>2, <3>1, <3>4
  <2> QED
    BY <1>3, <1>4, <2>1, <2>2
<1>10. CASE FreeFound(c)
  <2> DEFINE new == [k EXCEPT !.pc = "assign"]
  <2>1. call' = [call EXCEPT ![c] = new] /\ k.pc = "read" /\ k.left = {}
    BY <1>10 DEF FreeFound
  <2> HIDE DEF k
  <2>2. new.pc = "assign" /\ new.left = k.left /\ new.used = k.used /\ new.raced = k.raced
    BY <1>1 DEF CallType
  <2> HIDE DEF new
  <2>3. Informed(new, crypto)
    BY <1>1, <2>1, <2>2 DEF Informed
  <2> QED
    BY <1>1, <1>2, <2>1, <2>3
<1> QED
  BY <1>5, <1>6, <1>7, <1>8, <1>9, <1>10 DEF CallStep

\* The configuration of p changes.  Either no domain gets into use, and all that the clients
\* know holds, or their knowledge is spoilt.
LEMMA InformedCrypto ==
  ASSUME PartitionsTypeOK, AdapterOfLive, ReadInv, NEW c \in Client, NEW p \in Partition, NEW config, NEW found,
         part[p] \in PartStatus, SetCrypto(c, p, config, found)
  PROVE  AdapterOfLive' /\ ReadInv'
<1> DEFINE more == ~(Usage(crypto') \subseteq Usage(crypto))
<1>1. /\ crypto' = [crypto EXCEPT ![p] = config] /\ UNCHANGED part
      /\ call'[c] = NoCall
      /\ \A d \in Client \ {c} :
            /\ call[d].pc \in {"read", "assign"} =>
                  /\ call'[d].pc = call[d].pc /\ call'[d].left = call[d].left
                  /\ call'[d].used = call[d].used
                  /\ call'[d].raced = (call[d].raced \/ more)
            /\ call[d].pc \notin {"read", "assign"} => call'[d] = call[d]
  BY CryptoSet
<1>2. AdapterOfLive'
  <2>1. \A q \in Partition : q # p => crypto'[q] = crypto[q]
    BY <1>1 DEF PartitionsTypeOK
  <2> QED
    BY <1>1, <2>1 DEF AdapterOfLive
<1>3. ~more => \A q \in Partition, e \in Domain : Uses(crypto', q, e) => Uses(crypto, q, e)
  BY UsageSubset
<1> HIDE DEF more
<1>4. ASSUME NEW d \in Client  PROVE Informed(call'[d], crypto')
  <2>1. CASE d = c
    BY <1>1, <2>1, NewCalls DEF Informed
  <2>2. CASE d # c /\ call[d].pc \notin {"read", "assign"}
    BY <1>1, <2>2 DEF Informed
  <2>3. CASE d # c /\ call[d].pc \in {"read", "assign"}
    BY <1>1, <1>3, <2>3 DEF Informed, ReadInv
  <2> QED
    BY <2>1, <2>2, <2>3
<1> QED
  BY <1>2, <1>4 DEF ReadInv

\* A client that was not overtaken takes a domain that no partition uses.
LEMMA FreeIsFree ==
  ASSUME PartitionsTypeOK, DomainInv, NEW c \in Client, NEW p \in Partition, FreeStep(c, p)
  PROVE  UsageExclusive'
<1>1. PICK d \in Domain \ call[c].used :
        SetCrypto(c, p, Increased(crypto[p], TRUE, <<<<d, "control-usage">>>>), TRUE)
  BY DEF FreeStep
<1>2. crypto' = [crypto EXCEPT ![p] = Increased(crypto[p], TRUE, <<<<d, "control-usage">>>>)]
  BY <1>1 DEF SetCrypto
<1>3. \A q \in Partition, e \in Domain :
        Uses(crypto', q, e) => Uses(crypto, q, e) \/ (q = p /\ e = d)
  BY <1>2, FreeTaken DEF FreeStep
<1> DEFINE more == ~(Usage(crypto') \subseteq Usage(crypto))
<1>4. careless' = (careless \/ (more /\ call[c].raced))
  BY <1>1 DEF SetCrypto
<1>5. CASE ~more
  <2>1. \A q \in Partition, e \in Domain : Uses(crypto', q, e) => Uses(crypto, q, e)
    BY <1>5, UsageSubset
  <2> QED
    BY <1>4, <2>1 DEF DomainInv, UsageExclusive
<1>6. CASE call[c].raced /\ more
  BY <1>4, <1>6 DEF UsageExclusive
<1>7. CASE ~call[c].raced
  <2>1. call[c].pc = "assign" /\ Informed(call[c], crypto)
    BY DEF FreeStep, DomainInv, ReadInv
  <2>2. \A q \in Partition : ~Uses(crypto, q, d)
    BY <1>7, <2>1 DEF Informed
  <2>3. careless' = careless
    BY <1>4, <1>7 DEF PartitionsTypeOK
  <2> HIDE DEF more
  <2> QED
    BY <1>3, <2>2, <2>3 DEF DomainInv, UsageExclusive
<1> QED
  BY <1>5, <1>6, <1>7

LEMMA DomainStep ==
  ASSUME PartitionsTypeOK, DomainInv, [PartitionsNext]_cpcVars
  PROVE  DomainInv'
<1>1. /\ call \in [Client -> CallType]
      /\ AdapterOfLive /\ UsageExclusive /\ \A c \in Client : Informed(call[c], crypto)
      /\ part \in [Partition -> PartStatus \cup {"none", "gone"}]
      /\ crypto \in [Partition -> Config]
  BY DEF PartitionsTypeOK, DomainInv, ReadInv
<1>2. CASE UNCHANGED <<part, crypto, careless, call>>
  BY <1>2 DEF DomainInv, AdapterOfLive, ReadInv, UsageExclusive
<1>3. ASSUME UNCHANGED <<crypto, careless>>
      PROVE  UsageExclusive' /\ \A q \in Partition, d \in Domain : Uses(crypto', q, d) => Uses(crypto, q, d)
  BY <1>1, <1>3 DEF UsageExclusive
<1>4. ASSUME NEW p \in Partition, NEW s \in PartStatus, part' = [part EXCEPT ![p] = s], UNCHANGED crypto
      PROVE  AdapterOfLive'
  BY <1>1, <1>4 DEF AdapterOfLive
<1>5. ASSUME NEW c \in Client, AnswerStep(c)  PROVE DomainInv'
  <2>1. PICK pc \in {"idle", "error"} : Answer(c, pc)
    BY <1>5 DEF AnswerStep
  <2>2. call' = [call EXCEPT ![c] = [NoCall EXCEPT !.pc = pc]]
    BY <2>1 DEF Answer
  <2>3. call'[c].pc = pc /\ \A d \in Client \ {c} : call'[d] = call[d]
    BY <1>1, <2>2, NewCalls
  <2>4. UNCHANGED <<part, crypto, careless>>
    BY <1>5 DEF AnswerStep
  <2>5. ReadInv'
    BY <1>1, <2>3, <2>4 DEF ReadInv, Informed
  <2> QED
    BY <1>1, <1>3, <2>4, <2>5 DEF DomainInv, AdapterOfLive
<1>6. ASSUME NEW c \in Client, CallStep(c)  PROVE DomainInv'
  <2>1. UNCHANGED <<part, crypto, careless>> /\ \A d \in Client \ {c} : call'[d] = call[d]
    BY <1>6, CallStepTypes DEF CallStep
  <2>2. Informed(call'[c], crypto')
    BY <1>6, InformedCall DEF DomainInv
  <2>3. ReadInv'
    BY <1>1, <2>1, <2>2 DEF ReadInv
  <2> QED
    BY <1>1, <1>3, <2>1, <2>3 DEF DomainInv, AdapterOfLive
<1>7. ASSUME NEW c \in Client, NEW p \in Partition, PartitionStep(c, p)  PROVE DomainInv'
  <2>1. CASE WaitStep(c, p)
    <3>1. PICK s \in PartStatus, want \in SUBSET PartStatus :
            SetStatus(p, s, [call EXCEPT ![c] = [NoCall EXCEPT !.pc = "wait", !.on = {p},
                                                                   !.want = want]])
      BY <2>1 DEF WaitStep
    <3> DEFINE w == [NoCall EXCEPT !.pc = "wait", !.on = {p}, !.want = want]
    <3>2. w \in CallType /\ w.pc = "wait"
      BY NewWait, Zenon
    <3> HIDE DEF w
    <3>3. /\ [call EXCEPT ![c] = w] \in [Client -> CallType]
          /\ \A d \in Client : Informed([call EXCEPT ![c] = w][d], crypto)
      BY <1>1, <3>2 DEF Informed
    <3>4. UNCHANGED <<crypto, careless>>
      BY <2>1 DEF WaitStep
    <3>5. ReadInv' /\ part' = [part EXCEPT ![p] = s]
      BY <1>3, <3>1, <3>3, <3>4, InformedStatus DEF w, SetStatus
    <3> QED
      BY <1>3, <1>4, <3>4, <3>5 DEF DomainInv
  <2>2. CASE CreateStep(c, p) \/ DeleteStep(c, p)
    <3>1. NoCall \in CallType /\ Informed(NoCall, crypto)
      BY NewCalls DEF Informed
    <3>2. PICK s \in {"stopped", "gone"} : SetStatus(p, s, [call EXCEPT ![c] = NoCall])
      BY <2>2 DEF CreateStep, DeleteStep
    <3>3. /\ [call EXCEPT ![c] = NoCall] \in [Client -> CallType]
          /\ \A d \in Client : Informed([call EXCEPT ![c] = NoCall][d], crypto)
      BY <1>1, <3>1
    <3>4. /\ UNCHANGED careless
          /\ \A q \in Partition : crypto'[q] = crypto[q] \/ ~crypto'[q].adapter
      BY <1>1, <2>2 DEF CreateStep, DeleteStep
    <3>5. \A q \in Partition, d \in Domain : Uses(crypto', q, d) => Uses(crypto, q, d)
      BY <3>4 DEF Uses
    <3>6. ReadInv'
      BY <3>2, <3>3, <3>5, InformedStatus
    <3>7. UsageExclusive'
      BY <1>1, <3>4, <3>5, UsageKept
    <3>8. CASE CreateStep(c, p)
      <4>1. "stopped" \in PartStatus
        BY DEF PartStatus
      <4>2. part' = [part EXCEPT ![p] = "stopped"] /\ UNCHANGED crypto
        BY <3>8 DEF CreateStep, SetStatus
      <4> QED
        BY <1>4, <3>6, <3>7, <4>1, <4>2 DEF DomainInv
    <3>9. CASE DeleteStep(c, p)
      <4>1. /\ part' = [part EXCEPT ![p] = "gone"]
            /\ crypto' = [crypto EXCEPT ![p] = [adapter |-> FALSE, entries |-> <<>>]]
        BY <3>9 DEF DeleteStep, SetStatus
      <4>2. AdapterOfLive'
        <5>1. crypto'[p].adapter = FALSE
          BY <1>1, <4>1
        <5>2. \A q \in Partition : q # p => part'[q] = part[q] /\ crypto'[q] = crypto[q]
          BY <1>1, <4>1
        <5> QED
          BY <1>1, <5>1, <5>2 DEF AdapterOfLive
      <4> QED
        BY <3>6, <3>7, <4>2 DEF DomainInv
    <3> QED
      BY <2>2, <3>8, <3>9
  <2>3. CASE FreeStep(c, p)
    <3>1. AdapterOfLive' /\ ReadInv'
      BY <2>3, InformedCrypto DEF FreeStep, DomainInv
    <3> QED
      BY <2>3, <3>1, FreeIsFree DEF DomainInv
  <2>4. CASE ConfigStep(c, p)
    <3>1. PICK config \in Config : SetCrypto(c, p, config, FALSE)
      BY <2>4 DEF ConfigStep
    <3>2. AdapterOfLive' /\ ReadInv'
      BY <2>4, <3>1, InformedCrypto DEF ConfigStep, DomainInv
    <3> DEFINE more == ~(Usage(crypto') \subseteq Usage(crypto))
    <3>3. careless' = (careless \/ more)
      BY <3>1 DEF SetCrypto
    <3>4. UsageExclusive'
      <4>1. CASE more
        BY <3>3, <4>1 DEF UsageExclusive
      <4>2. CASE ~more
        <5>1. \A q \in Partition, e \in Domain : Uses(crypto', q, e) => Uses(crypto, q, e)
          BY <4>2, UsageSubset
        <5> QED
          BY <1>1, <3>3, <5>1 DEF UsageExclusive
      <4> QED
        BY <4>1, <4>2
    <3> QED
      BY <3>2, <3>4 DEF DomainInv
  <2> QED
    BY <1>7, <2>1, <2>2, <2>3, <2>4 DEF PartitionStep
<1>8. ASSUME NEW p \in Partition, ChangeStep(p)  PROVE DomainInv'
  <2>1. PICK s \in PartStatus : SetStatus(p, s, call)
    BY <1>8 DEF ChangeStep
  <2>2. UNCHANGED <<crypto, careless>>
    BY <1>8 DEF ChangeStep
  <2>3. ReadInv' /\ part' = [part EXCEPT ![p] = s]
    BY <1>1, <1>3, <2>1, <2>2, InformedStatus DEF SetStatus
  <2> QED
    BY <1>3, <1>4, <2>2, <2>3 DEF DomainInv
<1> QED
  BY <1>2, <1>5, <1>6, <1>7, <1>8, PartitionStepKinds

\* Unless somebody was careless, no two partitions use the same domain, whatever number of clients
\* look for a free one while partitions are created, deleted and reconfigured.
THEOREM UsageIsExclusive == PartitionsSpec => []UsageExclusive
<1>1. PartitionsInit => DomainInv
  <2>1. ASSUME PartitionsInit, NEW c \in Client  PROVE call[c].pc = "idle"
    BY <2>1, NewCalls DEF PartitionsInit
  <2>2. ASSUME PartitionsInit, NEW p \in Partition  PROVE ~crypto[p].adapter
    BY <2>2 DEF PartitionsInit
  <2> QED
    BY <2>1, <2>2 DEF DomainInv, AdapterOfLive, ReadInv, Informed, UsageExclusive, Uses
<1>2. PartitionsTypeOK /\ DomainInv /\ [PartitionsNext]_cpcVars => DomainInv'
  BY DomainStep
<1>3. DomainInv => UsageExclusive
  BY DEF DomainInv
<1> QED
  BY <1>1, <1>2, <1>3, PartitionsTypeCorrect, PTL DEF PartitionsSpec

--------------------------------------------------------------------------------
(***************************************************************************)
(* Proofs about ConsoleInventory, for the same clients.                    *)
(***************************************************************************)
HIDE DeviceAssumption DEF DeviceAssumption

(* The resource objects of the clients *)

ObjType  == [state : {"none", "live", "deleted"}, val : Val]
CopyType == [state : {"none", "live", "ceased"}, val : OneOf(Val)]

\* What a client holds exists, or has existed.
ObjInv ==
    /\ ObjTypeOK
    /\ ClientViewHonest
    /\ \A c \in Client, o \in Obj : Holds(c, o) => obj[o].state # "none"

\* A step changes one resource at most.
OnlyObj(o) == \A x \in Obj \ {o} : obj'[x] = obj[x]

\* All that is overruled from now on, or no more, is the client's own object.
OverruledKept(c, o) ==
    /\ overruled' \in [Client -> SUBSET Obj]
    /\ \A d \in Client, x \in Obj : d # c \/ x # o => (x \in overruled'[d]) = (x \in overruled[d])

\* What a call of client c to its object of resource o has to ensure, for the others not to be
\* deceived: that they differ from now on, or that nothing has changed.
HonestChange(c, o) ==
    /\ calls' \in 0..MaxCalls /\ obj' \in [Obj -> ObjType] /\ OnlyObj(o) /\ OverruledKept(c, o)
    /\ copies' \in [Client -> [Obj -> CopyType]] /\ differs' \in [Client -> SUBSET Obj]
    /\ \A d \in Client, x \in Obj : d # c \/ x # o => copies'[d][x] = copies[d][x]
    /\ \A d \in Client, x \in Obj : x # o => (x \in differs'[d]) = (x \in differs[d])
    /\ obj[o].state # "none" =>
          /\ obj'[o].state # "none"
          /\ obj[o].state = "deleted" => obj'[o].state = "deleted"
          /\ \A d \in Client \ {c} :
                o \notin differs'[d] => o \notin differs[d] /\ obj'[o].val = obj[o].val
    /\ copies'[c][o].state = "ceased" => obj'[o].state = "deleted"
    /\ copies'[c][o].state = "live" =>
          /\ obj'[o].state # "none"
          /\ copies'[c][o].val # {} /\ o \notin differs'[c] \cup overruled'[c]
                => copies'[c][o].val = {obj'[o].val}

LEMMA ObjKept ==
  ASSUME ObjInv, NEW c \in Client, NEW o \in Obj, HonestChange(c, o)
  PROVE  ObjInv'
<1>1. ObjTypeOK'
  BY DEF HonestChange, OverruledKept, ObjTypeOK, ObjType, CopyType
<1>2. ASSUME NEW d \in Client, NEW x \in Obj
      PROVE  /\ copies'[d][x].state = "ceased" => obj'[x].state = "deleted"
             /\ copies'[d][x].state = "live" =>
                   /\ obj'[x].state # "none"
                   /\ copies'[d][x].val # {} /\ x \notin differs'[d] \cup overruled'[d]
                         => copies'[d][x].val = {obj'[x].val}
  <2>1. CASE x # o
    BY <2>1 DEF HonestChange, OverruledKept, ObjInv, ClientViewHonest, Holds, OnlyObj
  <2>2. CASE x = o /\ d # c
    <3>1. copies'[d][o] = copies[d][o]
      BY <2>2 DEF HonestChange
    <3>2. copies[d][o].state = "ceased" => obj[o].state = "deleted"
      BY DEF ObjInv, ClientViewHonest
    <3>3. copies[d][o].state = "live" =>
             /\ obj[o].state # "none"
             /\ copies[d][o].val # {} /\ o \notin differs[d] \cup overruled[d]
                   => copies[d][o].val = {obj[o].val}
      BY DEF ObjInv, ClientViewHonest, Holds
    <3> QED
      BY <2>2, <3>1, <3>2, <3>3 DEF HonestChange, OverruledKept
  <2>3. CASE x = o /\ d = c
    BY <2>3 DEF HonestChange
  <2> QED
    BY <2>1, <2>2, <2>3
<1> QED
  BY <1>1, <1>2 DEF ObjInv, ClientViewHonest, Holds

LEMMA ObjTypes ==
  ASSUME ObjInv
  PROVE  /\ obj \in [Obj -> ObjType] /\ differs \in [Client -> SUBSET Obj]
         /\ copies \in [Client -> [Obj -> CopyType]] /\ calls \in 0..MaxCalls
         /\ overruled \in [Client -> SUBSET Obj]
BY DEF ObjInv, ObjTypeOK, ObjType, CopyType

LEMMA OverruledFacts ==
  ASSUME ObjInv, NEW c \in Client, NEW o \in Obj,
         \/ UNCHANGED overruled \/ Reads(c, o) \/ \E failed \in BOOLEAN : Touches(c, o, failed)
  PROVE  OverruledKept(c, o)
<1>1. UNCHANGED overruled \/ overruled' = Settled(c, o)
  BY DEF Reads, Touches
<1> QED
  BY <1>1, ObjTypes DEF Settled, OverruledKept

LEMMA BeginCounts ==
  ASSUME ObjInv, Begin
  PROVE  calls' \in 0..MaxCalls /\ calls' = calls + 1
BY ObjTypes DEF Begin

LEMMA KnownFacts ==
  ASSUME ObjInv, NEW c \in Client, NEW o \in Obj
  PROVE  /\ Known(c, o) \in [Client -> SUBSET Obj]
         /\ \A d \in Client, x \in Obj :
               d # c \/ x # o => (x \in Known(c, o)[d]) = (x \in differs[d])
BY ObjTypes DEF Known

LEMMA HmcGetFacts ==
  ASSUME ObjInv, NEW o \in Obj
  PROVE  /\ HmcGet(o) \in OneOf(Val)
         /\ Lives(o) => HmcGet(o) = {obj[o].val}
         /\ ~Lives(o) => HmcGet(o) = {}
<1>1. obj[o].val \in Val
  BY ObjTypes DEF ObjType
<1>2. Lives(o) => HmcGet(o) = {obj[o].val}
  BY DEF HmcGet
<1>3. ~Lives(o) => HmcGet(o) = {}
  BY DEF HmcGet
<1> QED
  BY <1>1, <1>2, <1>3 DEF OneOf

--------------------------------------------------------------------------------
(* The generic handlers *)

LEMMA AddFacts ==
  ASSUME ObjInv, NEW o \in Obj, NEW v \in Val, HmcAdd(o, v)
  PROVE  /\ obj' \in [Obj -> ObjType] /\ OnlyObj(o)
         /\ obj[o].state = "none" /\ obj'[o].state = "live" /\ obj'[o].val = v
BY ObjTypes DEF HmcAdd, ObjType, OnlyObj

LEMMA RemoveFacts ==
  ASSUME ObjInv, NEW o \in Obj, HmcRemove(o)
  PROVE  /\ obj' \in [Obj -> ObjType] /\ OnlyObj(o)
         /\ obj'[o].state = "deleted" /\ obj'[o].val = obj[o].val
BY ObjTypes DEF HmcRemove, ObjType, OnlyObj

LEMMA UpdateFacts ==
  ASSUME ObjInv, NEW o \in Obj, NEW v \in Val, HmcUpdate(o, v)
  PROVE  /\ obj' \in [Obj -> ObjType] /\ OnlyObj(o)
         /\ obj[o].state = "live" /\ obj'[o].state = "live" /\ obj'[o].val = v
BY ObjTypes DEF HmcUpdate, ObjType, OnlyObj, Lives

LEMMA CopyFacts ==
  ASSUME ObjInv, NEW c \in Client, NEW o \in Obj, NEW new \in CopyType,
         copies' = [copies EXCEPT ![c][o] = new]
  PROVE  /\ copies' \in [Client -> [Obj -> CopyType]] /\ copies'[c][o] = new
         /\ \A d \in Client, x \in Obj : d # c \/ x # o => copies'[d][x] = copies[d][x]
BY ObjTypes

(* A call that is one of the generic methods *)

LEMMA CreateKeeps ==
  ASSUME ObjInv, NEW c \in Client, NEW o \in Obj, NEW v \in Val, HmcAdd(o, v), CreateObj(c, o, v)
  PROVE  ObjInv' /\ OnlyObj(o) /\ calls' = calls + 1
<1> DEFINE new == [state |-> "live", val |-> {v}]
<1>1. new \in CopyType /\ new.state = "live" /\ new.val = {v}
  BY DEF CopyType, OneOf
<1>2. copies' = [copies EXCEPT ![c][o] = new]
  BY DEF CreateObj
<1> HIDE DEF new
<1>3. /\ copies' \in [Client -> [Obj -> CopyType]] /\ copies'[c][o] = new
      /\ \A d \in Client, x \in Obj : d # c \/ x # o => copies'[d][x] = copies[d][x]
  BY <1>1, <1>2, ObjTypes
<1>4. /\ differs' \in [Client -> SUBSET Obj]
      /\ \A d \in Client, x \in Obj : x # o => (x \in differs'[d]) = (x \in differs[d])
      /\ \A d \in Client \ {c} : o \in differs'[d]
  BY ObjTypes DEF CreateObj, Touches, Touched
<1>5. calls' \in 0..MaxCalls
  BY BeginCounts DEF CreateObj
<1>7. OverruledKept(c, o)
  BY OverruledFacts DEF CreateObj
<1>6. HonestChange(c, o)
  BY <1>1, <1>3, <1>4, <1>5, <1>7, AddFacts DEF HonestChange
<1> QED
  BY <1>6, AddFacts, BeginCounts, ObjKept DEF CreateObj

LEMMA ListKeeps ==
  ASSUME ObjInv, NEW c \in Client, NEW o \in Obj, NEW full \in BOOLEAN, Lives(o), ListObj(c, o, full)
  PROVE  ObjInv' /\ UNCHANGED obj /\ calls' = calls + 1
<1> DEFINE new == [state |-> "live", val |-> IF full THEN HmcGet(o) ELSE {}]
<1>1. new \in CopyType /\ HmcGet(o) = {obj[o].val}
  BY HmcGetFacts DEF CopyType, OneOf
<1>2. copies' = [copies EXCEPT ![c][o] = new] /\ UNCHANGED obj
  BY DEF ListObj
<1>3. new.state = "live" /\ (new.val = {} \/ new.val = {obj'[o].val})
  BY <1>1, <1>2
<1> HIDE DEF new
<1>4. OnlyObj(o) /\ obj[o].state = "live"
  BY <1>2 DEF OnlyObj, Lives
<1>5. /\ copies' \in [Client -> [Obj -> CopyType]] /\ copies'[c][o] = new
      /\ \A d \in Client, x \in Obj : d # c \/ x # o => copies'[d][x] = copies[d][x]
  BY <1>1, <1>2, ObjTypes
<1>6. /\ differs' \in [Client -> SUBSET Obj]
      /\ \A d \in Client, x \in Obj :
            d # c \/ x # o => (x \in differs'[d]) = (x \in differs[d])
  BY KnownFacts DEF ListObj, Reads
<1>7. calls' \in 0..MaxCalls
  BY BeginCounts DEF ListObj
<1>9. OverruledKept(c, o)
  BY OverruledFacts DEF ListObj
<1>8. HonestChange(c, o)
  BY <1>2, <1>3, <1>4, <1>5, <1>6, <1>7, <1>9, ObjTypes DEF HonestChange
<1> QED
  BY <1>2, <1>8, BeginCounts, ObjKept DEF ListObj

LEMMA PullKeeps ==
  ASSUME ObjInv, NEW c \in Client, NEW o \in Obj, PullProperties(c, o)
  PROVE  ObjInv' /\ UNCHANGED obj /\ calls' = calls + 1
<1>1. copies[c][o] \in CopyType /\ copies[c][o].state = "live" /\ obj[o].state # "none"
  BY ObjTypes DEF PullProperties, Holds, ObjInv
<1>2. UNCHANGED obj /\ OnlyObj(o)
  BY DEF PullProperties, OnlyObj
<1>3. /\ differs' \in [Client -> SUBSET Obj]
      /\ \A d \in Client, x \in Obj :
            d # c \/ x # o => (x \in differs'[d]) = (x \in differs[d])
  BY KnownFacts DEF PullProperties, Reads
<1>4. calls' \in 0..MaxCalls
  BY BeginCounts DEF PullProperties
<1>7. OverruledKept(c, o)
  BY OverruledFacts DEF PullProperties
<1>5. ASSUME Lives(o)  PROVE HonestChange(c, o)
  <2> DEFINE new == [copies[c][o] EXCEPT !.val = HmcGet(o)]
  <2>1. new \in CopyType /\ new.state = "live" /\ new.val = {obj[o].val}
    BY <1>1, <1>5, HmcGetFacts DEF CopyType
  <2>2. copies' = [copies EXCEPT ![c][o] = new]
    BY <1>5, ObjTypes, HmcGetFacts DEF PullProperties
  <2> HIDE DEF new
  <2>3. /\ copies' \in [Client -> [Obj -> CopyType]] /\ copies'[c][o] = new
        /\ \A d \in Client, x \in Obj : d # c \/ x # o => copies'[d][x] = copies[d][x]
    BY <2>1, <2>2, ObjTypes
  <2> QED
    BY <1>1, <1>2, <1>3, <1>4, <1>7, <2>1, <2>3, ObjTypes DEF HonestChange
<1>6. ASSUME ~Lives(o)  PROVE HonestChange(c, o)
  <2> DEFINE new == [copies[c][o] EXCEPT !.state = "ceased"]
  <2>1. new \in CopyType /\ new.state = "ceased"
    BY <1>1 DEF CopyType
  <2>2. copies' = [copies EXCEPT ![c][o] = new]
    BY <1>6, ObjTypes, HmcGetFacts DEF PullProperties
  <2>3. obj[o].state = "deleted"
    BY <1>1, <1>6, ObjTypes DEF ObjType, Lives
  <2> HIDE DEF new
  <2>4. /\ copies' \in [Client -> [Obj -> CopyType]] /\ copies'[c][o] = new
        /\ \A d \in Client, x \in Obj : d # c \/ x # o => copies'[d][x] = copies[d][x]
    BY <2>1, <2>2, ObjTypes
  <2> QED
    BY <1>1, <1>2, <1>3, <1>4, <1>7, <2>1, <2>3, <2>4, ObjTypes DEF HonestChange
<1> QED
  BY <1>2, <1>5, <1>6, BeginCounts, ObjKept DEF PullProperties

LEMMA UpdateKeeps ==
  ASSUME ObjInv, NEW c \in Client, NEW o \in Obj, NEW v \in Val, HmcUpdate(o, v), UpdateObj(c, o, v)
  PROVE  ObjInv' /\ OnlyObj(o) /\ calls' = calls + 1 /\ Lives(o) /\ Lives(o)'
<1> DEFINE new == [copies[c][o] EXCEPT !.val = {v}]
<1>1. new \in CopyType /\ new.state = "live" /\ new.val = {v}
  BY ObjTypes DEF CopyType, OneOf, UpdateObj, Holds
<1>2. copies' = [copies EXCEPT ![c][o] = new]
  BY ObjTypes DEF UpdateObj
<1> HIDE DEF new
<1>3. /\ copies' \in [Client -> [Obj -> CopyType]] /\ copies'[c][o] = new
      /\ \A d \in Client, x \in Obj : d # c \/ x # o => copies'[d][x] = copies[d][x]
  BY <1>1, <1>2, ObjTypes
<1>4. /\ differs' \in [Client -> SUBSET Obj]
      /\ \A d \in Client, x \in Obj : x # o => (x \in differs'[d]) = (x \in differs[d])
      /\ \A d \in Client \ {c} : o \in differs'[d]
  BY ObjTypes DEF UpdateObj, Touches, Touched
<1>5. calls' \in 0..MaxCalls
  BY BeginCounts DEF UpdateObj
<1>7. OverruledKept(c, o)
  BY OverruledFacts DEF UpdateObj
<1>6. HonestChange(c, o)
  BY <1>1, <1>3, <1>4, <1>5, <1>7, UpdateFacts DEF HonestChange
<1> QED
  BY <1>6, UpdateFacts, BeginCounts, ObjKept DEF UpdateObj, Lives

LEMMA DeleteKeeps ==
  ASSUME ObjInv, NEW c \in Client, NEW o \in Obj, HmcRemove(o), DeleteObj(c, o)
  PROVE  ObjInv' /\ OnlyObj(o) /\ calls' = calls + 1 /\ ~Lives(o)'
<1> DEFINE new == [copies[c][o] EXCEPT !.state = "ceased"]
<1>1. new \in CopyType /\ new.state = "ceased"
  <2>1. copies[c][o] \in CopyType
    BY ObjTypes
  <2> QED
    BY <2>1 DEF CopyType
<1>2. copies' = [copies EXCEPT ![c][o] = new] /\ UNCHANGED differs
  BY ObjTypes DEF DeleteObj
<1> HIDE DEF new
<1>3. OnlyObj(o) /\ obj' \in [Obj -> ObjType] /\ obj'[o].state = "deleted" /\ obj'[o].val = obj[o].val
  BY RemoveFacts
<1>4. calls' \in 0..MaxCalls /\ calls' = calls + 1
  BY BeginCounts DEF DeleteObj
<1>6. OverruledKept(c, o)
  BY OverruledFacts DEF DeleteObj
<1>5. HonestChange(c, o)
  BY <1>1, <1>6, <1>2, <1>3, <1>4, ObjTypes, CopyFacts DEF HonestChange
<1> QED
  BY <1>3, <1>4, <1>5, ObjKept DEF Lives

LEMMA CountKeeps ==
  ASSUME ObjInv, Begin, UNCHANGED <<obj, copies, differs, overruled>>
  PROVE  ObjInv' /\ calls' = calls + 1
BY BeginCounts DEF ObjInv, ObjTypeOK, ClientViewHonest, Holds

LEMMA UseKeeps ==
  ASSUME ObjInv, NEW c, NEW o, UseObj(c, o)
  PROVE  ObjInv' /\ UNCHANGED obj /\ calls' = calls + 1 /\ Lives(o)
BY CountKeeps DEF UseObj

--------------------------------------------------------------------------------
(* Sequences without repetition *)

\* The first place of an element.
LEMMA FirstPlace ==
  ASSUME NEW S, NEW s \in Seq(S), NEW e, \E i \in 1..Len(s) : s[i] = e
  PROVE  \E k \in 1..Len(s) : /\ s[k] = e
                              /\ RemoveFirst(s, e) = SubSeq(s, 1, k - 1) \o SubSeq(s, k + 1, Len(s))
<1> DEFINE I == {i \in 1..Len(s) : s[i] = e}
           k == CHOOSE x \in I : \A y \in I : x <= y
<1>1. \E x \in I : \A y \in I : x <= y
  <2>1. I \subseteq Nat /\ I # {}
    OBVIOUS
  <2> HIDE DEF I
  <2> QED
    BY <2>1, LeastNumber
<1>2. k \in I
  <2> HIDE DEF I
  <2> QED
    BY <1>1
<1>3. SelectInSeq(s, LAMBDA v : v = e) = k
  BY <1>2 DEF SelectInSeq, Min
<1>4. RemoveFirst(s, e) = RemoveAt(s, k)
  BY <1>3 DEF RemoveFirst
<1> QED
  BY <1>2, <1>4 DEF RemoveAt

LEMMA Joined ==
  ASSUME NEW S, NEW a \in Seq(S), NEW b \in Seq(S), NEW n \in Nat, NEW k \in 1..n,
         Len(a) = k - 1, Len(b) = n - k
  PROVE  /\ a \o b \in Seq(S) /\ Len(a \o b) = n - 1
         /\ \A i \in 1..(n - 1) : (a \o b)[i] = IF i < k THEN a[i] ELSE b[i - (k - 1)]
<1> DEFINE t == a \o b
<1>1. /\ t \in Seq(S) /\ Len(t) = Len(a) + Len(b)
      /\ \A i \in 1..(Len(a) + Len(b)) : t[i] = IF i <= Len(a) THEN a[i] ELSE b[i - Len(a)]
  BY ConcatProperties
<1> HIDE DEF t
<1>2. Len(a) + Len(b) = n - 1
  OBVIOUS
<1>3. ASSUME NEW i \in 1..(n - 1)  PROVE t[i] = IF i < k THEN a[i] ELSE b[i - (k - 1)]
  BY <1>1, <1>2
<1> QED
  BY <1>1, <1>2, <1>3 DEF t

\* What a sequence is without one of its places.
LEMMA WithoutPlace ==
  ASSUME NEW S, NEW s \in Seq(S), NEW k \in 1..Len(s)
  PROVE  LET t == SubSeq(s, 1, k - 1) \o SubSeq(s, k + 1, Len(s))
         IN  /\ t \in Seq(S) /\ Len(t) = Len(s) - 1
             /\ \A i \in 1..(Len(s) - 1) : t[i] = IF i < k THEN s[i] ELSE s[i + 1]
<1> DEFINE a == SubSeq(s, 1, k - 1)
           b == SubSeq(s, k + 1, Len(s))
           t == a \o b
<1>1. /\ a \in Seq(S) /\ Len(a) = k - 1 /\ \A i \in 1..(k - 1) : a[i] = s[i]
      /\ b \in Seq(S) /\ Len(b) = Len(s) - k /\ \A i \in 1..(Len(s) - k) : b[i] = s[k + i]
      /\ Len(s) \in Nat
  OBVIOUS
<1> HIDE DEF a, b
<1>2. /\ t \in Seq(S) /\ Len(t) = Len(s) - 1
      /\ \A i \in 1..(Len(s) - 1) : t[i] = IF i < k THEN a[i] ELSE b[i - (k - 1)]
  BY <1>1, Joined
<1> HIDE DEF t
<1>3. ASSUME NEW i \in 1..(Len(s) - 1)  PROVE t[i] = IF i < k THEN s[i] ELSE s[i + 1]
  <2>1. i < k => i \in 1..(k - 1)
    BY <1>1
  <2>2. ~(i < k) => i - (k - 1) \in 1..(Len(s) - k) /\ k + (i - (k - 1)) = i + 1
    BY <1>1
  <2> QED
    BY <1>1, <1>2, <2>1, <2>2
<1> QED
  BY <1>2, <1>3 DEF a, b, t

\* RemoveFirst() makes a sequence shorter, and takes an element out that was there once.
LEMMA RemoveFirstFacts ==
  ASSUME NEW S, NEW s \in Seq(S), NEW e
  PROVE  /\ RemoveFirst(s, e) \in Seq(S)
         /\ Len(RemoveFirst(s, e)) <= Len(s)
         /\ IsInjective(s) => /\ IsInjective(RemoveFirst(s, e))
                              /\ Range(RemoveFirst(s, e)) = Range(s) \ {e}
<1>1. CASE \E i \in 1..Len(s) : s[i] = e
  <2> DEFINE t == RemoveFirst(s, e)
  <2>1. PICK k \in 1..Len(s) : /\ s[k] = e
                               /\ t = SubSeq(s, 1, k - 1) \o SubSeq(s, k + 1, Len(s))
    BY <1>1, FirstPlace
  <2> HIDE DEF t
  <2>2. /\ t \in Seq(S) /\ Len(t) = Len(s) - 1
        /\ \A i \in 1..(Len(s) - 1) : t[i] = IF i < k THEN s[i] ELSE s[i + 1]
    BY <2>1, WithoutPlace
  <2>3. DOMAIN s = 1..Len(s) /\ DOMAIN t = 1..Len(t) /\ Len(s) \in Nat /\ Len(t) \in Nat
        /\ Len(t) = Len(s) - 1
    BY <2>2
  <2>4. ASSUME IsInjective(s)  PROVE IsInjective(t)
    <3> SUFFICES ASSUME NEW i \in 1..Len(t), NEW j \in 1..Len(t), t[i] = t[j]  PROVE i = j
      BY <2>3 DEF IsInjective
    <3>1. \A x, y \in 1..Len(s) : s[x] = s[y] => x = y
      BY <2>3, <2>4 DEF IsInjective
    <3> QED
      BY <2>2, <3>1
  <2>5. ASSUME IsInjective(s)  PROVE Range(t) = Range(s) \ {e}
    <3>1. \A x, y \in 1..Len(s) : s[x] = s[y] => x = y
      BY <2>3, <2>5 DEF IsInjective
    <3>2. ASSUME NEW i \in 1..Len(t)  PROVE t[i] \in Range(s) \ {e}
      <4>1. PICK j \in 1..Len(s) : t[i] = s[j] /\ j # k
        BY <2>2
      <4> QED
        BY <2>1, <2>3, <3>1, <4>1 DEF Range
    <3>3. ASSUME NEW i \in 1..Len(s), s[i] # e  PROVE \E j \in 1..Len(t) : t[j] = s[i]
      <4>1. i < k => i \in 1..Len(t)
        BY <2>3
      <4>2. i > k => i - 1 \in 1..Len(t) /\ ~(i - 1 < k) /\ (i - 1) + 1 = i
        BY <2>3
      <4>3. i # k
        BY <2>1, <3>3
      <4>4. CASE i < k
        BY <2>2, <2>3, <4>1, <4>4
      <4>5. CASE i > k
        <5>1. t[i - 1] = s[i]
          BY <2>2, <2>3, <4>2, <4>5
        <5> QED
          BY <4>2, <4>5, <5>1
      <4> QED
        BY <4>3, <4>4, <4>5
    <3>4. Range(t) = {t[i] : i \in 1..Len(t)} /\ Range(s) = {s[i] : i \in 1..Len(s)}
      BY <2>3 DEF Range
    <3>5. \A x \in Range(s) : x # e => x \in Range(t)
      BY <3>3, <3>4
    <3> QED
      BY <3>2, <3>4, <3>5
  <2> QED
    BY <2>2, <2>4, <2>5 DEF t
<1>2. CASE ~\E i \in 1..Len(s) : s[i] = e
  <2>1. RemoveFirst(s, e) = s
    BY <1>2 DEF RemoveFirst
  <2>2. e \notin Range(s)
    BY <1>2 DEF Range
  <2> QED
    BY <2>1, <2>2
<1> QED
  BY <1>1, <1>2

LEMMA AppendFacts ==
  ASSUME NEW S, NEW s \in Seq(S), NEW e \in S
  PROVE  /\ Append(s, e) \in Seq(S)
         /\ Range(Append(s, e)) = Range(s) \cup {e}
         /\ IsInjective(s) /\ e \notin Range(s) => IsInjective(Append(s, e))
<1> DEFINE t == Append(s, e)
<1>1. /\ t \in Seq(S) /\ Len(t) = Len(s) + 1 /\ t[Len(s) + 1] = e
      /\ \A i \in 1..Len(s) : t[i] = s[i]
  OBVIOUS
<1>2. DOMAIN s = 1..Len(s) /\ DOMAIN t = 1..(Len(s) + 1) /\ Len(s) \in Nat
  BY <1>1
<1> HIDE DEF t
<1>3. Range(t) = Range(s) \cup {e}
  BY <1>1, <1>2 DEF Range
<1>4. ASSUME IsInjective(s), e \notin Range(s)  PROVE IsInjective(t)
  BY <1>1, <1>2, <1>4 DEF Range, IsInjective
<1> QED
  BY <1>1, <1>3, <1>4 DEF t

LEMMA BoundedSeqs ==
  ASSUME NEW S, NEW n \in Nat, NEW s
  PROVE  s \in BoundedSeq(S, n) <=> s \in Seq(S) /\ Len(s) <= n
<1>1. ASSUME s \in BoundedSeq(S, n)  PROVE s \in Seq(S) /\ Len(s) <= n
  <2>1. PICK m \in 0..n : s \in [1..m -> S]
    BY <1>1 DEF BoundedSeq, SeqOf
  <2> QED
    BY <2>1
<1>2. ASSUME s \in Seq(S), Len(s) <= n  PROVE s \in BoundedSeq(S, n)
  <2>1. Len(s) \in 0..n /\ s \in [1..Len(s) -> S]
    BY <1>2
  <2> QED
    BY <2>1 DEF BoundedSeq, SeqOf
<1> QED
  BY <1>1, <1>2

--------------------------------------------------------------------------------
(* Storage groups and their volumes *)

VolType == [state : {"none", "live", "deleted"}, of : OneOf(Container)]

\* A volume belongs to a group or template from its creation on.
VolsOK(vs) == vs \in [Vol -> VolType] /\ \A v \in Vol : (vs[v].state = "none") = (vs[v].of = {})

\* The URIs us are those of the volumes of g, and of no others.
UrisExact(vs, us, g) ==
    /\ us \subseteq Vol
    /\ \A v \in Vol : vs[v].state = "live" /\ vs[v].of = {g} => v \in us
    /\ \A v \in us : vs[v].of = {g}

\* What a client has deleted has existed: its identity is not used again, so that its group stays
\* the same.
StorageInv ==
    /\ VolsOK(vol)
    /\ volUris \in [Container -> SUBSET Vol]
    /\ \A g \in Container : UrisExact(vol, volUris[g], g)
    /\ ports \in [Group -> OneOf({s \in Seq(Port) : IsInjective(s)})]
    /\ luris \in [Client -> [Container -> OneOf(SUBSET Vol)]]
    /\ gone \in [Client -> SUBSET Vol]
    /\ \A c \in Client : \A v \in gone[c] : vol[v].state # "none"
    /\ VolumesFollowOwnDelete

LEMMA StorageProperties == StorageInv => StorageTypeOK /\ StorageConsistent
<1> SUFFICES ASSUME StorageInv  PROVE StorageTypeOK /\ StorageConsistent
  OBVIOUS
<1>1. ASSUME NEW g \in Group, NEW s \in ports[g]  PROVE Range(s) \subseteq Port /\ IsInjective(s)
  BY DEF StorageInv, OneOf, Range
<1>2. ASSUME NEW g \in Group  PROVE Cardinality(ports[g]) <= 1
  <2>1. CASE ports[g] = {}
    BY <2>1, FS_EmptySet
  <2>2. CASE ports[g] # {}
    <3>1. PICK s : ports[g] = {s}
      BY <2>2 DEF StorageInv, OneOf
    <3>2. Cardinality({s}) = 1
      BY FS_Singleton
    <3> QED
      BY <3>1, <3>2
  <2> QED
    BY <2>1, <2>2
<1>3. StorageTypeOK
  BY <1>1, <1>2 DEF StorageTypeOK, StorageInv, VolsOK, VolType
<1>4. StorageConsistent
  BY <1>1 DEF StorageConsistent, StorageInv, UrisExact, VolumesOf
<1> QED
  BY <1>3, <1>4

(* The handling of the requests for volumes *)

\* The states that it goes through.
HandleType == [vol : [Vol -> VolType], uris : SUBSET Vol, ok : BOOLEAN]

HandleOK(s, g) ==
    /\ VolsOK(s.vol)
    /\ UrisExact(s.vol, s.uris, g)
    /\ \A v \in Vol : vol[v].state # "none" => s.vol[v].state # "none" /\ s.vol[v].of = vol[v].of
    /\ \A v \in Vol : s.vol[v] # vol[v] => s.vol[v].of = {g}

HandleState(g) == {s \in HandleType : HandleOK(s, g)}

LEMMA HandlingStarts ==
  ASSUME StorageInv, NEW g \in Container
  PROVE  Untouched(g) \in HandleState(g)
BY DEF StorageInv, VolsOK, Untouched, HandleState, HandleType, HandleOK

LEMMA HandlingFails ==
  ASSUME NEW g, NEW s \in HandleState(g)
  PROVE  Fail(s) \in HandleState(g)
BY DEF HandleState, HandleType, HandleOK, Fail

LEMMA HandlingAdds ==
  ASSUME StorageInv, NEW g \in Container, NEW s \in HandleState(g), NEW v \in NewVolumes
  PROVE  AddVolume(s, g, v) \in HandleState(g)
<1> DEFINE t == AddVolume(s, g, v)
<1>1. v \in Vol /\ vol[v].state = "none" /\ [state |-> "live", of |-> {g}] \in VolType
  BY DEF NewVolumes, VolType, OneOf
<1>2. /\ t.vol = [s.vol EXCEPT ![v] = [state |-> "live", of |-> {g}]]
      /\ t.uris = s.uris \cup {v} /\ t.ok = s.ok
      /\ t \in HandleType
  BY <1>1 DEF AddVolume, HandleState, HandleType
<1> HIDE DEF t
<1>3. t.vol[v] = [state |-> "live", of |-> {g}] /\ \A w \in Vol \ {v} : t.vol[w] = s.vol[w]
  BY <1>2 DEF HandleState, HandleType
<1>4. VolsOK(t.vol)
  <2>1. t.vol \in [Vol -> VolType]
    BY <1>2 DEF HandleType
  <2>2. \A w \in Vol : (s.vol[w].state = "none") = (s.vol[w].of = {})
    BY DEF HandleState, HandleOK, VolsOK
  <2>3. t.vol[v].state = "live" /\ t.vol[v].of = {g}
    BY <1>3
  <2>4. \A w \in Vol : (t.vol[w].state = "none") = (t.vol[w].of = {})
    BY <1>3, <2>2, <2>3
  <2> QED
    BY <2>1, <2>4 DEF VolsOK
<1>5. UrisExact(t.vol, t.uris, g)
  BY <1>1, <1>2, <1>3 DEF HandleState, HandleType, HandleOK, UrisExact
<1>6. /\ \A w \in Vol : vol[w].state # "none" => t.vol[w].state # "none" /\ t.vol[w].of = vol[w].of
      /\ \A w \in Vol : t.vol[w] # vol[w] => t.vol[w].of = {g}
  BY <1>1, <1>2, <1>3 DEF HandleState, HandleType, HandleOK
<1> QED
  BY <1>2, <1>4, <1>5, <1>6 DEF t, HandleState, HandleOK

LEMMA HandlingRemoves ==
  ASSUME StorageInv, NEW g \in Container, NEW s \in HandleState(g), NEW v \in Vol,
         vol[v].of \subseteq {g}, s.vol[v].state = "live"
  PROVE  RemoveVolume(s, v) \in HandleState(g)
<1> DEFINE t == RemoveVolume(s, v)
           new == [s.vol[v] EXCEPT !.state = "deleted"]
<1>1. s.vol[v].of = {g}
  <2>1. s.vol[v].of # {}
    BY DEF HandleState, HandleType, HandleOK, VolsOK
  <2>2. CASE s.vol[v] # vol[v]
    BY <2>2 DEF HandleState, HandleOK
  <2>3. CASE s.vol[v] = vol[v]
    BY <2>1, <2>3
  <2> QED
    BY <2>2, <2>3
<1>2. new \in VolType /\ new.state = "deleted" /\ new.of = {g}
  BY <1>1 DEF HandleState, HandleType, HandleOK, VolType
<1>3. /\ t.vol = [s.vol EXCEPT ![v] = new] /\ t.uris = s.uris /\ t.ok = s.ok
      /\ t \in HandleType
  BY <1>2 DEF RemoveVolume, HandleState, HandleType
<1> HIDE DEF t, new
<1>4. t.vol[v] = new /\ \A w \in Vol \ {v} : t.vol[w] = s.vol[w]
  BY <1>3 DEF HandleState, HandleType, HandleOK
<1>5. VolsOK(t.vol)
  BY <1>1, <1>2, <1>3, <1>4 DEF HandleState, HandleType, HandleOK, VolsOK
<1>6. UrisExact(t.vol, t.uris, g)
  BY <1>1, <1>2, <1>3, <1>4 DEF HandleState, HandleType, HandleOK, UrisExact
<1>7. ASSUME NEW w \in Vol
      PROVE  /\ vol[w].state # "none" => t.vol[w].state # "none" /\ t.vol[w].of = vol[w].of
             /\ t.vol[w] # vol[w] => t.vol[w].of = {g}
  <2>1. /\ vol[w].state # "none" => s.vol[w].state # "none" /\ s.vol[w].of = vol[w].of
        /\ s.vol[w] # vol[w] => s.vol[w].of = {g}
    BY DEF HandleState, HandleOK
  <2>2. CASE w = v
    BY <1>1, <1>2, <1>4, <2>1, <2>2
  <2>3. CASE w # v
    BY <1>4, <2>1, <2>3
  <2> QED
    BY <2>2, <2>3
<1> QED
  BY <1>3, <1>5, <1>6, <1>7 DEF t, HandleState, HandleOK

LEMMA HandlingSteps ==
  ASSUME StorageInv, NEW g \in Container, NEW rs \in Requests(g), NEW i \in 1..Len(rs),
         NEW s \in HandleState(g)
  PROVE  Created(s, g, rs[i]) \in HandleState(g) /\ Modified(s, g, rs[i]) \in HandleState(g)
<1>1. rs \in Seq(Request)
  BY StorageAssumption, BoundedSeqs DEF Requests, Body, StorageAssumption
<1>2. rs[i] \in Request /\ i \in DOMAIN rs
  BY <1>1
<1>3. /\ rs[i].op = "create" => rs[i].v \in NewVolumes
      /\ rs[i].op # "create" => vol[rs[i].v].of \subseteq {g}
      /\ rs[i].v \in Vol
  BY <1>2 DEF Requests, Request
<1>4. Created(s, g, rs[i]) \in HandleState(g)
  BY <1>3, HandlingFails, HandlingAdds DEF Created
<1>5. Modified(s, g, rs[i]) \in HandleState(g)
  <2>1. CASE s.ok /\ rs[i].op = "create"
    <3>1. Modified(s, g, rs[i]) = AddVolume(s, g, rs[i].v)
      BY <2>1 DEF Modified
    <3> QED
      BY <1>3, <2>1, <3>1, HandlingAdds
  <2>2. CASE s.ok /\ rs[i].op = "modify" /\ s.vol[rs[i].v].state = "live"
    BY <2>2 DEF Modified
  <2>3. CASE s.ok /\ rs[i].op = "delete" /\ s.vol[rs[i].v].state = "live"
    <3>1. Modified(s, g, rs[i]) = RemoveVolume(s, rs[i].v)
      BY <2>3 DEF Modified
    <3> QED
      BY <1>3, <2>3, <3>1, HandlingRemoves
  <2>4. CASE /\ ~(s.ok /\ rs[i].op = "create")
             /\ ~(s.ok /\ rs[i].op = "modify" /\ s.vol[rs[i].v].state = "live")
             /\ ~(s.ok /\ rs[i].op = "delete" /\ s.vol[rs[i].v].state = "live")
    <3>1. Modified(s, g, rs[i]) = Fail(s)
      BY <2>4 DEF Modified
    <3> QED
      BY <3>1, HandlingFails
  <2> QED
    BY <2>1, <2>2, <2>3, <2>4
<1> QED
  BY <1>4, <1>5

LEMMA HandledFacts ==
  ASSUME StorageInv, NEW g \in Container, NEW rs \in Requests(g), NEW creating \in BOOLEAN
  PROVE  Handled(g, rs, creating) \in HandleState(g)
<1> DEFINE n == Len(rs)
           S == HandleState(g)
           s0 == Untouched(g)
           Next1(i, s) == IF creating THEN Created(s, g, rs[i]) ELSE Modified(s, g, rs[i])
           step == [i \in 1..n |-> [s \in S |-> Next1(i, s)]]
           Follows(f) == f = [i \in 0..n |-> IF i = 0 THEN s0 ELSE Next1(i, f[i - 1])]
           run == CHOOSE f : Follows(f)
<1>1. n \in Nat
  BY StorageAssumption, BoundedSeqs DEF Requests, Body, StorageAssumption
<1>2. s0 \in S /\ \A i \in 1..n, s \in S : Next1(i, s) \in S
  BY HandlingStarts, HandlingSteps
<1>3. step \in [1..n -> [S -> S]]
  BY <1>2
<1>4. \E f : Follows(f)
  <2>1. PICK f \in [0..n -> S] : IsRun(f, n, s0, step)
    <3> HIDE DEF step, S, n, s0
    <3> QED
      BY <1>1, <1>2, <1>3, RunExists
  <2>2. ASSUME NEW i \in 1..n  PROVE f[i] = Next1(i, f[i - 1])
    <3>1. i - 1 \in 0..n
      BY <1>1
    <3>2. f[i - 1] \in S
      BY <3>1
    <3>3. step[i][f[i - 1]] = Next1(i, f[i - 1])
      BY <3>2
    <3> QED
      BY <2>1, <3>3 DEF IsRun
  <2> HIDE DEF Next1, step, S, n, s0
  <2> QED
    BY <1>1, <2>1, <2>2 DEF IsRun
<1>5. Follows(run)
  BY <1>4, Zenon
<1>6. run[0] = s0 /\ \A i \in 1..n : run[i] = Next1(i, run[i - 1])
  <2> HIDE DEF Next1, run, n, s0
  <2> QED
    BY <1>1, <1>5
<1>7. run[n] \in S
  <2> HIDE DEF Next1, run, S, n, s0
  <2>1. run[0] \in S /\ \A i \in 1..n : run[i - 1] \in S => run[i] \in S
    BY <1>2, <1>6
  <2>2. \A i \in 0..n : run[i] \in S
    BY <1>1, <2>1, AlongRun, Zenon
  <2> QED
    BY <1>1, <2>2
<1>8. Handled(g, rs, creating) = run[n]
  BY DEF Handled
<1> QED
  <2> HIDE DEF run
  <2> QED
    BY <1>7, <1>8

--------------------------------------------------------------------------------
(* Candidate adapter ports *)

PortSeqs == {s \in Seq(Port) : IsInjective(s)}

LEMMA AppendedFacts ==
  ASSUME NEW s \in PortSeqs, NEW ps \in PortList
  PROVE  Appended(s, ps) \in PortSeqs
<1> DEFINE n == Len(ps)
           S == [seq : PortSeqs, ok : BOOLEAN]
           s0 == [seq |-> s, ok |-> TRUE]
           Next1(i, t) == IF ~ t.ok \/ ps[i] \in Range(t.seq)
                             THEN Fail(t)
                             ELSE [t EXCEPT !.seq = Append(@, ps[i])]
           step == [i \in 1..n |-> [t \in S |-> Next1(i, t)]]
           Follows(f) == f = [i \in 0..n |-> IF i = 0 THEN s0
                                             ELSE Next1(i, f[i - 1])]
           run == CHOOSE f : Follows(f)
<1>1. n \in Nat /\ \A i \in 1..n : ps[i] \in Port
  BY StorageAssumption, BoundedSeqs DEF PortList, StorageAssumption
<1>2. s0 \in S
  BY DEF PortSeqs
<1>3. ASSUME NEW i \in 1..n, NEW t \in S  PROVE Next1(i, t) \in S
  <2>1. CASE ~ t.ok \/ ps[i] \in Range(t.seq)
    BY <2>1 DEF Fail
  <2>2. CASE ~ (~ t.ok \/ ps[i] \in Range(t.seq))
    <3>1. t.seq \in Seq(Port) /\ IsInjective(t.seq) /\ ps[i] \in Port
      BY <1>1 DEF PortSeqs
    <3>2. Append(t.seq, ps[i]) \in PortSeqs
      BY <2>2, <3>1, AppendFacts DEF PortSeqs
    <3> QED
      BY <2>2, <3>2
  <2> QED
    BY <2>1, <2>2
<1>4. step \in [1..n -> [S -> S]]
  BY <1>3
<1>5. \E f : Follows(f)
  <2>1. PICK f \in [0..n -> S] : IsRun(f, n, s0, step)
    <3> HIDE DEF step, S, n, s0
    <3> QED
      BY <1>1, <1>2, <1>4, RunExists
  <2>2. ASSUME NEW i \in 1..n  PROVE f[i] = Next1(i, f[i - 1])
    <3>1. i - 1 \in 0..n
      BY <1>1
    <3>2. f[i - 1] \in S
      BY <3>1
    <3>3. step[i][f[i - 1]] = Next1(i, f[i - 1])
      BY <3>2
    <3> QED
      BY <2>1, <3>3 DEF IsRun
  <2> HIDE DEF Next1, step, S, n, s0
  <2> QED
    BY <1>1, <2>1, <2>2 DEF IsRun
<1>6. Follows(run)
  BY <1>5, Zenon
<1>7. run[0] = s0 /\ \A i \in 1..n : run[i] = Next1(i, run[i - 1])
  <2> HIDE DEF Next1, run, n, s0
  <2> QED
    BY <1>1, <1>6
<1>8. run[n] \in S
  <2> HIDE DEF Next1, run, S, n, s0
  <2>1. run[0] \in S /\ \A i \in 1..n : run[i - 1] \in S => run[i] \in S
    BY <1>2, <1>3, <1>7
  <2>2. \A i \in 0..n : run[i] \in S
    BY <1>1, <2>1, AlongRun, Zenon
  <2> QED
    BY <1>1, <2>2
<1>9. Appended(s, ps) = run[n].seq
  BY DEF Appended
<1> QED
  <2> HIDE DEF run
  <2> QED
    BY <1>8, <1>9

LEMMA RemovedFacts ==
  ASSUME NEW s \in PortSeqs, NEW ps \in PortList
  PROVE  Removed(s, ps) \in PortSeqs
<1> DEFINE n == Len(ps)
           S == [seq : PortSeqs, ok : BOOLEAN]
           s0 == [seq |-> s, ok |-> TRUE]
           Next1(i, t) == IF ~ t.ok \/ ps[i] \notin Range(t.seq)
                             THEN Fail(t)
                             ELSE [t EXCEPT !.seq = RemoveFirst(@, ps[i])]
           step == [i \in 1..n |-> [t \in S |-> Next1(i, t)]]
           Follows(f) == f = [i \in 0..n |-> IF i = 0 THEN s0
                                             ELSE Next1(i, f[i - 1])]
           run == CHOOSE f : Follows(f)
<1>1. n \in Nat /\ \A i \in 1..n : ps[i] \in Port
  BY StorageAssumption, BoundedSeqs DEF PortList, StorageAssumption
<1>2. s0 \in S
  BY DEF PortSeqs
<1>3. ASSUME NEW i \in 1..n, NEW t \in S  PROVE Next1(i, t) \in S
  <2>1. CASE ~ t.ok \/ ps[i] \notin Range(t.seq)
    BY <2>1 DEF Fail
  <2>2. CASE ~ (~ t.ok \/ ps[i] \notin Range(t.seq))
    <3>1. t.seq \in Seq(Port) /\ IsInjective(t.seq)
      BY DEF PortSeqs
    <3>2. RemoveFirst(t.seq, ps[i]) \in PortSeqs
      BY <3>1, RemoveFirstFacts DEF PortSeqs
    <3> QED
      BY <2>2, <3>2
  <2> QED
    BY <2>1, <2>2
<1>4. step \in [1..n -> [S -> S]]
  BY <1>3
<1>5. \E f : Follows(f)
  <2>1. PICK f \in [0..n -> S] : IsRun(f, n, s0, step)
    <3> HIDE DEF step, S, n, s0
    <3> QED
      BY <1>1, <1>2, <1>4, RunExists
  <2>2. ASSUME NEW i \in 1..n  PROVE f[i] = Next1(i, f[i - 1])
    <3>1. i - 1 \in 0..n
      BY <1>1
    <3>2. f[i - 1] \in S
      BY <3>1
    <3>3. step[i][f[i - 1]] = Next1(i, f[i - 1])
      BY <3>2
    <3> QED
      BY <2>1, <3>3 DEF IsRun
  <2> HIDE DEF Next1, step, S, n, s0
  <2> QED
    BY <1>1, <2>1, <2>2 DEF IsRun
<1>6. Follows(run)
  BY <1>5, Zenon
<1>7. run[0] = s0 /\ \A i \in 1..n : run[i] = Next1(i, run[i - 1])
  <2> HIDE DEF Next1, run, n, s0
  <2> QED
    BY <1>1, <1>6
<1>8. run[n] \in S
  <2> HIDE DEF Next1, run, S, n, s0
  <2>1. run[0] \in S /\ \A i \in 1..n : run[i - 1] \in S => run[i] \in S
    BY <1>2, <1>3, <1>7
  <2>2. \A i \in 0..n : run[i] \in S
    BY <1>1, <2>1, AlongRun, Zenon
  <2> QED
    BY <1>1, <2>2
<1>9. Removed(s, ps) = run[n].seq
  BY DEF Removed
<1> QED
  <2> HIDE DEF run
  <2> QED
    BY <1>8, <1>9

--------------------------------------------------------------------------------
(* The steps of storage groups and templates *)

LEMMA ContainersAreObjects == Container \subseteq Obj /\ Group \subseteq Container /\ Template \subseteq Container
BY StorageAssumption DEF StorageAssumption, Container

LEMMA Singletons == \A x, y : {x} = {y} => x = y
OBVIOUS

\* What the tables have after the requests of one operation.
LEMMA TakeFacts ==
  ASSUME StorageInv, NEW g \in Container, NEW s \in HandleState(g), Take(s, g)
  PROVE  /\ VolsOK(vol)' /\ volUris' \in [Container -> SUBSET Vol]
         /\ \A h \in Container : UrisExact(vol', volUris'[h], h)
         /\ \A v \in Vol : vol[v].state # "none" => vol'[v].state # "none" /\ vol'[v].of = vol[v].of
<1>1. /\ s.uris \in SUBSET Vol /\ VolsOK(s.vol) /\ UrisExact(s.vol, s.uris, g)
      /\ \A v \in Vol : vol[v].state # "none" => s.vol[v].state # "none" /\ s.vol[v].of = vol[v].of
      /\ \A v \in Vol : s.vol[v] # vol[v] => s.vol[v].of = {g}
  BY DEF HandleState, HandleType, HandleOK
<1>2. vol' = s.vol /\ volUris' = [volUris EXCEPT ![g] = s.uris]
  BY DEF Take
<1>3. volUris \in [Container -> SUBSET Vol] /\ VolsOK(vol)
  BY DEF StorageInv
<1>4. VolsOK(vol)'
  BY <1>1, <1>2 DEF VolsOK
<1>5. volUris' \in [Container -> SUBSET Vol] /\ volUris'[g] = s.uris
      /\ \A h \in Container \ {g} : volUris'[h] = volUris[h]
  BY <1>1, <1>2, <1>3
<1>6. ASSUME NEW h \in Container  PROVE UrisExact(vol', volUris'[h], h)
  <2>1. CASE h = g
    BY <1>1, <1>2, <1>5, <2>1
  <2>2. CASE h # g
    <3>1. UrisExact(vol, volUris[h], h)
      BY DEF StorageInv
    <3>2. {h} # {g} /\ {h} # {}
      BY <2>2
    <3>3. ASSUME NEW v \in Vol, vol'[v].state = "live", vol'[v].of = {h}  PROVE v \in volUris[h]
      <4>1. vol[v] = vol'[v]
        BY <1>1, <1>2, <3>2, <3>3
      <4> QED
        BY <3>1, <3>3, <4>1 DEF UrisExact
    <3>4. ASSUME NEW v \in volUris[h]  PROVE vol'[v].of = {h}
      <4>1. v \in Vol /\ vol[v].of = {h}
        BY <3>1 DEF UrisExact
      <4>2. vol[v].state # "none"
        BY <1>3, <3>2, <4>1 DEF VolsOK
      <4> QED
        BY <1>1, <1>2, <4>1, <4>2
    <3>5. volUris[h] \subseteq Vol
      BY <3>1 DEF UrisExact
    <3>6. volUris'[h] = volUris[h]
      BY <1>5, <2>2
    <3> QED
      BY <3>3, <3>4, <3>5, <3>6 DEF UrisExact
  <2> QED
    BY <2>1, <2>2
<1> QED
  BY <1>1, <1>2, <1>4, <1>5, <1>6

\* What an operation of client c on g has to ensure, besides, for the client's list and its deleted
\* volumes.
StorageChange(c, g) ==
    /\ VolsOK(vol)' /\ volUris' \in [Container -> SUBSET Vol]
    /\ \A h \in Container : UrisExact(vol', volUris'[h], h)
    /\ \A v \in Vol : vol[v].state # "none" => vol'[v].state # "none" /\ vol'[v].of = vol[v].of
    /\ ports' \in [Group -> OneOf(PortSeqs)]
    /\ luris' \in [Client -> [Container -> OneOf(SUBSET Vol)]] /\ gone' \in [Client -> SUBSET Vol]
    /\ \A d \in Client, h \in Container : d # c \/ h # g => luris'[d][h] = luris[d][h]
    /\ \A d \in Client \ {c} : gone'[d] = gone[d]
    /\ \A v \in gone'[c] : v \in gone[c] \/ (vol[v].state # "none" /\ vol[v].of = {g})
    /\ \A v \in gone'[c] : vol'[v].of = {g} /\ g \in Group => \A us \in luris'[c][g] : v \notin us

LEMMA StorageKept ==
  ASSUME StorageInv, NEW c \in Client, NEW g \in Container, StorageChange(c, g)
  PROVE  StorageInv'
<1>1. ASSUME NEW d \in Client, NEW v \in gone'[d]
      PROVE  /\ v \in Vol /\ vol[v].state # "none"
             /\ v \in gone[d] \/ (d = c /\ vol[v].of = {g})
  BY <1>1 DEF StorageInv, StorageChange
<1>2. ASSUME NEW d \in Client, NEW v \in gone'[d], NEW h \in Group, vol'[v].of = {h}, NEW us \in luris'[d][h]
      PROVE  v \notin us
  <2>1. vol[v].of = {h}
    BY <1>1, <1>2 DEF StorageChange
  <2>2. CASE d = c /\ h = g
    BY <1>2, <2>2 DEF StorageChange
  <2>3. CASE d # c \/ h # g
    <3>1. {h} = {g} => h = g
      BY Singletons
    <3>2. v \in gone[d]
      BY <1>1, <2>1, <2>3, <3>1
    <3>3. us \in luris[d][h]
      BY <1>2, <2>3, ContainersAreObjects DEF StorageChange
    <3> QED
      BY <2>1, <3>2, <3>3 DEF StorageInv, VolumesFollowOwnDelete
  <2> QED
    BY <2>2, <2>3
<1>3. VolumesFollowOwnDelete'
  BY <1>2 DEF VolumesFollowOwnDelete
<1>4. \A d \in Client : \A v \in gone'[d] : vol'[v].state # "none"
  BY <1>1 DEF StorageChange
<1> QED
  BY <1>3, <1>4 DEF StorageInv, PortSeqs, StorageChange

LEMMA StorageTypes ==
  ASSUME StorageInv
  PROVE  /\ VolsOK(vol) /\ volUris \in [Container -> SUBSET Vol]
         /\ \A h \in Container : UrisExact(vol, volUris[h], h)
         /\ ports \in [Group -> OneOf(PortSeqs)]
         /\ luris \in [Client -> [Container -> OneOf(SUBSET Vol)]] /\ gone \in [Client -> SUBSET Vol]
BY DEF StorageInv, PortSeqs

LEMMA CreationKeepsStorage ==
  ASSUME StorageInv, NEW c \in Client, NEW g \in Container, NEW rs \in Requests(g), NEW v \in Val,
         HmcCreate(g, v, rs), UNCHANGED <<ports, luris, gone>>
  PROVE  StorageInv'
<1>1. Take(Handled(g, rs, TRUE), g) /\ Handled(g, rs, TRUE) \in HandleState(g)
  BY HandledFacts DEF HmcCreate
<1>2. /\ VolsOK(vol)' /\ volUris' \in [Container -> SUBSET Vol]
      /\ \A h \in Container : UrisExact(vol', volUris'[h], h)
      /\ \A w \in Vol : vol[w].state # "none" => vol'[w].state # "none" /\ vol'[w].of = vol[w].of
  BY <1>1, TakeFacts
<1>3. \A w \in gone[c] : w \in Vol /\ vol[w].state # "none" /\ vol'[w].of = vol[w].of
  BY <1>2, StorageTypes DEF StorageInv
<1>4. \A w \in gone'[c] : vol'[w].of = {g} /\ g \in Group => \A us \in luris'[c][g] : w \notin us
  BY <1>3 DEF StorageInv, VolumesFollowOwnDelete
<1>5. StorageChange(c, g)
  BY <1>2, <1>4, StorageTypes DEF StorageChange
<1> QED
  BY <1>5, StorageKept

LEMMA ModificationKeepsStorage ==
  ASSUME StorageInv, NEW c \in Client, NEW g \in Container, NEW rs \in Requests(g), NEW newVal,
         NEW deleted \in SUBSET VolumesOf(g), Modify(c, g, newVal, rs, deleted)
  PROVE  StorageInv'
<1> DEFINE s == Handled(g, rs, FALSE)
           done == IF s.ok THEN deleted ELSE {}
<1>1. Take(s, g) /\ s \in HandleState(g)
  BY HandledFacts DEF Modify, HmcModify
<1>2. /\ VolsOK(vol)' /\ volUris' \in [Container -> SUBSET Vol]
      /\ \A h \in Container : UrisExact(vol', volUris'[h], h)
      /\ \A w \in Vol : vol[w].state # "none" => vol'[w].state # "none" /\ vol'[w].of = vol[w].of
  BY <1>1, TakeFacts
<1>3. done \subseteq VolumesOf(g) /\ ForgetUris(c, g, done) /\ gone' = [gone EXCEPT ![c] = @ \cup done]
      /\ UNCHANGED ports
  BY DEF Modify
<1> HIDE DEF s, done
<1>4. \A w \in done : w \in Vol /\ vol[w].state # "none" /\ vol[w].of = {g}
  BY <1>3 DEF VolumesOf
<1>5. /\ gone' \in [Client -> SUBSET Vol] /\ gone'[c] = gone[c] \cup done
      /\ \A d \in Client \ {c} : gone'[d] = gone[d]
  BY <1>3, <1>4, StorageTypes
<1>6. /\ luris' \in [Client -> [Container -> OneOf(SUBSET Vol)]]
      /\ \A d \in Client, h \in Container : d # c \/ h # g => luris'[d][h] = luris[d][h]
      /\ g \in Group => luris'[c][g] = {us \ done : us \in luris[c][g]}
  <2> DEFINE new == IF g \in Group THEN {us \ done : us \in luris[c][g]} ELSE luris[c][g]
  <2>1. luris' = [luris EXCEPT ![c][g] = new]
    BY <1>3 DEF ForgetUris
  <2>2. luris[c][g] = {} \/ \E us \in SUBSET Vol : luris[c][g] = {us}
    <3>1. luris[c][g] \in OneOf(SUBSET Vol)
      BY StorageTypes
    <3> QED
      BY <3>1 DEF OneOf
  <2>3. new \in OneOf(SUBSET Vol)
    <3>1. CASE luris[c][g] = {}
      BY <3>1 DEF OneOf
    <3>2. CASE luris[c][g] # {}
      <4>1. PICK us \in SUBSET Vol : luris[c][g] = {us}
        BY <2>2, <3>2
      <4>2. {x \ done : x \in luris[c][g]} = {us \ done}
        BY <4>1
      <4> QED
        BY <4>1, <4>2 DEF OneOf
    <3> QED
      BY <3>1, <3>2
  <2>4. g \in Group => new = {us \ done : us \in luris[c][g]}
    OBVIOUS
  <2> HIDE DEF new
  <2> QED
    BY <2>1, <2>3, <2>4, StorageTypes
<1>7. \A w \in gone'[c] : w \in gone[c] \/ (vol[w].state # "none" /\ vol[w].of = {g})
  BY <1>4, <1>5
<1>8. ASSUME NEW w \in gone'[c], vol'[w].of = {g}, g \in Group, NEW us \in luris'[c][g]
      PROVE  w \notin us
  <2>1. PICK old \in luris[c][g] : us = old \ done
    BY <1>6, <1>8
  <2>2. CASE w \in done
    BY <2>1, <2>2
  <2>3. CASE w \notin done
    <3>1. w \in gone[c] /\ w \in Vol /\ vol[w].state # "none"
      BY <1>5, <2>3, StorageTypes DEF StorageInv
    <3>2. vol[w].of = {g}
      BY <1>2, <1>8, <3>1
    <3> QED
      BY <1>8, <2>1, <3>1, <3>2 DEF StorageInv, VolumesFollowOwnDelete
  <2> QED
    BY <2>2, <2>3
<1>9. ports' \in [Group -> OneOf(PortSeqs)]
  BY <1>3, StorageTypes
<1>10. \A w \in gone'[c] : vol'[w].of = {g} /\ g \in Group => \A us \in luris'[c][g] : w \notin us
  BY <1>8
<1>11. StorageChange(c, g)
  BY <1>2, <1>5, <1>6, <1>7, <1>9, <1>10 DEF StorageChange
<1> QED
  BY <1>11, StorageKept

LEMMA ReadingKeepsStorage ==
  ASSUME StorageInv, NEW c \in Client, NEW o \in Obj,
         PullUris(c, o) \/ (o \in Container /\ \E full \in BOOLEAN : ListUris(c, o, full))
  PROVE  StorageInv'
<1> DEFINE Reading == /\ luris' \in [Client -> [Container -> OneOf(SUBSET Vol)]]
                      /\ \A d \in Client, h \in Container : d # c \/ h # o => luris'[d][h] = luris[d][h]
                      /\ gone' = [gone EXCEPT ![c] = {v \in @ : vol[v].of # {o}}]
                      /\ UNCHANGED <<vol, volUris, ports>>
<1>1. CASE o \in Container /\ Reading
  <2>1. /\ gone' \in [Client -> SUBSET Vol] /\ gone'[c] = {v \in gone[c] : vol[v].of # {o}}
        /\ \A d \in Client \ {c} : gone'[d] = gone[d]
    BY <1>1, StorageTypes
  <2>2. VolsOK(vol)'
    BY <1>1, StorageTypes DEF VolsOK
  <2>3. StorageChange(c, o)
    BY <1>1, <2>1, <2>2, StorageTypes DEF StorageChange, StorageInv, VolumesFollowOwnDelete
  <2> QED
    BY <1>1, <2>3, StorageKept
<1>2. CASE UNCHANGED storageVars
  BY <1>2 DEF StorageInv, storageVars, VolsOK, VolumesFollowOwnDelete
<1>3. ASSUME PullUris(c, o)  PROVE (o \in Container /\ Reading) \/ UNCHANGED storageVars
  <2>1. CASE o \in Container /\ Lives(o)
    <3>1. {volUris[o]} \in OneOf(SUBSET Vol)
      BY <2>1, StorageTypes DEF OneOf
    <3>2. luris' = [luris EXCEPT ![c][o] = {volUris[o]}]
      BY <1>3, <2>1 DEF PullUris
    <3>3. /\ luris' \in [Client -> [Container -> OneOf(SUBSET Vol)]]
          /\ \A d \in Client, h \in Container : d # c \/ h # o => luris'[d][h] = luris[d][h]
      BY <3>1, <3>2, StorageTypes
    <3> QED
      BY <1>3, <2>1, <3>3 DEF PullUris
  <2>2. CASE ~(o \in Container /\ Lives(o))
    BY <1>3, <2>2 DEF PullUris
  <2> QED
    BY <2>1, <2>2
<1>4. ASSUME o \in Container, NEW full \in BOOLEAN, ListUris(c, o, full), ~full  PROVE Reading
  <2>1. {} \in OneOf(SUBSET Vol)
    BY DEF OneOf
  <2>2. luris' = [luris EXCEPT ![c][o] = {}]
    BY <1>4 DEF ListUris
  <2>3. /\ luris' \in [Client -> [Container -> OneOf(SUBSET Vol)]]
        /\ \A d \in Client, h \in Container : d # c \/ h # o => luris'[d][h] = luris[d][h]
    BY <2>1, <2>2, StorageTypes
  <2> QED
    BY <1>4, <2>3 DEF ListUris
<1> HIDE DEF Reading
<1>5. ASSUME o \in Container, NEW full \in BOOLEAN, ListUris(c, o, full)
      PROVE  PullUris(c, o) \/ Reading
  <2>1. CASE full
    BY <1>5, <2>1 DEF ListUris
  <2>2. CASE ~full
    BY <1>4, <1>5, <2>2
  <2> QED
    BY <2>1, <2>2
<1> QED
  BY <1>1, <1>2, <1>3, <1>5

--------------------------------------------------------------------------------
(* Users, roles and patterns *)

\* The search orders that have all patterns.
Orders == {s \in Seq(Pattern) : IsInjective(s) /\ Range(s) = HmcUserPatterns}

LEMMA ReorderedFacts ==
  ASSUME UserAssumption, NEW ps \in PatternList, order \in Seq(Pattern), SearchOrderComplete
  PROVE  Reordered(ps) \in Seq(Pattern) /\ IsInjective(Reordered(ps)) /\ Range(Reordered(ps)) = HmcUserPatterns
<1> DEFINE n == Len(ps)
           S == [seq : Orders, ok : BOOLEAN]
           s0 == [seq |-> order, ok |-> TRUE]
           Next1(i, t) == IF t.ok /\ Lives(ps[i])
                             THEN [t EXCEPT !.seq = Append(RemoveFirst(@, ps[i]), ps[i])]
                             ELSE [t EXCEPT !.ok = FALSE]
           step == [i \in 1..n |-> [t \in S |-> Next1(i, t)]]
           Follows(f) == f = [i \in 0..n |-> IF i = 0 THEN s0
                                             ELSE Next1(i, f[i - 1])]
           run == CHOOSE f : Follows(f)
<1>1. n \in Nat /\ \A i \in 1..n : ps[i] \in Pattern
  BY UserAssumption, BoundedSeqs DEF PatternList, UserAssumption
<1>2. s0 \in S
  BY DEF Orders, SearchOrderComplete
<1>3. ASSUME NEW i \in 1..n, NEW t \in S  PROVE Next1(i, t) \in S
  <2>1. CASE t.ok /\ Lives(ps[i])
    <3>1. /\ t.seq \in Seq(Pattern) /\ IsInjective(t.seq) /\ Range(t.seq) = HmcUserPatterns
          /\ ps[i] \in Pattern /\ ps[i] \in HmcUserPatterns
      BY <1>1, <2>1 DEF Orders, HmcUserPatterns
    <3> DEFINE u == RemoveFirst(t.seq, ps[i])
    <3>2. u \in Seq(Pattern) /\ IsInjective(u) /\ Range(u) = HmcUserPatterns \ {ps[i]}
      BY <3>1, RemoveFirstFacts
    <3> HIDE DEF u
    <3>3. ps[i] \notin Range(u) /\ (HmcUserPatterns \ {ps[i]}) \cup {ps[i]} = HmcUserPatterns
      BY <3>1, <3>2
    <3>4. /\ Append(u, ps[i]) \in Seq(Pattern) /\ IsInjective(Append(u, ps[i]))
          /\ Range(Append(u, ps[i])) = Range(u) \cup {ps[i]}
      BY <3>1, <3>2, <3>3, AppendFacts
    <3>5. Append(u, ps[i]) \in Orders
      BY <3>2, <3>3, <3>4 DEF Orders
    <3> QED
      BY <2>1, <3>5 DEF u
  <2>2. CASE ~ (t.ok /\ Lives(ps[i]))
    BY <2>2
  <2> QED
    BY <2>1, <2>2
<1>4. step \in [1..n -> [S -> S]]
  BY <1>3
<1>5. \E f : Follows(f)
  <2>1. PICK f \in [0..n -> S] : IsRun(f, n, s0, step)
    <3> HIDE DEF step, S, n, s0
    <3> QED
      BY <1>1, <1>2, <1>4, RunExists
  <2>2. ASSUME NEW i \in 1..n  PROVE f[i] = Next1(i, f[i - 1])
    <3>1. i - 1 \in 0..n
      BY <1>1
    <3>2. f[i - 1] \in S
      BY <3>1
    <3>3. step[i][f[i - 1]] = Next1(i, f[i - 1])
      BY <3>2
    <3> QED
      BY <2>1, <3>3 DEF IsRun
  <2> HIDE DEF Next1, step, S, n, s0
  <2> QED
    BY <1>1, <2>1, <2>2 DEF IsRun
<1>6. Follows(run)
  BY <1>5, Zenon
<1>7. run[0] = s0 /\ \A i \in 1..n : run[i] = Next1(i, run[i - 1])
  <2> HIDE DEF Next1, run, n, s0
  <2> QED
    BY <1>1, <1>6
<1>8. run[n] \in S
  <2> HIDE DEF Next1, run, S, n, s0
  <2>1. run[0] \in S /\ \A i \in 1..n : run[i - 1] \in S => run[i] \in S
    BY <1>2, <1>3, <1>7
  <2>2. \A i \in 0..n : run[i] \in S
    BY <1>1, <2>1, AlongRun, Zenon
  <2> QED
    BY <1>1, <2>2
<1>9. Reordered(ps) = run[n].seq
  BY DEF Reordered
<1> QED
  <2> HIDE DEF run
  <2> QED
    BY <1>8, <1>9 DEF Orders

(* Each step of StorageGroups *)

LEMMA SameStorage ==
  ASSUME StorageInv, UNCHANGED storageVars
  PROVE  StorageInv'
BY DEF StorageInv, storageVars, VolsOK, VolumesFollowOwnDelete

LEMMA CreationKeepsObjects ==
  ASSUME ObjInv, NEW c \in Client, NEW g \in Container, CreateContainer(c, g)
  PROVE  ObjInv' /\ OnlyObj(g) /\ calls' = calls + 1
<1>1. PICK v \in Val, rs \in Requests(g) :
         LET ok == Handled(g, rs, TRUE).ok
         IN  /\ HmcCreate(g, v, rs)
             /\ copies' = IF ok THEN [copies EXCEPT ![c][g] = [state |-> "live", val |-> {v}]] ELSE copies
             /\ Touches(c, g, ~ ok)
  BY DEF CreateContainer
<1>2. g \in Obj /\ Begin /\ HmcAdd(g, v)
  BY <1>1, ContainersAreObjects DEF CreateContainer, HmcCreate
<1>3. CASE Handled(g, rs, TRUE).ok
  <2>1. CreateObj(c, g, v)
    BY <1>1, <1>2, <1>3 DEF CreateObj, Touches, Touched
  <2> QED
    BY <1>2, <2>1, CreateKeeps
<1>4. CASE ~Handled(g, rs, TRUE).ok
  <2>1. /\ obj' \in [Obj -> ObjType] /\ OnlyObj(g)
        /\ obj[g].state = "none" /\ obj'[g].state = "live"
    BY <1>2, AddFacts
  <2>2. UNCHANGED copies /\ copies[c][g].state # "ceased" /\ copies[c][g].state # "live"
    BY <1>1, <1>2, <1>4, <2>1 DEF ObjInv, ClientViewHonest, Holds
  <2>3. differs' = [d \in Client |-> differs[d] \cup {g}]
    BY <1>1, <1>4 DEF Touches, Touched
  <2>4. /\ differs' \in [Client -> SUBSET Obj]
        /\ \A d \in Client, x \in Obj : x # g => (x \in differs'[d]) = (x \in differs[d])
    BY <1>2, <2>3, ObjTypes
  <2>5. calls' \in 0..MaxCalls /\ calls' = calls + 1
    BY <1>2, BeginCounts
  <2>7. OverruledKept(c, g)
    BY <1>1, <1>2, <1>4, OverruledFacts DEF Touches
  <2>6. HonestChange(c, g)
    BY <2>1, <2>2, <2>4, <2>5, <2>7, ObjTypes DEF HonestChange
  <2> QED
    BY <1>2, <2>1, <2>5, <2>6, ObjKept
<1> QED
  BY <1>3, <1>4

LEMMA ModificationKeepsObjects ==
  ASSUME ObjInv, NEW c \in Client, NEW g \in Container, NEW rs, NEW newVal \in OneOf(Val), NEW deleted,
         Calls(c, g), Modify(c, g, newVal, rs, deleted)
  PROVE  ObjInv' /\ OnlyObj(g) /\ calls' = calls + 1
<1> DEFINE ok == Handled(g, rs, FALSE).ok
<1>1. g \in Obj /\ Begin /\ Holds(c, g)
  BY ContainersAreObjects DEF Calls
<1>2. CASE newVal = {}
  <2>1. UNCHANGED <<obj, copies, differs, overruled>>
    BY <1>2 DEF Modify, HmcModify
  <2> QED
    BY <1>1, <2>1, CountKeeps DEF OnlyObj
<1>3. CASE newVal # {}
  <2>1. PICK v \in Val : newVal = {v}
    BY <1>3 DEF OneOf
  <2>2. /\ HmcUpdate(g, v)
        /\ copies' = IF ok THEN [copies EXCEPT ![c][g].val = {v}] ELSE copies
        /\ Touches(c, g, ~ ok)
    BY <1>3, <2>1 DEF Modify, HmcModify
  <2> HIDE DEF ok
  <2>3. CASE ok
    <3>1. UpdateObj(c, g, v)
      BY <1>1, <2>2, <2>3 DEF UpdateObj, Touches, Touched
    <3> QED
      BY <1>1, <2>2, <3>1, UpdateKeeps
  <2>4. CASE ~ok
    <3>1. /\ obj' \in [Obj -> ObjType] /\ OnlyObj(g)
          /\ obj[g].state = "live" /\ obj'[g].state = "live"
      BY <1>1, <2>2, UpdateFacts
    <3>2. UNCHANGED copies /\ copies[c][g].state = "live"
      BY <1>1, <2>2, <2>4 DEF Holds
    <3>3. differs' = [d \in Client |-> differs[d] \cup {g}]
      BY <2>2, <2>4 DEF Touches, Touched
    <3>4. /\ differs' \in [Client -> SUBSET Obj] /\ \A d \in Client : g \in differs'[d]
          /\ \A d \in Client, x \in Obj : x # g => (x \in differs'[d]) = (x \in differs[d])
      BY <1>1, <3>3, ObjTypes
    <3>5. calls' \in 0..MaxCalls /\ calls' = calls + 1
      BY <1>1, BeginCounts
    <3>7. OverruledKept(c, g)
      BY <1>1, <2>2, <2>4, OverruledFacts DEF Touches
    <3>6. HonestChange(c, g)
      BY <3>1, <3>2, <3>4, <3>5, <3>7, ObjTypes DEF HonestChange
    <3> QED
      BY <1>1, <3>1, <3>5, <3>6, ObjKept
  <2> QED
    BY <2>3, <2>4
<1> QED
  BY <1>2, <1>3

\* The operations of a volume send requests that all others may send, too.
LEMMA SingleFacts ==
  ASSUME NEW g \in Container, NEW op \in {"create", "modify", "delete"},
         NEW v \in IF op = "create" THEN NewVolumes ELSE VolumesOf(g)
  PROVE  Single(op, v) \in Requests(g)
<1> DEFINE r == [op |-> op, v |-> v]
           rs == <<r>>
<1>1. v \in Vol /\ r \in Request
  BY DEF NewVolumes, VolumesOf, Request
<1>2. rs \in Seq(Request) /\ Len(rs) = 1 /\ DOMAIN rs = {1} /\ rs[1] = r
  BY <1>1
<1>3. rs \in Body
  <2>1. MaxRequests \in Nat /\ Len(rs) <= MaxRequests /\ rs \in Seq(Request)
    BY <1>2, StorageAssumption DEF StorageAssumption
  <2> HIDE DEF rs
  <2> QED
    BY <2>1, BoundedSeqs DEF Body
<1>4. r.op = op /\ r.v = v
  OBVIOUS
<1>5. op # "create" => vol[v].of \subseteq {g}
  BY DEF VolumesOf
<1> HIDE DEF r, rs
<1>6. \A i \in DOMAIN rs :
         IF rs[i].op = "create"
            THEN /\ rs[i].v \in NewVolumes
                 /\ \A j \in 1..(i - 1) : rs[j].op = "create" => rs[j].v # rs[i].v
            ELSE vol[rs[i].v].of \subseteq {g}
  BY <1>2, <1>4, <1>5
<1> QED
  BY <1>3, <1>6 DEF Requests, Single, r, rs

LEMMA PortsKeepStorage ==
  ASSUME StorageInv, NEW g \in Group, NEW s \in PortSeqs, ports' = [ports EXCEPT ![g] = {s}],
         UNCHANGED <<vol, volUris, luris, gone>>
  PROVE  StorageInv'
<1>1. {s} \in OneOf(PortSeqs)
  BY DEF OneOf
<1>2. ports' \in [Group -> OneOf(PortSeqs)]
  BY <1>1, StorageTypes
<1> QED
  BY <1>2 DEF StorageInv, PortSeqs, VolsOK, VolumesFollowOwnDelete

LEMMA StorageStepKeeps ==
  ASSUME ObjInv, StorageInv, NEW c \in Client, NEW g \in Obj, StorageStep(c, g)
  PROVE  ObjInv' /\ OnlyObj(g) /\ calls' = calls + 1 /\ StorageInv'
<1>1. g \in Container
  BY DEF StorageStep
<1>2. CASE CreateGroup(c, g) \/ CreateTemplate(c, g)
  <2>1. CreateContainer(c, g)
    BY <1>2 DEF CreateGroup, CreateTemplate
  <2>2. StorageInv'
    BY <1>1, <2>1, CreationKeepsStorage DEF CreateContainer
  <2> QED
    BY <1>1, <2>1, <2>2, CreationKeepsObjects
<1>3. ASSUME Calls(c, g), NEW rs \in Requests(g), NEW newVal \in OneOf(Val),
             NEW deleted \in SUBSET VolumesOf(g), Modify(c, g, newVal, rs, deleted)
      PROVE  ObjInv' /\ OnlyObj(g) /\ calls' = calls + 1 /\ StorageInv'
  BY <1>1, <1>3, ModificationKeepsObjects, ModificationKeepsStorage
<1>4. CASE UpdateGroup(c, g) \/ UpdateTemplate(c, g)
  <2>1. Calls(c, g) /\ \E rs \in Requests(g), v \in OneOf(Val) : Modify(c, g, v, rs, {})
    BY <1>4 DEF UpdateGroup, UpdateTemplate
  <2> QED
    BY <1>3, <2>1
<1>5. CASE CreateVolume(c, g) \/ CreateVolumeTemplate(c, g)
  <2>1. PICK v \in NewVolumes : Calls(c, g) /\ Modify(c, g, {}, Single("create", v), {})
    BY <1>5 DEF CreateVolume, CreateVolumeTemplate
  <2>2. Single("create", v) \in Requests(g) /\ {} \in OneOf(Val)
    BY <1>1, SingleFacts DEF OneOf
  <2> QED
    BY <1>3, <2>1, <2>2
<1>6. CASE UpdateVolume(c, g) \/ UpdateVolumeTemplate(c, g)
  <2>1. PICK v \in VolumesOf(g) : Calls(c, g) /\ Modify(c, g, {}, Single("modify", v), {})
    BY <1>6 DEF UpdateVolume, UpdateVolumeTemplate
  <2>2. Single("modify", v) \in Requests(g) /\ {} \in OneOf(Val)
    BY <1>1, SingleFacts DEF OneOf
  <2> QED
    BY <1>3, <2>1, <2>2
<1>7. CASE DeleteVolume(c, g) \/ DeleteVolumeTemplate(c, g)
  <2>1. PICK v \in VolumesOf(g) : Calls(c, g) /\ Modify(c, g, {}, Single("delete", v), {v})
    BY <1>7 DEF DeleteVolume, DeleteVolumeTemplate
  <2>2. Single("delete", v) \in Requests(g) /\ {} \in OneOf(Val)
    BY <1>1, SingleFacts DEF OneOf
  <2> QED
    BY <1>3, <2>1, <2>2
<1>8. CASE DeleteGroup(c, g) \/ DeleteTemplate(c, g)
  <2>1. HmcRemove(g) /\ DeleteObj(c, g) /\ UNCHANGED storageVars
    BY <1>8 DEF DeleteGroup, DeleteTemplate, HmcDeleteGroup, HmcDeleteTemplate
  <2> QED
    BY <2>1, DeleteKeeps, SameStorage
<1>9. CASE AddCandidatePorts(c, g) \/ RemoveCandidatePorts(c, g)
  <2>1. UseObj(c, g) /\ UNCHANGED <<vol, volUris, luris, gone>>
    BY <1>9 DEF AddCandidatePorts, RemoveCandidatePorts
  <2>2. PICK ps \in PortList : HmcAddCandidatePorts(g, ps) \/ HmcRemoveCandidatePorts(g, ps)
    BY <1>9 DEF AddCandidatePorts, RemoveCandidatePorts
  <2>3. g \in Group
    BY <2>2 DEF HmcAddCandidatePorts, HmcRemoveCandidatePorts, HmcGroups
  <2>4. PICK s \in ports[g] : \/ ports' = [ports EXCEPT ![g] = {Appended(s, ps)}]
                              \/ ports' = [ports EXCEPT ![g] = {Removed(s, ps)}]
    BY <2>2 DEF HmcAddCandidatePorts, HmcRemoveCandidatePorts
  <2>5. s \in PortSeqs
    BY <2>3, StorageTypes DEF OneOf
  <2>6. Appended(s, ps) \in PortSeqs /\ Removed(s, ps) \in PortSeqs
    BY <2>5, AppendedFacts, RemovedFacts
  <2>7. StorageInv'
    BY <2>1, <2>3, <2>4, <2>6, PortsKeepStorage
  <2> QED
    BY <2>1, <2>7, UseKeeps DEF OnlyObj
<1>10. ASSUME NEW full \in BOOLEAN, ListGroups(c, g, full) \/ ListTemplates(c, g, full)
       PROVE  ObjInv' /\ OnlyObj(g) /\ calls' = calls + 1 /\ StorageInv'
  <2>1. Lives(g) /\ ListObj(c, g, full) /\ ListUris(c, g, full)
    BY <1>10 DEF ListGroups, ListTemplates, HmcGroups, HmcTemplates
  <2>2. ObjInv' /\ UNCHANGED obj /\ calls' = calls + 1
    BY <2>1, ListKeeps
  <2> QED
    BY <1>1, <2>1, <2>2, ReadingKeepsStorage DEF OnlyObj
<1> QED
  BY <1>2, <1>4, <1>5, <1>6, <1>7, <1>8, <1>9, <1>10 DEF StorageStep

\* There are no more roles, permissions and members than there were calls.
UserInv ==
    /\ roles \in [AnyUser -> [AnyRole -> 0..calls]]
    /\ perms \in [AnyRole -> [Target -> 0..calls]]
    /\ order \in Seq(Pattern)
    /\ SearchOrderComplete

LEMMA UserTypes == ObjInv /\ UserInv => UserTypeOK
<1> SUFFICES ASSUME ObjInv, UserInv  PROVE UserTypeOK
  OBVIOUS
<1>1. calls \in 0..MaxCalls /\ 0..calls \subseteq 0..MaxCalls
  BY ObjTypes
<1>2. Range(order) \subseteq Pattern
  BY DEF UserInv, Range
<1>3. roles \in [AnyUser -> [AnyRole -> 0..MaxCalls]] /\ perms \in [AnyRole -> [Target -> 0..MaxCalls]]
  BY <1>1 DEF UserInv
<1> QED
  BY <1>2, <1>3 DEF UserTypeOK

LEMMA FirstOrder ==
  ASSUME ObjInit, UserInit
  PROVE  UserInv
<1>1. calls = 0
  BY DEF ObjInit
<1>2. roles \in [AnyUser -> [AnyRole -> 0..calls]] /\ perms \in [AnyRole -> [Target -> 0..calls]]
  BY <1>1 DEF UserInit
<1> DEFINE S == HmcUserPatterns
           n == Cardinality(S)
<1>3. IsFiniteSet(S) /\ n \in Nat
  <2>1. IsFiniteSet(Pattern) /\ S \subseteq Pattern
    BY InventoryAssumption DEF InventoryAssumption, HmcUserPatterns
  <2> HIDE DEF S
  <2> QED
    BY <2>1, FS_Subset, FS_CardinalityType
<1>4. order \in [1..n -> S] /\ \A i, j \in 1..n : i # j => order[i] # order[j]
  BY DEF UserInit, SetToSeqs
<1>5. Cardinality(1..n) = n
  <2> HIDE DEF n
  <2> QED
    BY <1>3, FS_Interval
<1>6. IsInjective(order)
  BY <1>4 DEF IsInjective
<1> HIDE DEF n
<1>7. order \in Surjection(1..n, S)
  <2>1. order \in Injection(1..n, S)
    BY <1>4, <1>6 DEF Injection
  <2> HIDE DEF S
  <2>2. Cardinality(1..n) = Cardinality(S)
    BY <1>5 DEF n
  <2> QED
    BY <1>3, <2>1, <2>2, FS_Injection
<1>8. Range(order) = S
  BY <1>4, <1>7 DEF Surjection, Range
<1>9. order \in Seq(Pattern)
  BY <1>3, <1>4 DEF HmcUserPatterns
<1> QED
  BY <1>2, <1>6, <1>8, <1>9 DEF UserInv, SearchOrderComplete

\* Calls that have nothing to do with users.
LEMMA SameUsers ==
  ASSUME ObjInv, UserInv, UNCHANGED userVars, calls' \in Nat, calls <= calls',
         HmcUserPatterns' = HmcUserPatterns
  PROVE  UserInv'
<1>1. 0..calls \subseteq 0..calls'
  BY ObjTypes
<1>2. roles \in [AnyUser -> [AnyRole -> 0..calls']] /\ perms \in [AnyRole -> [Target -> 0..calls']]
  BY <1>1 DEF UserInv
<1> QED
  BY <1>2 DEF UserInv, userVars, SearchOrderComplete

LEMMA SamePatterns ==
  ASSUME NEW o, o \notin Pattern, OnlyObj(o)
  PROVE  HmcUserPatterns' = HmcUserPatterns
<1>1. Pattern \subseteq Obj
  BY UserAssumption DEF UserAssumption
<1> QED
  BY <1>1 DEF HmcUserPatterns, OnlyObj, Lives

\* The calls that only use the generic methods and handlers.
Generic(c, o) ==
    \/ \E v \in Val : HmcAdd(o, v) /\ CreateObj(c, o, v)
    \/ \E v \in Val : HmcUpdate(o, v) /\ UpdateObj(c, o, v)
    \/ HmcRemove(o) /\ DeleteObj(c, o)
    \/ Lives(o) /\ \E full \in BOOLEAN : ListObj(c, o, full)
    \/ UseObj(c, o)

LEMMA GenericKeeps ==
  ASSUME ObjInv, NEW c \in Client, NEW o \in Obj, Generic(c, o)
  PROVE  ObjInv' /\ OnlyObj(o) /\ calls' = calls + 1
<1>1. CASE \E v \in Val : HmcAdd(o, v) /\ CreateObj(c, o, v)
  BY <1>1, CreateKeeps
<1>2. CASE \E v \in Val : HmcUpdate(o, v) /\ UpdateObj(c, o, v)
  BY <1>2, UpdateKeeps
<1>3. CASE HmcRemove(o) /\ DeleteObj(c, o)
  BY <1>3, DeleteKeeps
<1>4. CASE Lives(o) /\ \E full \in BOOLEAN : ListObj(c, o, full)
  BY <1>4, ListKeeps DEF OnlyObj
<1>5. CASE UseObj(c, o)
  BY <1>5, UseKeeps DEF OnlyObj
<1> QED
  BY <1>1, <1>2, <1>3, <1>4, <1>5 DEF Generic

LEMMA CallsCount == ASSUME ObjInv  PROVE calls \in Nat /\ calls + 1 \in Nat /\ calls <= calls + 1
BY ObjTypes

LEMMA UserStepKeeps ==
  ASSUME ObjInv, UserInv, NEW c \in Client, NEW o \in Obj, UserStep(c, o)
  PROVE  ObjInv' /\ OnlyObj(o) /\ calls' = calls + 1 /\ UserInv'
<1>1. ASSUME o \notin Pattern, Generic(c, o), UNCHANGED userVars
      PROVE  ObjInv' /\ OnlyObj(o) /\ calls' = calls + 1 /\ UserInv'
  <2>1. ObjInv' /\ OnlyObj(o) /\ calls' = calls + 1
    BY <1>1, GenericKeeps
  <2>2. HmcUserPatterns' = HmcUserPatterns
    BY <1>1, <2>1, SamePatterns
  <2> QED
    BY <1>1, <2>1, <2>2, CallsCount, SameUsers
<1>2. ASSUME o \notin Pattern, UseObj(c, o), order' = order,
             roles' \in [AnyUser -> [AnyRole -> 0..calls']],
             perms' \in [AnyRole -> [Target -> 0..calls']]
      PROVE  ObjInv' /\ OnlyObj(o) /\ calls' = calls + 1 /\ UserInv'
  <2>1. ObjInv' /\ OnlyObj(o) /\ calls' = calls + 1
    BY <1>2, GenericKeeps DEF Generic
  <2>2. HmcUserPatterns' = HmcUserPatterns
    BY <1>2, <2>1, SamePatterns
  <2> QED
    BY <1>2, <2>1, <2>2 DEF UserInv, SearchOrderComplete
<1>3. ASSUME UseObj(c, o)
      PROVE  /\ calls' = calls + 1 /\ 0..calls \subseteq 0..calls'
             /\ \A n \in 0..calls : n + 1 \in 0..calls' /\ (n > 0 => n - 1 \in 0..calls')
             /\ roles \in [AnyUser -> [AnyRole -> 0..calls']]
             /\ perms \in [AnyRole -> [Target -> 0..calls']]
  <2>1. calls' = calls + 1
    BY <1>3, UseKeeps
  <2>2. 0..calls \subseteq 0..calls' /\ \A n \in 0..calls : n + 1 \in 0..calls' /\ (n > 0 => n - 1 \in 0..calls')
    BY <2>1, CallsCount
  <2> QED
    BY <2>1, <2>2 DEF UserInv
<1>4. CASE /\ o \in AnyUser
           /\ \/ CreateUser(c, o) \/ UpdateUser(c, o) \/ DeleteUser(c, o)
              \/ AddUserRole(c, o) \/ RemoveUserRole(c, o)
              \/ \E full \in BOOLEAN : ListUsers(c, o, full)
  <2>1. o \notin Pattern
    BY <1>4, InventoryAssumption DEF InventoryAssumption
  <2>2. CASE CreateUser(c, o) \/ UpdateUser(c, o)
    BY <1>1, <2>1, <2>2 DEF CreateUser, UpdateUser, HmcCreateUser, HmcUpdateUser, Generic
  <2>3. CASE DeleteUser(c, o) \/ \E full \in BOOLEAN : ListUsers(c, o, full)
    BY <1>1, <2>1, <2>3 DEF DeleteUser, HmcDeleteUser, HmcDelete, ListUsers, HmcUsers, Generic
  <2>4. CASE AddUserRole(c, o)
    <3>1. PICK r \in AnyRole : o \in AnyUser /\ roles' = [roles EXCEPT ![o][r] = @ + 1]
      BY <2>4 DEF AddUserRole, HmcAddUserRole, AnyUser
    <3>2. UseObj(c, o) /\ order' = order /\ perms' = perms
      BY <2>4 DEF AddUserRole
    <3>3. roles[o][r] + 1 \in 0..calls'
      BY <1>3, <3>1, <3>2 DEF UserInv
    <3>4. roles' \in [AnyUser -> [AnyRole -> 0..calls']]
      BY <1>3, <3>1, <3>2, <3>3
    <3> QED
      BY <1>2, <1>3, <2>1, <3>2, <3>4
  <2>5. CASE RemoveUserRole(c, o)
    <3>1. PICK r \in AnyRole : /\ o \in AnyUser /\ roles[o][r] > 0
                               /\ roles' = [roles EXCEPT ![o][r] = @ - 1]
      BY <2>5 DEF RemoveUserRole, HmcRemoveUserRole, AnyUser
    <3>2. UseObj(c, o) /\ order' = order /\ perms' = perms
      BY <2>5 DEF RemoveUserRole
    <3>3. roles[o][r] - 1 \in 0..calls'
      BY <1>3, <3>1, <3>2 DEF UserInv
    <3>4. roles' \in [AnyUser -> [AnyRole -> 0..calls']]
      BY <1>3, <3>1, <3>2, <3>3
    <3> QED
      BY <1>2, <1>3, <2>1, <3>2, <3>4
  <2> QED
    BY <1>4, <2>2, <2>3, <2>4, <2>5
<1>5. CASE /\ o \in AnyRole
           /\ \/ CreateUserRole(c, o) \/ UpdateUserRole(c, o) \/ DeleteUserRole(c, o)
              \/ AddPermission(c, o) \/ RemovePermission(c, o)
              \/ \E full \in BOOLEAN : ListUserRoles(c, o, full)
  <2>1. o \notin Pattern
    BY <1>5, InventoryAssumption DEF InventoryAssumption
  <2>2. CASE CreateUserRole(c, o) \/ UpdateUserRole(c, o)
    BY <1>1, <2>1, <2>2 DEF CreateUserRole, UpdateUserRole, HmcCreateUserRole, HmcUpdateUserRole, Generic
  <2>3. CASE DeleteUserRole(c, o) \/ \E full \in BOOLEAN : ListUserRoles(c, o, full)
    BY <1>1, <2>1, <2>3
       DEF DeleteUserRole, HmcDeleteUserRole, HmcDelete, ListUserRoles, HmcUserRoles, Generic
  <2>4. CASE AddPermission(c, o)
    <3>1. PICK t \in Target : perms' = [perms EXCEPT ![o][t] = @ + 1]
      BY <2>4 DEF AddPermission, HmcAddPermission
    <3>2. UseObj(c, o) /\ order' = order /\ roles' = roles
      BY <2>4 DEF AddPermission
    <3>3. perms[o][t] + 1 \in 0..calls'
      BY <1>3, <1>5, <3>2 DEF UserInv
    <3>4. perms' \in [AnyRole -> [Target -> 0..calls']]
      BY <1>3, <3>1, <3>2, <3>3
    <3> QED
      BY <1>2, <1>3, <2>1, <3>2, <3>4
  <2>5. CASE RemovePermission(c, o)
    <3>1. PICK t \in Target : perms[o][t] > 0 /\ perms' = [perms EXCEPT ![o][t] = @ - 1]
      BY <2>5 DEF RemovePermission, HmcRemovePermission
    <3>2. UseObj(c, o) /\ order' = order /\ roles' = roles
      BY <2>5 DEF RemovePermission
    <3>3. perms[o][t] - 1 \in 0..calls'
      BY <1>3, <1>5, <3>1, <3>2 DEF UserInv
    <3>4. perms' \in [AnyRole -> [Target -> 0..calls']]
      BY <1>3, <3>1, <3>2, <3>3
    <3> QED
      BY <1>2, <1>3, <2>1, <3>2, <3>4
  <2> QED
    BY <1>5, <2>2, <2>3, <2>4, <2>5
<1>6. CASE /\ o \in Pattern
           /\ \/ CreateUserPattern(c, o) \/ UpdateUserPattern(c, o) \/ DeleteUserPattern(c, o)
              \/ \E full \in BOOLEAN : ListUserPatterns(c, o, full)
  <2>1. /\ order \in Seq(Pattern) /\ IsInjective(order) /\ Range(order) = HmcUserPatterns
        /\ Pattern \subseteq Obj
    BY UserAssumption DEF UserAssumption, UserInv, SearchOrderComplete
  <2>2. ASSUME Generic(c, o), UNCHANGED <<roles, perms>>, order' \in Seq(Pattern),
               OnlyObj(o) => IsInjective(order') /\ Range(order') = HmcUserPatterns'
        PROVE  ObjInv' /\ OnlyObj(o) /\ calls' = calls + 1 /\ UserInv'
    <3>1. ObjInv' /\ OnlyObj(o) /\ calls' = calls + 1
      BY <2>2, GenericKeeps
    <3>2. 0..calls \subseteq 0..calls'
      BY <3>1, CallsCount
    <3>3. roles' \in [AnyUser -> [AnyRole -> 0..calls']] /\ perms' \in [AnyRole -> [Target -> 0..calls']]
      BY <2>2, <3>2 DEF UserInv
    <3> QED
      BY <2>2, <3>1, <3>3 DEF UserInv, SearchOrderComplete
  <2>3. CASE CreateUserPattern(c, o)
    <3>1. PICK v \in Val : HmcAdd(o, v) /\ CreateObj(c, o, v) /\ order' = Append(order, o)
      BY <2>3 DEF CreateUserPattern, HmcCreateUserPattern
    <3>2. UNCHANGED <<roles, perms>> /\ Generic(c, o)
      BY <2>3, <3>1 DEF CreateUserPattern, Generic
    <3>3. obj[o].state = "none" /\ obj'[o].state = "live"
      BY <3>1, AddFacts
    <3>4. o \notin Range(order)
      BY <2>1, <3>3 DEF HmcUserPatterns, Lives
    <3>5. order' \in Seq(Pattern) /\ IsInjective(order') /\ Range(order') = HmcUserPatterns \cup {o}
      BY <1>6, <2>1, <3>1, <3>4, AppendFacts
    <3>6. ASSUME OnlyObj(o)  PROVE HmcUserPatterns' = HmcUserPatterns \cup {o}
      BY <1>6, <2>1, <3>3, <3>6 DEF HmcUserPatterns, Lives, OnlyObj
    <3> QED
      BY <2>2, <3>2, <3>5, <3>6
  <2>4. CASE UpdateUserPattern(c, o)
    <3>1. PICK v \in Val : HmcUpdate(o, v) /\ UpdateObj(c, o, v) /\ UNCHANGED userVars
      BY <2>4 DEF UpdateUserPattern, HmcUpdateUserPattern
    <3>2. Generic(c, o)
      BY <3>1 DEF Generic
    <3>3. obj[o].state = "live" /\ obj'[o].state = "live"
      BY <3>1, UpdateFacts
    <3>4. ASSUME OnlyObj(o)  PROVE HmcUserPatterns' = HmcUserPatterns
      BY <1>6, <2>1, <3>3, <3>4 DEF HmcUserPatterns, Lives, OnlyObj
    <3> QED
      BY <2>1, <2>2, <3>1, <3>2, <3>4 DEF userVars
  <2>5. CASE DeleteUserPattern(c, o)
    <3>1. HmcRemove(o) /\ DeleteObj(c, o) /\ order' = RemoveFirst(order, o)
      BY <2>5 DEF DeleteUserPattern, HmcDeleteUserPattern, HmcDelete
    <3>2. UNCHANGED <<roles, perms>> /\ Generic(c, o)
      BY <2>5, <3>1 DEF DeleteUserPattern, Generic
    <3>3. obj'[o].state = "deleted"
      BY <3>1, RemoveFacts
    <3>4. order' \in Seq(Pattern) /\ IsInjective(order') /\ Range(order') = HmcUserPatterns \ {o}
      BY <2>1, <3>1, RemoveFirstFacts
    <3>5. ASSUME OnlyObj(o)  PROVE HmcUserPatterns' = HmcUserPatterns \ {o}
      BY <1>6, <2>1, <3>3, <3>5 DEF HmcUserPatterns, Lives, OnlyObj
    <3> QED
      BY <2>2, <3>2, <3>4, <3>5
  <2>6. ASSUME NEW full \in BOOLEAN, ListUserPatterns(c, o, full)
        PROVE  ObjInv' /\ OnlyObj(o) /\ calls' = calls + 1 /\ UserInv'
    <3>1. Lives(o) /\ ListObj(c, o, full) /\ UNCHANGED userVars
      BY <2>6 DEF ListUserPatterns, HmcUserPatterns
    <3>2. Generic(c, o)
      BY <3>1 DEF Generic
    <3>3. HmcUserPatterns' = HmcUserPatterns
      BY <3>1 DEF ListObj, HmcUserPatterns, Lives
    <3> QED
      BY <2>1, <2>2, <3>1, <3>2, <3>3 DEF userVars
  <2> QED
    BY <1>6, <2>3, <2>4, <2>5, <2>6
<1>7. CASE /\ o \in Rule
           /\ \/ CreatePasswordRule(c, o) \/ UpdatePasswordRule(c, o) \/ DeletePasswordRule(c, o)
              \/ \E full \in BOOLEAN : ListPasswordRules(c, o, full)
  <2>1. o \notin Pattern
    BY <1>7, InventoryAssumption DEF InventoryAssumption
  <2>2. CASE CreatePasswordRule(c, o) \/ UpdatePasswordRule(c, o)
    BY <1>1, <2>1, <2>2
       DEF CreatePasswordRule, UpdatePasswordRule, HmcCreatePasswordRule, HmcUpdatePasswordRule, Generic
  <2>3. CASE DeletePasswordRule(c, o) \/ \E full \in BOOLEAN : ListPasswordRules(c, o, full)
    BY <1>1, <2>1, <2>3
       DEF DeletePasswordRule, HmcDeletePasswordRule, HmcDelete, ListPasswordRules, HmcPasswordRules, Generic
  <2> QED
    BY <1>7, <2>2, <2>3
<1> QED
  BY <1>4, <1>5, <1>6, <1>7 DEF UserStep

LEMMA ReorderKeeps ==
  ASSUME ObjInv, UserInv, NEW c \in Client, ReorderUserPatterns(c)
  PROVE  ObjInv' /\ UNCHANGED obj /\ calls' = calls + 1 /\ UserInv'
<1>1. PICK ps \in PatternList : order' = Reordered(ps)
  BY DEF ReorderUserPatterns
<1>2. Begin /\ UNCHANGED <<obj, copies, differs, overruled, roles, perms>>
  BY DEF ReorderUserPatterns
<1>3. ObjInv' /\ calls' = calls + 1
  BY <1>2, CountKeeps
<1>4. order' \in Seq(Pattern) /\ IsInjective(order') /\ Range(order') = HmcUserPatterns
  BY <1>1, ReorderedFacts, UserAssumption DEF UserInv
<1>5. HmcUserPatterns' = HmcUserPatterns
  BY <1>2 DEF HmcUserPatterns, Lives
<1>6. 0..calls \subseteq 0..calls'
  BY <1>3, CallsCount
<1>7. roles' \in [AnyUser -> [AnyRole -> 0..calls']] /\ perms' \in [AnyRole -> [Target -> 0..calls']]
  BY <1>2, <1>6 DEF UserInv
<1> QED
  BY <1>2, <1>3, <1>4, <1>5, <1>7 DEF UserInv, SearchOrderComplete

--------------------------------------------------------------------------------
(* Capacity groups *)

\* Only a group that exists has partitions, and no two groups have the same one.
CapacityInv ==
    /\ CapacityTypeOK
    /\ \A g \in CapGroup : member[g] # {} => Lives(g)
    /\ \A g, h \in CapGroup : g # h => member[g] \cap member[h] = {}

LEMMA CapacityHolds == CapacityInv => OneCapacityGroup
<1> SUFFICES ASSUME CapacityInv, NEW p \in CapPartition
             PROVE  Cardinality({g \in CapGroup : p \in member[g]}) <= 1
  BY DEF OneCapacityGroup
<1> DEFINE G == {g \in CapGroup : p \in member[g]}
<1>1. \A g, h \in G : g = h
  BY DEF CapacityInv
<1>2. CASE G = {}
  BY <1>2, FS_EmptySet
<1>3. CASE G # {}
  <2>1. PICK g \in G : TRUE
    BY <1>3
  <2> HIDE DEF G
  <2>2. G = {g}
    BY <1>1, <2>1
  <2>3. Cardinality({g}) = 1
    BY FS_Singleton
  <2>4. Cardinality(G) <= 1
    BY <2>2, <2>3
  <2> QED
    BY <2>4 DEF G
<1> QED
  BY <1>2, <1>3

\* Calls that change no partition of a group, and delete no group.
LEMMA SameCapacity ==
  ASSUME CapacityInv, UNCHANGED capacityVars, \A g \in CapGroup : Lives(g) => Lives(g)'
  PROVE  CapacityInv'
BY DEF CapacityInv, CapacityTypeOK, capacityVars

LEMMA OtherClass ==
  ASSUME NEW o, o \notin CapGroup, OnlyObj(o)
  PROVE  \A g \in CapGroup : Lives(g) => Lives(g)'
BY CapacityAssumption DEF CapacityAssumption, OnlyObj, Lives

LEMMA CapacityStepKeeps ==
  ASSUME ObjInv, CapacityInv, NEW c \in Client, NEW g \in Obj, CapacityStep(c, g)
  PROVE  ObjInv' /\ OnlyObj(g) /\ calls' = calls + 1 /\ CapacityInv'
<1>1. g \in CapGroup /\ CapGroup \subseteq Obj
  BY CapacityAssumption DEF CapacityStep, CapacityAssumption
<1>2. ASSUME Generic(c, g), UNCHANGED capacityVars, OnlyObj(g) /\ Lives(g) => Lives(g)'
      PROVE  ObjInv' /\ OnlyObj(g) /\ calls' = calls + 1 /\ CapacityInv'
  <2>1. ObjInv' /\ OnlyObj(g) /\ calls' = calls + 1
    BY <1>2, GenericKeeps
  <2>2. \A h \in CapGroup : Lives(h) => Lives(h)'
    BY <1>1, <1>2, <2>1 DEF OnlyObj, Lives
  <2> QED
    BY <1>2, <2>1, <2>2, SameCapacity
<1>3. CASE CreateCapacityGroup(c, g)
  <2>1. PICK v \in Val : HmcAdd(g, v) /\ CreateObj(c, g, v) /\ UNCHANGED capacityVars
    BY <1>3 DEF CreateCapacityGroup, HmcCreateCapacityGroup
  <2>2. Generic(c, g) /\ Lives(g)'
    BY <2>1, AddFacts DEF Generic, Lives
  <2> QED
    BY <1>2, <2>1, <2>2
<1>4. CASE UpdateCapacityGroup(c, g)
  <2>1. PICK v \in Val : HmcUpdate(g, v) /\ UpdateObj(c, g, v) /\ UNCHANGED capacityVars
    BY <1>4 DEF UpdateCapacityGroup, HmcUpdateCapacityGroup
  <2>2. Generic(c, g) /\ Lives(g)'
    BY <2>1, UpdateFacts DEF Generic, Lives
  <2> QED
    BY <1>2, <2>1, <2>2
<1>5. CASE DeleteCapacityGroup(c, g)
  <2>1. HmcRemove(g) /\ DeleteObj(c, g) /\ UNCHANGED capacityVars /\ member[g] = {}
    BY <1>5 DEF DeleteCapacityGroup, HmcDeleteCapacityGroup
  <2>2. ObjInv' /\ OnlyObj(g) /\ calls' = calls + 1
    BY <2>1, DeleteKeeps
  <2>3. \A h \in CapGroup : member'[h] # {} => Lives(h)'
    BY <1>1, <2>1, <2>2 DEF CapacityInv, OnlyObj, Lives, capacityVars
  <2> QED
    BY <2>1, <2>2, <2>3 DEF CapacityInv, CapacityTypeOK, capacityVars
<1>6. CASE AddPartition(c, g)
  <2>1. PICK p \in CapPartition : HmcAddPartition(g, p) /\ UseObj(c, g) /\ UNCHANGED mode
    BY <1>6 DEF AddPartition
  <2>2. ObjInv' /\ UNCHANGED obj /\ calls' = calls + 1 /\ Lives(g)
    BY <2>1, UseKeeps
  <2>3. member' = [member EXCEPT ![g] = @ \cup {p}] /\ \A h \in CapGroup : Lives(h) => p \notin member[h]
    BY <2>1 DEF HmcAddPartition, HmcCapacityGroups
  <2>4. \A h \in CapGroup : p \notin member[h]
    BY <2>3 DEF CapacityInv
  <2>5. /\ member' \in [CapGroup -> SUBSET CapPartition] /\ member'[g] = member[g] \cup {p}
        /\ \A h \in CapGroup \ {g} : member'[h] = member[h]
    BY <1>1, <2>3 DEF CapacityInv, CapacityTypeOK
  <2>6. \A h, k \in CapGroup : h # k => member'[h] \cap member'[k] = {}
    BY <2>4, <2>5 DEF CapacityInv
  <2>7. \A h \in CapGroup : member'[h] # {} => Lives(h)'
    BY <2>2, <2>5 DEF CapacityInv, Lives
  <2> QED
    BY <2>1, <2>2, <2>5, <2>6, <2>7 DEF CapacityInv, CapacityTypeOK, OnlyObj
<1>7. CASE RemovePartition(c, g)
  <2>1. PICK p \in CapPartition : HmcRemovePartition(g, p) /\ UseObj(c, g) /\ UNCHANGED mode
    BY <1>7 DEF RemovePartition
  <2>2. ObjInv' /\ UNCHANGED obj /\ calls' = calls + 1 /\ Lives(g)
    BY <2>1, UseKeeps
  <2>3. member' = [member EXCEPT ![g] = @ \ {p}]
    BY <2>1 DEF HmcRemovePartition
  <2>4. /\ member' \in [CapGroup -> SUBSET CapPartition]
        /\ \A h \in CapGroup : member'[h] \subseteq member[h]
    BY <1>1, <2>3 DEF CapacityInv, CapacityTypeOK
  <2>5. \A h, k \in CapGroup : h # k => member'[h] \cap member'[k] = {}
    BY <2>4 DEF CapacityInv
  <2>6. \A h \in CapGroup : member'[h] # {} => Lives(h)'
    BY <2>2, <2>4 DEF CapacityInv, Lives
  <2> QED
    BY <2>1, <2>2, <2>4, <2>5, <2>6 DEF CapacityInv, CapacityTypeOK, OnlyObj
<1>8. ASSUME NEW full \in BOOLEAN, ListCapacityGroups(c, g, full)
      PROVE  ObjInv' /\ OnlyObj(g) /\ calls' = calls + 1 /\ CapacityInv'
  <2>1. Lives(g) /\ ListObj(c, g, full) /\ UNCHANGED capacityVars
    BY <1>8 DEF ListCapacityGroups, HmcCapacityGroups
  <2>2. Generic(c, g) /\ Lives(g)'
    BY <2>1 DEF Generic, ListObj, Lives
  <2> QED
    BY <1>2, <2>1, <2>2
<1> QED
  BY <1>3, <1>4, <1>5, <1>6, <1>7, <1>8 DEF CapacityStep

LEMMA PartitionChangesKeep ==
  ASSUME ObjInv, CapacityInv, PartitionChanges
  PROVE  UNCHANGED objVars /\ CapacityInv'
<1>1. UNCHANGED <<objVars, member>>
  BY DEF PartitionChanges
<1>2. mode' \in [CapPartition -> {"shared", "dedicated", "deleted"}]
  BY DEF PartitionChanges, CapacityInv, CapacityTypeOK
<1> QED
  BY <1>1, <1>2 DEF CapacityInv, CapacityTypeOK, objVars, Lives

--------------------------------------------------------------------------------
(* Server definitions and custom groups *)

LEMMA ServerDefinitionStepKeeps ==
  ASSUME ObjInv, NEW c \in Client, NEW d \in Obj, ServerDefinitionStep(c, d)
  PROVE  ObjInv' /\ OnlyObj(d) /\ calls' = calls + 1
<1>1. CASE CreateLdap(c, d) \/ UpdateLdap(c, d) \/ DeleteLdap(c, d)
  <2>1. Generic(c, d)
    BY <1>1 DEF CreateLdap, UpdateLdap, DeleteLdap, HmcCreateLdap, HmcUpdateLdap, HmcDeleteLdap,
                HmcDelete, Generic
  <2> QED
    BY <2>1, GenericKeeps
<1>2. CASE CreateMfa(c, d) \/ UpdateMfa(c, d) \/ DeleteMfa(c, d)
  <2>1. Generic(c, d)
    BY <1>2 DEF CreateMfa, UpdateMfa, DeleteMfa, HmcCreateMfa, HmcUpdateMfa, HmcDeleteMfa,
                HmcDelete, Generic
  <2> QED
    BY <2>1, GenericKeeps
<1>3. CASE UpdateSso(c, d) \/ DeleteSso(c, d)
  <2>1. Generic(c, d)
    BY <1>3 DEF UpdateSso, DeleteSso, HmcUpdateSso, HmcDeleteSso, HmcDelete, Generic
  <2> QED
    BY <2>1, GenericKeeps
<1>4. CASE CreateSso(c, d)
  <2>1. PICK v \in Val, w \in Val :
           /\ HmcAdd(d, w)
           /\ copies' = [copies EXCEPT ![c][d] = [state |-> "live", val |-> {v}]]
           /\ overruled' = IF w = v THEN overruled ELSE [overruled EXCEPT ![c] = @ \cup {d}]
    BY <1>4 DEF CreateSso, HmcCreateSso
  <2>2. /\ obj' \in [Obj -> ObjType] /\ OnlyObj(d)
        /\ obj[d].state = "none" /\ obj'[d].state = "live" /\ obj'[d].val = w
    BY <2>1, AddFacts
  <2> DEFINE new == [state |-> "live", val |-> {v}]
  <2>3. /\ new \in CopyType /\ new.state = "live" /\ new.val = {v}
        /\ copies' = [copies EXCEPT ![c][d] = new]
    BY <2>1 DEF CopyType, OneOf
  <2> HIDE DEF new
  <2>4. /\ copies' \in [Client -> [Obj -> CopyType]] /\ copies'[c][d] = new
        /\ \A e \in Client, x \in Obj : e # c \/ x # d => copies'[e][x] = copies[e][x]
    BY <2>3, ObjTypes
  <2>5. /\ differs' \in [Client -> SUBSET Obj] /\ \A e \in Client \ {c} : d \in differs'[e]
        /\ \A e \in Client, x \in Obj : x # d => (x \in differs'[e]) = (x \in differs[e])
    BY <1>4, ObjTypes DEF CreateSso, Touched
  <2>6. OverruledKept(c, d) /\ (w # v => d \in overruled'[c])
    BY <2>1, ObjTypes DEF OverruledKept
  <2>7. calls' \in 0..MaxCalls /\ calls' = calls + 1
    BY <1>4, BeginCounts DEF CreateSso
  <2>8. HonestChange(c, d)
    BY <2>2, <2>3, <2>4, <2>5, <2>6, <2>7 DEF HonestChange
  <2> QED
    BY <2>2, <2>7, <2>8, ObjKept
<1>5. ASSUME NEW full \in BOOLEAN, ListLdap(c, d, full) \/ ListMfa(c, d, full) \/ ListSso(c, d, full)
      PROVE  ObjInv' /\ OnlyObj(d) /\ calls' = calls + 1
  <2>1. Lives(d) /\ ListObj(c, d, full)
    BY <1>5 DEF ListLdap, ListMfa, ListSso, HmcLdapServerDefinitions, HmcMfaServerDefinitions,
                HmcSsoServerDefinitions
  <2>2. Generic(c, d)
    BY <2>1 DEF Generic
  <2> QED
    BY <2>2, GenericKeeps
<1> QED
  BY <1>1, <1>2, <1>3, <1>4, <1>5 DEF ServerDefinitionStep

\* There are no more members than there were calls.
GroupInv == members \in [CustomGroup -> {s \in Seq(Member) : Len(s) <= calls}]

LEMMA GroupTypes == ObjInv /\ GroupInv => GroupTypeOK
<1> SUFFICES ASSUME ObjInv, GroupInv  PROVE GroupTypeOK
  OBVIOUS
<1>1. ASSUME NEW s \in Seq(Member), Len(s) <= calls  PROVE s \in BoundedSeq(Member, MaxCalls)
  <2>1. Len(s) <= MaxCalls
    BY <1>1, ObjTypes
  <2> QED
    BY <2>1, BoundedSeqs
<1> QED
  BY <1>1 DEF GroupInv, GroupTypeOK

LEMMA SameMembers ==
  ASSUME ObjInv, GroupInv, UNCHANGED members, calls' \in Nat, calls <= calls'
  PROVE  GroupInv'
<1>1. ASSUME NEW s \in Seq(Member), Len(s) <= calls  PROVE Len(s) <= calls'
  BY <1>1, CallsCount
<1> QED
  BY <1>1 DEF GroupInv

LEMMA CustomGroupStepKeeps ==
  ASSUME ObjInv, GroupInv, NEW c \in Client, NEW g \in Obj, CustomGroupStep(c, g)
  PROVE  ObjInv' /\ OnlyObj(g) /\ calls' = calls + 1 /\ GroupInv'
<1>1. g \in CustomGroup
  BY DEF CustomGroupStep
<1>2. ASSUME Generic(c, g), UNCHANGED members
      PROVE  ObjInv' /\ OnlyObj(g) /\ calls' = calls + 1 /\ GroupInv'
  BY <1>2, GenericKeeps, SameMembers, CallsCount
<1>3. CASE CreateCustomGroup(c, g) \/ DeleteCustomGroup(c, g) \/ ListMembers(c, g)
  BY <1>2, <1>3 DEF CreateCustomGroup, HmcCreateCustomGroup, DeleteCustomGroup, HmcDeleteCustomGroup,
                    ListMembers, Generic
<1>4. ASSUME NEW full \in BOOLEAN, ListCustomGroups(c, g, full)
      PROVE  ObjInv' /\ OnlyObj(g) /\ calls' = calls + 1 /\ GroupInv'
  BY <1>2, <1>4 DEF ListCustomGroups, HmcCustomGroups, Generic
<1>5. CASE AddMember(c, g) \/ RemoveMember(c, g)
  <2>1. PICK o \in Member : \/ members' = [members EXCEPT ![g] = Append(@, o)]
                            \/ members' = [members EXCEPT ![g] = RemoveFirst(@, o)]
    BY <1>5 DEF AddMember, RemoveMember, HmcAddMember, HmcRemoveMember
  <2>2. UseObj(c, g)
    BY <1>5 DEF AddMember, RemoveMember
  <2>3. ObjInv' /\ UNCHANGED obj /\ calls' = calls + 1
    BY <2>2, UseKeeps
  <2> DEFINE s == members[g]
  <2>4. s \in Seq(Member) /\ Len(s) <= calls
    BY <1>1 DEF GroupInv
  <2>5. \A t \in Seq(Member) : Len(t) <= calls => Len(t) <= calls'
    BY <2>3, CallsCount
  <2>6. Append(s, o) \in Seq(Member) /\ Len(Append(s, o)) <= calls'
    <3> HIDE DEF s
    <3>1. Append(s, o) \in Seq(Member) /\ Len(Append(s, o)) = Len(s) + 1 /\ Len(s) \in Nat
      BY <2>4
    <3> QED
      BY <2>3, <2>4, <3>1, CallsCount
  <2>7. RemoveFirst(s, o) \in Seq(Member) /\ Len(RemoveFirst(s, o)) <= calls'
    <3> HIDE DEF s
    <3>1. RemoveFirst(s, o) \in Seq(Member) /\ Len(RemoveFirst(s, o)) <= Len(s) /\ Len(s) \in Nat
          /\ Len(RemoveFirst(s, o)) \in Nat
      BY <2>4, RemoveFirstFacts
    <3> QED
      BY <2>3, <2>4, <3>1, CallsCount
  <2>8. members' \in [CustomGroup -> {t \in Seq(Member) : Len(t) <= calls'}]
    BY <1>1, <2>1, <2>5, <2>6, <2>7 DEF GroupInv
  <2> QED
    BY <2>3, <2>8 DEF GroupInv, OnlyObj
<1> QED
  BY <1>3, <1>4, <1>5 DEF CustomGroupStep

--------------------------------------------------------------------------------
(* The composition *)

InventoryInv == ObjInv /\ StorageInv /\ UserInv /\ CapacityInv /\ GroupInv

LEMMA InventoryStarts == InventoryInit => InventoryInv
<1> SUFFICES ASSUME InventoryInit  PROVE InventoryInv
  OBVIOUS
<1>1. ObjInit /\ StorageInit /\ UserInit /\ CapacityInit /\ GroupInit
  BY DEF InventoryInit
<1>2. ObjInv
  <2>1. PICK w \in World :
           obj = [o \in Obj |-> [state |-> CASE o \in w.live -> "live" [] o \in w.fresh -> "none"
                                             [] OTHER -> "deleted",
                                 val |-> InitVal]]
    BY <1>1 DEF ObjInit
  <2>2. InitVal \in Val
    BY ObjectAssumption DEF ObjectAssumption
  <2>3. /\ obj \in [Obj -> ObjType]
        /\ \A o \in Obj : obj[o].val = InitVal /\ obj[o].state \in {"none", "live", "deleted"}
    BY <2>1, <2>2 DEF ObjType
  <2>4. copies = [c \in Client |-> [o \in Obj |-> IF obj[o].state = "live"
                                                    THEN [state |-> "live", val |-> {InitVal}]
                                                    ELSE [state |-> "none", val |-> {}]]]
    BY <1>1 DEF ObjInit
  <2>5. copies \in [Client -> [Obj -> CopyType]]
    <3>1. [state |-> "live", val |-> {InitVal}] \in CopyType /\ [state |-> "none", val |-> {}] \in CopyType
      BY <2>2 DEF CopyType, OneOf
    <3> QED
      BY <2>4, <3>1
  <2>6. \A c \in Client, o \in Obj :
           \/ obj[o].state = "live" /\ copies[c][o].state = "live" /\ copies[c][o].val = {InitVal}
           \/ obj[o].state # "live" /\ copies[c][o].state = "none"
    BY <2>4
  <2>7. ObjTypeOK
    <3>1. differs \in [Client -> SUBSET Obj] /\ overruled \in [Client -> SUBSET Obj]
      BY <1>1 DEF ObjInit
    <3>2. calls \in 0..MaxCalls
      BY <1>1, CallsAssumption DEF ObjInit, CallsAssumption
    <3> QED
      BY <2>3, <2>5, <3>1, <3>2 DEF ObjTypeOK, ObjType, CopyType
  <2>8. ClientViewHonest /\ \A c \in Client, o \in Obj : Holds(c, o) => obj[o].state # "none"
    BY <2>3, <2>6 DEF ClientViewHonest, Holds
  <2> QED
    BY <2>7, <2>8 DEF ObjInv
<1>3. StorageInv
  <2>1. VolsOK(vol)
    BY <1>1 DEF StorageInit, VolsOK, VolType, OneOf
  <2>2. ports \in [Group -> OneOf({s \in Seq(Port) : IsInjective(s)})]
    <3>1. <<>> \in Seq(Port) /\ IsInjective(<<>>)
      BY DEF IsInjective
    <3> QED
      BY <1>1, <3>1 DEF StorageInit, OneOf
  <2>3. luris \in [Client -> [Container -> OneOf(SUBSET Vol)]] /\ gone = [c \in Client |-> {}]
    BY <1>1 DEF StorageInit, OneOf
  <2>4. /\ volUris \in [Container -> SUBSET Vol]
        /\ \A g \in Container : UrisExact(vol, volUris[g], g)
    BY <1>1 DEF StorageInit, UrisExact
  <2> QED
    BY <2>1, <2>2, <2>3, <2>4 DEF StorageInv, VolumesFollowOwnDelete
<1>4. UserInv
  BY <1>1, FirstOrder
<1>5. CapacityInv
  BY <1>1 DEF CapacityInit, CapacityInv, CapacityTypeOK
<1>6. GroupInv
  <2>1. calls = 0
    BY <1>1 DEF ObjInit
  <2>2. <<>> \in Seq(Member) /\ Len(<<>>) <= calls
    BY <2>1
  <2> QED
    BY <1>1, <2>2 DEF GroupInit, GroupInv
<1> QED
  BY <1>2, <1>3, <1>4, <1>5, <1>6 DEF InventoryInv

LEMMA InventorySteps == InventoryInv /\ [InventoryNext]_inventoryVars => InventoryInv'
<1> SUFFICES ASSUME InventoryInv, [InventoryNext]_inventoryVars  PROVE InventoryInv'
  OBVIOUS
<1> USE DEF InventoryInv
\* What a part does that a call leaves alone.
<1>1. ASSUME calls' = calls + 1  PROVE calls' \in Nat /\ calls <= calls'
  BY <1>1, CallsCount
<1>2. ASSUME NEW o \in Obj, OnlyObj(o), o \notin Pattern, calls' = calls + 1, UNCHANGED userVars
      PROVE  UserInv'
  BY <1>1, <1>2, SamePatterns, SameUsers
<1>3. ASSUME NEW o \in Obj, OnlyObj(o), o \notin CapGroup, UNCHANGED capacityVars
      PROVE  CapacityInv'
  BY <1>3, OtherClass, SameCapacity
<1>4. ASSUME calls' = calls + 1, UNCHANGED members
      PROVE  GroupInv'
  BY <1>1, <1>4, SameMembers
<1>5. ASSUME NEW c \in Client, NEW o \in Obj, PullObj(c, o)
      PROVE  InventoryInv'
  <2>1. ObjInv' /\ UNCHANGED obj /\ calls' = calls + 1
    BY <1>5, PullKeeps DEF PullObj
  <2>2. StorageInv'
    BY <1>5, ReadingKeepsStorage DEF PullObj
  <2>3. UNCHANGED userVars /\ UNCHANGED capacityVars /\ UNCHANGED members
    BY <1>5 DEF PullObj
  <2>4. HmcUserPatterns' = HmcUserPatterns /\ \A g \in CapGroup : Lives(g) => Lives(g)'
    BY <2>1 DEF HmcUserPatterns, Lives
  <2>5. UserInv'
    BY <1>1, <2>1, <2>3, <2>4, SameUsers
  <2>6. CapacityInv'
    BY <2>3, <2>4, SameCapacity
  <2> QED
    BY <1>4, <2>1, <2>2, <2>3, <2>5, <2>6
<1>6. ASSUME NEW c \in Client, NEW o \in Obj, StorageStep(c, o),
             UNCHANGED <<userVars, capacityVars, members>>
      PROVE  InventoryInv'
  <2>1. ObjInv' /\ OnlyObj(o) /\ calls' = calls + 1 /\ StorageInv'
    BY <1>6, StorageStepKeeps
  <2>2. o \notin Pattern /\ o \notin CapGroup
    BY <1>6, InventoryAssumption DEF InventoryAssumption, StorageStep
  <2> QED
    BY <1>2, <1>3, <1>4, <1>6, <2>1, <2>2
<1>7. ASSUME NEW c \in Client, NEW o \in Obj, UserStep(c, o),
             UNCHANGED <<storageVars, capacityVars, members>>
      PROVE  InventoryInv'
  <2>1. ObjInv' /\ OnlyObj(o) /\ calls' = calls + 1 /\ UserInv'
    BY <1>7, UserStepKeeps
  <2>2. o \notin CapGroup
    BY <1>7, InventoryAssumption DEF InventoryAssumption, UserStep
  <2> QED
    BY <1>3, <1>4, <1>7, <2>1, <2>2, SameStorage
<1>8. ASSUME NEW c \in Client, NEW o \in Obj, CapacityStep(c, o),
             UNCHANGED <<storageVars, userVars, members>>
      PROVE  InventoryInv'
  <2>1. ObjInv' /\ OnlyObj(o) /\ calls' = calls + 1 /\ CapacityInv'
    BY <1>8, CapacityStepKeeps
  <2>2. o \notin Pattern
    BY <1>8, InventoryAssumption DEF InventoryAssumption, CapacityStep
  <2> QED
    BY <1>2, <1>4, <1>8, <2>1, <2>2, SameStorage
<1>9. ASSUME NEW c \in Client, NEW o \in Obj, ServerDefinitionStep(c, o), UNCHANGED tableVars
      PROVE  InventoryInv'
  <2>1. ObjInv' /\ OnlyObj(o) /\ calls' = calls + 1
    BY <1>9, ServerDefinitionStepKeeps
  <2>2. o \notin Pattern /\ o \notin CapGroup
    BY <1>9, InventoryAssumption DEF InventoryAssumption, ServerDefinitionStep
  <2> QED
    BY <1>2, <1>3, <1>4, <1>9, <2>1, <2>2, SameStorage DEF tableVars
<1>10. ASSUME NEW c \in Client, NEW o \in Obj, CustomGroupStep(c, o),
              UNCHANGED <<storageVars, userVars, capacityVars>>
       PROVE  InventoryInv'
  <2>1. ObjInv' /\ OnlyObj(o) /\ calls' = calls + 1 /\ GroupInv'
    BY <1>10, CustomGroupStepKeeps
  <2>2. o \notin Pattern /\ o \notin CapGroup
    BY <1>10, InventoryAssumption DEF InventoryAssumption, CustomGroupStep
  <2> QED
    BY <1>2, <1>3, <1>10, <2>1, <2>2, SameStorage
<1>11. ASSUME NEW c \in Client, ReorderUserPatterns(c), UNCHANGED <<storageVars, capacityVars, members>>
       PROVE  InventoryInv'
  <2>1. ObjInv' /\ UNCHANGED obj /\ calls' = calls + 1 /\ UserInv'
    BY <1>11, ReorderKeeps
  <2>2. \A g \in CapGroup : Lives(g) => Lives(g)'
    BY <2>1 DEF Lives
  <2> QED
    BY <1>4, <1>11, <2>1, <2>2, SameCapacity, SameStorage
<1>12. ASSUME PartitionChanges, UNCHANGED <<storageVars, userVars, members>>
       PROVE  InventoryInv'
  <2>1. UNCHANGED objVars /\ CapacityInv'
    BY <1>12, PartitionChangesKeep
  <2>2. ObjInv'
    BY <2>1 DEF ObjInv, ObjTypeOK, ClientViewHonest, Holds, objVars
  <2>3. HmcUserPatterns' = HmcUserPatterns /\ calls' = calls
    BY <2>1 DEF HmcUserPatterns, Lives, objVars
  <2>4. UserInv'
    BY <1>12, <2>3, CallsCount, SameUsers
  <2>5. GroupInv'
    BY <1>12, <2>3 DEF GroupInv
  <2> QED
    BY <1>12, <2>1, <2>2, <2>4, <2>5, SameStorage
<1>13. CASE UNCHANGED inventoryVars
  <2>1. UNCHANGED objVars /\ UNCHANGED storageVars /\ UNCHANGED userVars /\ UNCHANGED capacityVars
        /\ UNCHANGED members
    BY <1>13 DEF inventoryVars, tableVars
  <2>2. ObjInv'
    BY <2>1 DEF ObjInv, ObjTypeOK, ClientViewHonest, Holds, objVars
  <2>3. HmcUserPatterns' = HmcUserPatterns /\ calls' = calls
        /\ \A g \in CapGroup : Lives(g) => Lives(g)'
    BY <2>1 DEF HmcUserPatterns, Lives, objVars
  <2>4. UserInv'
    BY <2>1, <2>3, CallsCount, SameUsers
  <2>5. GroupInv'
    BY <2>1, <2>3 DEF GroupInv
  <2> QED
    BY <2>1, <2>2, <2>3, <2>4, <2>5, SameCapacity, SameStorage
<1> QED
  BY <1>5, <1>6, <1>7, <1>8, <1>9, <1>10, <1>11, <1>12, <1>13 DEF InventoryNext

LEMMA InventoryProperties ==
  InventoryInv => InventoryTypeOK /\ InventoryConsistent /\ ClientsFollow
<1> SUFFICES ASSUME InventoryInv  PROVE InventoryTypeOK /\ InventoryConsistent /\ ClientsFollow
  OBVIOUS
<1> USE DEF InventoryInv
<1>1. InventoryTypeOK
  BY StorageProperties, UserTypes, GroupTypes DEF InventoryTypeOK, ObjInv, CapacityInv
<1>2. InventoryConsistent
  BY StorageProperties, CapacityHolds DEF InventoryConsistent, UserInv
<1>3. ClientsFollow
  BY DEF ClientsFollow, ObjInv, StorageInv
<1> QED
  BY <1>1, <1>2, <1>3

\* The tables of the mock HMC and the objects of the clients keep their types.
THEOREM InventoryTypeCorrect == InventorySpec => []InventoryTypeOK
<1>1. InventorySpec => []InventoryInv
  BY InventoryStarts, InventorySteps, PTL DEF InventorySpec
<1> QED
  BY <1>1, InventoryProperties, PTL

\* Whatever the clients request, in any interleaving and also when requests fail halfway: a storage
\* group lists each of its volumes and no others, its candidate ports are distinct, the search order
\* has each user pattern exactly once, and a partition is in one capacity group at most.
THEOREM InventoryIsConsistent == InventorySpec => []InventoryConsistent
<1>1. InventorySpec => []InventoryInv
  BY InventoryStarts, InventorySteps, PTL DEF InventorySpec
<1> QED
  BY <1>1, InventoryProperties, PTL

\* What a client's own objects say is so, unless another client has changed it, a request of the
\* client has failed halfway, or the HMC has overruled what create() has sent; and the client's own
\* deletions of volumes show in its storage groups.
THEOREM ClientsFollowTheirs == InventorySpec => []ClientsFollow
<1>1. InventorySpec => []InventoryInv
  BY InventoryStarts, InventorySteps, PTL DEF InventorySpec
<1> QED
  BY <1>1, InventoryProperties, PTL
================================================================================
