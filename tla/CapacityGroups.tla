---------------------------- MODULE CapacityGroups ----------------------------
(***************************************************************************)
(* The capacity groups of a CPC in DPM mode and the partitions in them     *)
(* (zhmcclient/_capacity_group.py), with the handlers of the mock HMC      *)
(* (zhmcclient/mock/_urihandler.py).                                       *)
(***************************************************************************)
EXTENDS ConsoleObjects, FiniteSets

CONSTANTS
    CapGroup,     \* the capacity groups, among the resources
    CapPartition  \* the partitions of the CPC

ASSUME CapacityAssumption == CapGroup \subseteq Obj

VARIABLES
    member,  \* partition-uris of each group
    mode     \* processor-mode of each partition, or "deleted"

capacityVars == <<member, mode>>

CapacityTypeOK ==
    /\ member \in [CapGroup -> SUBSET CapPartition]
    /\ mode \in [CapPartition -> {"shared", "dedicated", "deleted"}]

CapacityInit ==
    /\ member = [g \in CapGroup |-> {}]
    /\ mode = [p \in CapPartition |-> "shared"]

--------------------------------------------------------------------------------
(* The handlers of the mock HMC *)

HmcCapacityGroups == {g \in CapGroup : Lives(g)}

\* The body is that of an HMC, where partition-uris cannot be written; these handlers would
\* store it unchecked.
HmcCreateCapacityGroup(g, v) == g \in CapGroup /\ HmcAdd(g, v)
HmcUpdateCapacityGroup(g, v) == g \in CapGroup /\ HmcUpdate(g, v)

\* A group with partitions cannot be deleted (409.110).
HmcDeleteCapacityGroup(g) ==
    /\ g \in HmcCapacityGroups
    /\ member[g] = {}
    /\ HmcRemove(g)

\* The partition must be in shared mode (409.170), not in the group (409.130) and not in
\* another group of the CPC (409.120).
HmcAddPartition(g, p) ==
    /\ g \in HmcCapacityGroups
    /\ mode[p] = "shared"
    /\ \A h \in HmcCapacityGroups : p \notin member[h]
    /\ member' = [member EXCEPT ![g] = @ \cup {p}]

\* A partition that is deleted is not found (404), and stays in its group for ever.
HmcRemovePartition(g, p) ==
    /\ g \in HmcCapacityGroups
    /\ mode[p] # "deleted"
    /\ p \in member[g]
    /\ member' = [member EXCEPT ![g] = @ \ {p}]

--------------------------------------------------------------------------------
(* The methods of the client *)

ListCapacityGroups(c, g, full) ==
    g \in HmcCapacityGroups /\ ListObj(c, g, full) /\ UNCHANGED capacityVars

CreateCapacityGroup(c, g) ==
    /\ UNCHANGED capacityVars
    /\ \E v \in Val : HmcCreateCapacityGroup(g, v) /\ CreateObj(c, g, v)

UpdateCapacityGroup(c, g) ==
    /\ UNCHANGED capacityVars
    /\ \E v \in Val : HmcUpdateCapacityGroup(g, v) /\ UpdateObj(c, g, v)

DeleteCapacityGroup(c, g) == HmcDeleteCapacityGroup(g) /\ DeleteObj(c, g) /\ UNCHANGED capacityVars

AddPartition(c, g) ==
    /\ UseObj(c, g)
    /\ \E p \in CapPartition : HmcAddPartition(g, p)
    /\ UNCHANGED mode

RemovePartition(c, g) ==
    /\ UseObj(c, g)
    /\ \E p \in CapPartition : HmcRemovePartition(g, p)
    /\ UNCHANGED mode

\* Partitions are updated and deleted without regard to their group.  (Bound: only as long
\* as there is a group.)
PartitionChanges ==
    /\ \E g \in CapGroup : Lives(g)
    /\ \E p \in CapPartition :
          /\ mode[p] # "deleted"
          /\ \E m \in {"shared", "dedicated", "deleted"} \ {mode[p]} :
                mode' = [mode EXCEPT ![p] = m]
    /\ UNCHANGED <<objVars, member>>

CapacityStep(c, g) ==
    /\ g \in CapGroup
    /\ \/ CreateCapacityGroup(c, g) \/ UpdateCapacityGroup(c, g) \/ DeleteCapacityGroup(c, g)
       \/ AddPartition(c, g) \/ RemovePartition(c, g)
       \/ \E full \in BOOLEAN : ListCapacityGroups(c, g, full)

(* Properties *)

\* A partition is in at most one capacity group, whichever groups the clients create and
\* delete meanwhile.
OneCapacityGroup == \A p \in CapPartition : Cardinality({g \in CapGroup : p \in member[g]}) <= 1
================================================================================
