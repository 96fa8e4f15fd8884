--------------------------- MODULE ConsoleInventory ---------------------------
(***************************************************************************)
(* The composition of StorageGroups, ConsoleUsers, CapacityGroups,         *)
(* ServerDefinitions and CustomGroups: the clients share one mock HMC, its *)
(* table of resources, and their resource objects.                         *)
(***************************************************************************)
EXTENDS StorageGroups, ConsoleUsers, CapacityGroups, ServerDefinitions, CustomGroups

\* User patterns and capacity groups are classes of their own, and there are finitely many
\* patterns.
ASSUME InventoryAssumption ==
    /\ Pattern \cap (AnyUser \cup AnyRole \cup Rule \cup Container \cup CapGroup
                        \cup ServerDef \cup CustomGroup) = {}
    /\ CapGroup \cap (AnyUser \cup AnyRole \cup Rule \cup Container
                        \cup ServerDef \cup CustomGroup) = {}
    /\ IsFiniteSet(Pattern)

tableVars     == <<storageVars, userVars, capacityVars, members>>
inventoryVars == <<objVars, tableVars>>

InventoryTypeOK == ObjTypeOK /\ StorageTypeOK /\ UserTypeOK /\ CapacityTypeOK /\ GroupTypeOK

InventoryInit == ObjInit /\ StorageInit /\ UserInit /\ CapacityInit /\ GroupInit

PullObj(c, o) == PullProperties(c, o) /\ PullUris(c, o) /\ UNCHANGED <<userVars, capacityVars, members>>

InventoryNext ==
    \/ \E c \in Client, o \in Obj :
          \/ PullObj(c, o)
          \/ StorageStep(c, o) /\ UNCHANGED <<userVars, capacityVars, members>>
          \/ UserStep(c, o) /\ UNCHANGED <<storageVars, capacityVars, members>>
          \/ CapacityStep(c, o) /\ UNCHANGED <<storageVars, userVars, members>>
          \/ ServerDefinitionStep(c, o) /\ UNCHANGED tableVars
          \/ CustomGroupStep(c, o) /\ UNCHANGED <<storageVars, userVars, capacityVars>>
    \/ \E c \in Client : ReorderUserPatterns(c) /\ UNCHANGED <<storageVars, capacityVars, members>>
    \/ PartitionChanges /\ UNCHANGED <<storageVars, userVars, members>>

InventorySpec == InventoryInit /\ [][InventoryNext]_inventoryVars

--------------------------------------------------------------------------------
(* Properties *)

\* Each part of the HMC is consistent, in every interleaving of the clients' requests and
\* after requests that have failed halfway.
InventoryConsistent == StorageConsistent /\ SearchOrderComplete /\ OneCapacityGroup

\* What a client knows of the HMC follows its own requests, where these are not overruled,
\* and the list of volumes of a storage group follows the client's deletions.
ClientsFollow == ClientViewHonest /\ VolumesFollowOwnDelete
================================================================================
