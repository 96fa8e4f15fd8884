---------------------------- MODULE ResourceManagers ----------------------------
(***************************************************************************)
(* What the manager classes say about their resources: the arguments that  *)
(* their constructors give to BaseManager.__init__() (_manager.py), and    *)
(* how their list() methods obtain the resources.  The methods of other    *)
(* classes that list resources in the same way are here, too.              *)
(*                                                                         *)
(* via      "operation": a List operation returns the resources with some  *)
(*          properties; "array": the parent has a property with their URIs *)
(* query    the properties that the operation can filter by                *)
(* named    the name is among the properties of the list                   *)
(* patient  additional properties that the operation does not return are   *)
(*          pulled for each resource                                       *)
(* grouped  the resources of each CPC are requested on their own           *)
(* rest     how the full properties are obtained: "bulk", one request for  *)
(*          many resources; "pull", one for each; "none", not at all       *)
(* filters  "any": the caller can filter by any property; "query": only by *)
(*          those of the operation; "none"                                 *)
(***************************************************************************)

(* _list_with_operation(), _list_with_parent_array(), and the loops over the result of an *)
(* operation and over an array of URIs elsewhere.                                         *)
Operation(query) == [via |-> "operation", query |-> query, named |-> TRUE,
                     patient |-> FALSE, grouped |-> FALSE, rest |-> "bulk", filters |-> "any"]
ParentArray      == [via |-> "array", query |-> {}, named |-> FALSE,
                     patient |-> FALSE, grouped |-> FALSE, rest |-> "pull", filters |-> "any"]
Related(query)   == [Operation(query) EXCEPT !.rest = "none", !.filters = "query"]
UriArray         == [ParentArray EXCEPT !.filters = "none"]

-----------------------------------------------------------------------------
(* Managers of the console. *)

CpcManager           == Operation({"name"})
UnmanagedCpcManager  == Operation({"name"})
CertificateManager   == Operation({"name", "parent-name", "type"})
GroupManager         == Operation({"name"})
TaskManager          == Operation({"name"})
UserManager          == Operation({"name", "type"})
UserRoleManager      == Operation({"name", "type"})
UserPatternManager   == Operation({"name", "type"})
PasswordRuleManager  == Operation({"name", "type"})
LdapServerDefinitionManager == Operation({"name"})
MfaServerDefinitionManager  == Operation({"name"})
SSOServerDefinitionManager  == Operation({"name", "type"})

StorageGroupManager         == Operation({"cpc-uri", "name", "type", "fulfillment-state"})
StorageGroupTemplateManager == Operation({"cpc-uri", "name", "type"})
PartitionLinkManager        == Operation({"cpc-uri", "name", "state"})
TapeLibraryManager          == Operation({"cpc-uri", "name", "state"})
TapeLinkManager             ==
    Operation({"cpc-uri", "name", "fulfillment-state", "tape-library-uri"})

(* The name is the element ID.  A filter by it becomes one by the URI, which every list has. *)
HwMessageManager == Operation({})

-----------------------------------------------------------------------------
(* Managers of a CPC and of what it contains. *)

ActivationProfileManager == Operation({"name"})
AdapterManager       == Operation({"name", "adapter-family", "type", "status"})
CapacityGroupManager == [Operation({}) EXCEPT !.named = FALSE]
LparManager          == Operation({"name"})
PartitionManager     == Operation({"name", "status"})
VirtualSwitchManager == Operation({"name", "type"})

StorageVolumeManager ==
    Operation({"name", "fulfillment-state", "maximum-size", "minimum-size", "usage"})
StorageVolumeTemplateManager ==
    Operation({"name", "maximum-size", "minimum-size", "usage"})
VirtualStorageResourceManager ==
    Operation({"name", "device-number", "adapter-port-uri", "partition-uri"})
VirtualTapeResourceManager ==
    Operation({"name", "device-number", "adapter-port-uri", "partition-uri"})

HbaManager             == ParentArray
NicManager             == ParentArray
VirtualFunctionManager == ParentArray
PortManager            == ParentArray  \* an adapter without ports has no resources

-----------------------------------------------------------------------------
(* Methods that list resources across CPCs, or the resources related to one. *)

list_permitted_partitions ==
    [Operation({"name", "type", "status", "has-unacceptable-status", "cpc-name"})
     EXCEPT !.rest = "pull"]
list_permitted_lpars == [list_permitted_partitions EXCEPT !.patient = TRUE]
list_permitted_adapters ==
    [Operation({"name", "adapter-id", "adapter-family", "type", "status",
                "firmware-update-pending", "cpc-name", "dpm-enabled"}) EXCEPT !.grouped = TRUE]
list_assigned_partitions       == [Operation({"name", "status"}) EXCEPT !.rest = "pull"]
list_associated_storage_groups == StorageGroupManager

StorageGroup_list_attached_partitions == Related({"name", "status"})
TapeLink_get_partitions               == Related({"name", "status"})

list_candidate_adapter_ports == UriArray
list_attached_storage_groups == UriArray
list_adapter_ports           == UriArray

Managers ==
    {CpcManager, UnmanagedCpcManager, CertificateManager, GroupManager, TaskManager, UserManager,
     UserRoleManager, UserPatternManager, PasswordRuleManager, LdapServerDefinitionManager,
     MfaServerDefinitionManager, SSOServerDefinitionManager, StorageGroupManager,
     StorageGroupTemplateManager, PartitionLinkManager, TapeLibraryManager, TapeLinkManager,
     HwMessageManager, AdapterManager, CapacityGroupManager, LparManager, PartitionManager,
     VirtualSwitchManager, StorageVolumeManager, StorageVolumeTemplateManager,
     VirtualStorageResourceManager, VirtualTapeResourceManager, HbaManager, NicManager,
     VirtualFunctionManager, PortManager, list_permitted_partitions, list_permitted_lpars,
     list_permitted_adapters, list_assigned_partitions, list_associated_storage_groups,
     StorageGroup_list_attached_partitions, TapeLink_get_partitions, list_candidate_adapter_ports,
     list_attached_storage_groups, list_adapter_ports, ActivationProfileManager}

=============================================================================
