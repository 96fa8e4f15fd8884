------------------------------ MODULE Lists_proofs ------------------------------
(***************************************************************************)
(* Proofs about the two modules of lists: about AutoUpdatedList, for any   *)
(* set of resources and any filters, and about ResourceLists, for any      *)
(* resources, values, patterns and changes.                                *)
(***************************************************************************)
EXTENDS AutoUpdatedList, ResourceLists, FiniteSetTheorems, TLAPS


\* Why LagIsPending is inductive.  Only what exists or existed is talked about:
OnlyBorn ==
    \A u \in Uri :
        /\ inv[u] = "unborn" => /\ u \notin resources \cup reply
                                /\ ~Pending(Add(u)) /\ Add(u) \notin heard
        /\ inv[u] # "gone" => ~Pending(Remove(u)) /\ Remove(u) \notin heard

\* how the control state and the flags go together;
ControlOK ==
    /\ registered => subscribed
    /\ enabled => registered
    /\ pc = "replace" => op = "enable"
    /\ pc # "idle" /\ op = "enable" => registered /\ ~enabled /\ filter = Uri
    /\ \A u \in Uri : enabled /\ Add(u) \in heard => needsPull

\* the list lags behind by what is pending or was heard since the last merge;
ListLag ==
    enabled => \A u \in Uri \ missed :
        /\ u \in resources /\ inv[u] = "gone" => Pending(Remove(u))
        /\ inv[u] = "alive" /\ u \notin resources => Pending(Add(u)) \/ Add(u) \in heard

\* and so does an answer that has not been merged yet.
ReplyLag ==
    registered /\ pc \in {"answered", "replace"} => \A u \in Uri :
        /\ u \in reply /\ inv[u] = "gone" => Pending(Remove(u)) \/ Remove(u) \in heard
        /\ inv[u] = "alive" /\ u \in filter /\ u \notin reply =>
               Pending(Add(u)) \/ Add(u) \in heard

LagInv == TypeOK /\ OnlyBorn /\ ControlOK /\ ListLag /\ ReplyLag

--------------------------------------------------------------------------------
(* Sequences *)

\* Appending a notification to the topic makes it, and only it, newly pending.
LEMMA AppendHas ==
    ASSUME NEW S, NEW s \in Seq(S), NEW n \in S, NEW m
    PROVE  Has(Append(s, n), m) <=> Has(s, m) \/ m = n
  BY SMT DEF Has

\* What is pending is the head of the topic or pending behind it.
LEMMA TailHas ==
    ASSUME NEW S, NEW s \in Seq(S), s # <<>>, NEW m
    PROVE  Has(s, m) <=> m = Head(s) \/ Has(Tail(s), m)
<1>1. Has(s, m) => m = Head(s) \/ Has(Tail(s), m)
  <2> SUFFICES ASSUME NEW i \in 1..Len(s), s[i] = m, i # 1
               PROVE  Has(Tail(s), m)
    BY DEF Has
  <2>1. i - 1 \in 1..Len(Tail(s)) /\ Tail(s)[i - 1] = m
    BY SMT
  <2> QED BY <2>1 DEF Has
<1>2. m = Head(s) => Has(s, m)
  BY SMT DEF Has
<1>3. Has(Tail(s), m) => Has(s, m)
  <2> SUFFICES ASSUME NEW i \in 1..Len(Tail(s)), Tail(s)[i] = m
               PROVE  Has(s, m)
    BY DEF Has
  <2>1. i + 1 \in 1..Len(s) /\ s[i + 1] = m
    BY SMT
  <2> QED BY <2>1 DEF Has
<1> QED BY <1>1, <1>2, <1>3

--------------------------------------------------------------------------------
LEMMA TypeInit == Init => TypeOK
<1> SUFFICES ASSUME Init PROVE TypeOK
  OBVIOUS
<1>1. inv \in [Uri -> {"unborn", "alive", "gone"}]
  BY DEF Init
<1>2. chan \in Seq(Notification)
  BY DEF Init
<1> QED BY <1>1, <1>2 DEF Init, TypeOK

LEMMA TypeStep == TypeOK /\ [Next]_vars => TypeOK'
<1> SUFFICES ASSUME TypeOK, [Next]_vars PROVE TypeOK'
  OBVIOUS
<1> USE DEF TypeOK, hmcVars, listVars, callVars, history
<1>1. ASSUME NEW u \in Uri, Create(u) \/ Delete(u) PROVE TypeOK'
  <2>1. Add(u) \in Notification /\ Remove(u) \in Notification
    BY DEF Add, Remove, Notification
  <2> QED BY <1>1, <2>1 DEF Create, Delete, Announce
<1>2. CASE AnswerGet
  BY <1>2 DEF AnswerGet
<1>3. ASSUME NEW f \in Filter, ListPull(f) PROVE TypeOK'
  BY <1>3, FilterAssumption DEF ListPull
<1>4. CASE Enable
  BY <1>4 DEF Enable
<1>5. CASE GetFails
  BY <1>5 DEF GetFails
<1>6. CASE AddList
  BY <1>6 DEF AddList, Overtaken
<1>7. CASE Replace
  BY <1>7 DEF Replace, Overtaken
<1>8. CASE Disable
  BY <1>8 DEF Disable
<1>9. CASE OnAdd \/ OnRemove \/ OnIgnored
  <2>1. chan # <<>> => Head(chan) \in Notification /\ Tail(chan) \in Seq(Notification)
    OBVIOUS
  <2> QED BY <1>9, <2>1 DEF OnAdd, OnRemove, OnIgnored, Receive
<1>10. CASE UNCHANGED vars
  BY <1>10 DEF vars
<1> QED
  BY <1>1, <1>2, <1>3, <1>4, <1>5, <1>6, <1>7, <1>8, <1>9, <1>10 DEF Next, Hmc

\* Every variable keeps its type: in particular the listener and the user thread
\* never leave a list, an answer or a flag in a state no operation expects.
THEOREM TypeCorrect == Spec => []TypeOK
  BY TypeInit, TypeStep, PTL DEF Spec

--------------------------------------------------------------------------------
LEMMA LagInvInit == Init => LagInv
<1> SUFFICES ASSUME Init PROVE LagInv
  OBVIOUS
<1>1. TypeOK
  BY TypeInit
<1>2. \A n : ~Pending(n)
  BY DEF Init, Pending, Has
<1> QED BY <1>1, <1>2 DEF Init, LagInv, OnlyBorn, ControlOK, ListLag, ReplyLag

\* The HMC changes the inventory and announces it.
LEMMA LagInvHmc ==
    ASSUME LagInv, NEW u \in Uri, Create(u) \/ Delete(u), TypeOK'
    PROVE  LagInv'
<1> USE DEF LagInv, TypeOK
<1>1. Add(u) \in Notification /\ Remove(u) \in Notification
  BY DEF Add, Remove, Notification
<1>2. \A v, w \in Uri : Add(v) # Remove(w) /\ (Add(v) = Add(w) => v = w)
                                        /\ (Remove(v) = Remove(w) => v = w)
  BY DEF Add, Remove
<1>3. UNCHANGED <<subscribed, listVars, callVars, history>>
  BY DEF Create, Delete
<1>4. CASE Create(u)
  <2>1. \A m : Pending(m)' <=> Pending(m) \/ (subscribed /\ m = Add(u))
    BY <1>1, <1>4, AppendHas DEF Create, Announce, Pending
  <2>2. inv[u] = "unborn" /\ inv' = [inv EXCEPT ![u] = "alive"]
    BY <1>4 DEF Create
  <2>3. OnlyBorn'
    BY <1>2, <1>3, <2>1, <2>2 DEF OnlyBorn, listVars, callVars, history
  <2>4. ControlOK'
    BY <1>3 DEF ControlOK, listVars, callVars, history
  <2>5. ListLag'
    BY <1>3, <2>1, <2>2 DEF ListLag, ControlOK, listVars, callVars, history
  <2>6. ReplyLag'
    BY <1>3, <2>1, <2>2 DEF ReplyLag, ControlOK, listVars, callVars, history
  <2> QED BY <2>3, <2>4, <2>5, <2>6
<1>5. CASE Delete(u)
  <2>1. \A m : Pending(m)' <=> Pending(m) \/ (subscribed /\ m = Remove(u))
    BY <1>1, <1>5, AppendHas DEF Delete, Announce, Pending
  <2>2. inv[u] = "alive" /\ inv' = [inv EXCEPT ![u] = "gone"]
    BY <1>5 DEF Delete
  <2>3. OnlyBorn'
    BY <1>2, <1>3, <2>1, <2>2 DEF OnlyBorn, listVars, callVars, history
  <2>4. ControlOK'
    BY <1>3 DEF ControlOK, listVars, callVars, history
  <2>5. ListLag'
    BY <1>3, <2>1, <2>2 DEF ListLag, ControlOK, listVars, callVars, history
  <2>6. ReplyLag'
    BY <1>3, <2>1, <2>2 DEF ReplyLag, ControlOK, listVars, callVars, history
  <2> QED BY <2>3, <2>4, <2>5, <2>6
<1> QED BY <1>4, <1>5

\* The user thread and the answers to its requests: the inventory and the topic
\* stay as they are, or the topic is subscribed.
LEMMA LagInvCall ==
    ASSUME LagInv, TypeOK',
           \/ AnswerGet \/ (\E f \in Filter : ListPull(f)) \/ Enable \/ GetFails
           \/ AddList \/ Replace \/ Disable
    PROVE  LagInv'
<1> USE DEF LagInv, TypeOK
<1>1. /\ UNCHANGED <<inv, chan>>
      /\ \A n : Pending(n)' <=> Pending(n)
  BY DEF AnswerGet, ListPull, Enable, GetFails, AddList, Replace, Disable, hmcVars, Pending
<1>2. CASE AnswerGet
  <2>1. OnlyBorn'
    BY <1>1, <1>2 DEF AnswerGet, OnlyBorn, Alive, listVars, history
  <2>2. ControlOK' /\ ListLag'
    BY <1>1, <1>2 DEF AnswerGet, ControlOK, ListLag, hmcVars, listVars, history
  <2>3. ReplyLag'
    BY <1>1, <1>2 DEF AnswerGet, ReplyLag, Alive, listVars, history
  <2> QED BY <2>1, <2>2, <2>3
<1>3. CASE \E f \in Filter : ListPull(f)
  BY <1>1, <1>3 DEF ListPull, OnlyBorn, ControlOK, ListLag, ReplyLag, hmcVars, listVars, history
<1>4. CASE Enable
  BY <1>1, <1>4 DEF Enable, OnlyBorn, ControlOK, ListLag, ReplyLag
<1>5. CASE GetFails
  BY <1>1, <1>5 DEF GetFails, OnlyBorn, ControlOK, ListLag, ReplyLag, hmcVars, listVars, history
<1>6. CASE AddList
  <2>1. OnlyBorn' /\ ControlOK'
    BY <1>1, <1>6 DEF AddList, OnlyBorn, ControlOK, hmcVars, history
  <2>2. ListLag'
    <3>1. CASE op = "list"
      BY <1>1, <1>6, <3>1 DEF AddList, ListLag, ReplyLag, OnlyBorn, ControlOK, Overtaken
    <3>2. CASE op = "enable"
      BY <1>1, <1>6, <3>2 DEF AddList, ListLag, ControlOK
    <3> QED BY <3>1, <3>2
  <2>3. ReplyLag'
    BY <1>1, <1>6 DEF AddList, ReplyLag, hmcVars, history
  <2> QED BY <2>1, <2>2, <2>3
<1>7. CASE Replace
  <2>1. OnlyBorn' /\ ControlOK' /\ ReplyLag'
    BY <1>1, <1>7 DEF Replace, OnlyBorn, ControlOK, ReplyLag, hmcVars
  <2>2. ListLag'
    BY <1>1, <1>7 DEF Replace, ListLag, ReplyLag, OnlyBorn, ControlOK, Overtaken
  <2> QED BY <2>1, <2>2
<1>8. CASE Disable
  BY <1>1, <1>8 DEF Disable, OnlyBorn, ControlOK, ListLag, ReplyLag, hmcVars, callVars
<1> QED BY <1>2, <1>3, <1>4, <1>5, <1>6, <1>7, <1>8

\* The listener thread takes the head of the topic.
LEMMA LagInvListener ==
    ASSUME LagInv, TypeOK', Listener
    PROVE  LagInv'
<1> USE DEF LagInv, TypeOK
<1> DEFINE n == Head(chan)
<1>1. n \in Notification /\ UNCHANGED <<inv, subscribed, registered, enabled, callVars, missed>>
  BY DEF Listener, OnAdd, OnRemove, OnIgnored, Receive, listVars
<1>2. \A m : Pending(m) <=> m = n \/ Pending(m)'
  BY TailHas DEF Listener, OnAdd, OnRemove, OnIgnored, Receive, Pending
<1>3. PICK u \in Uri : n = Add(u) \/ n = Remove(u)
  BY <1>1 DEF Notification, Add, Remove
<1>4. \A v, w \in Uri : Add(v) # Remove(w) /\ (Add(v) = Add(w) => v = w)
                                        /\ (Remove(v) = Remove(w) => v = w)
  BY DEF Add, Remove
<1>5. registered => heard' = heard \cup {n}
  BY DEF Listener, OnAdd, OnRemove, OnIgnored
<1>6. heard' \subseteq heard \cup {n}
  BY DEF Listener, OnAdd, OnRemove, OnIgnored
<1>7. resources' \subseteq resources
  BY DEF Listener, OnAdd, OnRemove, OnIgnored, listVars
<1>8. OnlyBorn'
  BY <1>1, <1>2, <1>3, <1>4, <1>6, <1>7 DEF OnlyBorn, callVars
<1>9. ControlOK'
  <2>1. ASSUME NEW v \in Uri, enabled, Add(v) \in heard' PROVE needsPull'
    <3>1. CASE OnAdd
      BY <3>1 DEF OnAdd
    <3>2. CASE OnRemove
      <4>1. Add(v) # n
        BY <3>2 DEF OnRemove, Add
      <4> QED BY <2>1, <3>2, <4>1 DEF OnRemove, ControlOK
    <3>3. CASE OnIgnored
      BY <2>1, <3>3 DEF OnIgnored, ControlOK
    <3> QED BY <3>1, <3>2, <3>3 DEF Listener
  <2> QED BY <2>1, <1>1 DEF ControlOK, callVars
<1>10. ListLag'
  <2> SUFFICES ASSUME enabled, NEW v \in Uri \ missed
               PROVE  /\ v \in resources' /\ inv[v] = "gone" => Pending(Remove(v))'
                      /\ inv[v] = "alive" /\ v \notin resources' =>
                             Pending(Add(v))' \/ Add(v) \in heard'
    BY <1>1 DEF ListLag
  <2>1. enabled /\ registered
    BY DEF ControlOK
  <2>2. resources' = IF n.action = "remove" THEN resources \ {n.uri} ELSE resources
    BY <2>1, <1>1 DEF Listener, OnAdd, OnRemove, OnIgnored, Notification
  <2>3. CASE n = Add(u)
    BY <2>1, <2>2, <2>3, <1>2, <1>4, <1>5 DEF ListLag, Add
  <2>4. CASE n = Remove(u)
    <3>1. inv[u] = "gone"
      BY <2>4, <1>2 DEF OnlyBorn
    <3>2. resources' = resources \ {u}
      BY <2>2, <2>4 DEF Remove
    <3> QED BY <2>1, <2>4, <3>1, <3>2, <1>2, <1>4, <1>5 DEF ListLag
  <2> QED BY <2>3, <2>4, <1>3
<1>11. ReplyLag'
  BY <1>1, <1>2, <1>5 DEF ReplyLag, callVars
<1> QED BY <1>8, <1>9, <1>10, <1>11

\* The inductive invariant holds in every behaviour.
THEOREM LagInvariant == Spec => []LagInv
<1>1. Init => LagInv
  BY LagInvInit
<1>2. LagInv /\ [Next]_vars => LagInv'
  <2> SUFFICES ASSUME LagInv, [Next]_vars PROVE LagInv'
    OBVIOUS
  <2>1. TypeOK'
    BY TypeStep DEF LagInv
  <2>2. CASE Hmc
    BY <2>1, <2>2, LagInvHmc DEF Hmc
  <2>3. CASE Listener
    BY <2>1, <2>3, LagInvListener
  <2>4. CASE \/ AnswerGet \/ (\E f \in Filter : ListPull(f)) \/ Enable \/ GetFails
             \/ AddList \/ Replace \/ Disable
    BY <2>1, <2>4, LagInvCall
  <2>5. CASE UNCHANGED vars
    BY <2>5 DEF vars, hmcVars, listVars, callVars, history, LagInv, TypeOK, OnlyBorn,
                ControlOK, ListLag, ReplyLag, Pending
  <2> QED BY <2>2, <2>3, <2>4, <2>5 DEF Next, Listener
<1> QED BY <1>1, <1>2, PTL DEF Spec

\* The list of an auto-updated manager differs from the HMC's inventory only by
\* changes still on their way, or by resources a pull overtook.
THEOREM LagCorrect == Spec => []LagIsPending
<1>1. LagInv => LagIsPending
  BY DEF LagInv, LagIsPending, OnlyBorn, ControlOK, ListLag, TypeOK, Alive
<1> QED BY <1>1, LagInvariant, PTL

--------------------------------------------------------------------------------
\* What the listener drops from the list is gone: its remove notification was pending.
LEMMA ListenerMirror ==
    ASSUME LagInv, LagInv', Listener
    PROVE  [Mirror!Next]_Mirror!mirrorVars
<1>1. chan \in Seq(Notification) /\ chan # <<>>
  BY DEF LagInv, TypeOK, Listener, OnAdd, OnRemove, OnIgnored, Receive
<1>2. Head(chan) \in Notification /\ Pending(Head(chan))
  BY <1>1, TailHas, SMT DEF Pending
<1>3. inv' = inv /\ enabled' = enabled
  BY DEF Listener, OnAdd, OnRemove, OnIgnored, listVars
<1>4. CASE OnRemove
  <2>1. Head(chan) = Remove(Head(chan).uri) /\ Head(chan).uri \in Uri
    BY <1>2, <1>4 DEF OnRemove, Notification, Remove
  <2>2. inv[Head(chan).uri] = "gone"
    BY <1>2, <2>1 DEF LagInv, OnlyBorn
  <2>3. Mirror!CatchUp
    BY <1>3, <1>4, <2>1, <2>2 DEF OnRemove, Mirror!CatchUp, Mirror!Born, Mirror!Gone,
       LagInv, OnlyBorn, TypeOK
  <2> QED BY <2>3 DEF Mirror!Next
<1>5. CASE OnAdd \/ OnIgnored
  BY <1>3, <1>5 DEF OnAdd, OnIgnored, listVars, Mirror!mirrorVars
<1> QED BY <1>4, <1>5 DEF Listener

\* Every step of the auto-updated list is one of the mirror, or leaves it as it is.
LEMMA StepMirror ==
    ASSUME LagInv, LagInv', [Next]_vars
    PROVE  [Mirror!Next]_Mirror!mirrorVars
<1>1. ASSUME NEW u \in Uri, Create(u) \/ Delete(u) PROVE Mirror!Change(u)
  BY <1>1 DEF Create, Delete, Mirror!Change, listVars
<1>2. CASE Hmc
  BY <1>1, <1>2 DEF Hmc, Mirror!Next
<1>3. CASE Listener
  BY <1>3, ListenerMirror
<1>4. CASE AnswerGet \/ (\E f \in Filter : ListPull(f)) \/ Enable \/ GetFails
  BY <1>4 DEF AnswerGet, ListPull, Enable, GetFails, hmcVars, listVars, Mirror!mirrorVars
<1>5. CASE AddList
  <2>1. inv' = inv /\ enabled' = enabled /\ resources \subseteq resources'
    BY <1>5 DEF AddList, hmcVars
  <2>2. resources' \subseteq Mirror!Born
    BY <2>1 DEF LagInv, TypeOK, OnlyBorn, Mirror!Born
  <2>3. enabled \in BOOLEAN
    BY DEF LagInv, TypeOK
  <2>4. Mirror!CatchUp \/ Mirror!Browse
    BY <2>1, <2>2, <2>3 DEF Mirror!CatchUp, Mirror!Browse, Mirror!Gone
  <2> QED BY <2>4 DEF Mirror!Next
<1>6. CASE Replace
  <2>1. inv' = inv /\ ~enabled /\ enabled'
    BY <1>6 DEF Replace, hmcVars, LagInv, ControlOK
  <2>2. resources' \subseteq Mirror!Born
    BY <2>1 DEF LagInv, TypeOK, OnlyBorn, Mirror!Born
  <2>3. Mirror!Browse
    BY <2>1, <2>2 DEF Mirror!Browse, LagInv, TypeOK
  <2> QED BY <2>3 DEF Mirror!Next
<1>7. CASE Disable
  BY <1>7 DEF Disable, hmcVars, Mirror!StopFollowing, Mirror!Next
<1>8. CASE UNCHANGED vars
  BY <1>8 DEF vars, hmcVars, listVars, Mirror!mirrorVars
<1> QED BY <1>2, <1>3, <1>4, <1>5, <1>6, <1>7, <1>8 DEF Next, Listener

\* An auto-updated list is a mirror that may lag behind, but invents nothing and loses
\* nothing that exists, for any set of resources and any filters.
THEOREM MirrorCorrect == Spec => ImplementsMirror
<1>1. Init => Mirror!Init
  BY DEF Init, Mirror!Init
<1>2. LagInv /\ LagInv' /\ [Next]_vars => [Mirror!Next]_Mirror!mirrorVars
  BY StepMirror
<1> QED BY <1>1, <1>2, LagInvariant, PTL DEF Spec, ImplementsMirror, Mirror!MirrorSpec

--------------------------------------------------------------------------------
(* Managers and filters *)

\* Listing from an array, nothing is filtered by the HMC.
LEMMA ManagerFacts ==
  \A m \in Managers : /\ m.via \in {"operation", "array"}
                      /\ m.via = "array" => m.query = {}
                      /\ m.filters \in {"any", "query", "none"}
                      /\ m.rest \in {"bulk", "pull", "none"}
<1> DEFINE Ok(m) == /\ m.via \in {"operation", "array"}
                    /\ m.via = "array" => m.query = {}
                    /\ m.filters \in {"any", "query", "none"}
                    /\ m.rest \in {"bulk", "pull", "none"}
<1>1. \A q : Ok(Operation(q)) /\ Ok(Related(q))
  BY DEF Operation, Related
<1>2. Ok(ParentArray) /\ Ok(UriArray)
  BY DEF ParentArray, UriArray
<1>3. Ok(CapacityGroupManager) /\ Ok(list_permitted_partitions) /\ Ok(list_permitted_lpars)
      /\ Ok(list_assigned_partitions) /\ Ok(list_permitted_adapters)
  BY DEF CapacityGroupManager, list_permitted_partitions, list_permitted_lpars,
         list_assigned_partitions, list_permitted_adapters, Operation
<1> HIDE DEF Ok
<1>4. /\ Ok(CpcManager) /\ Ok(UnmanagedCpcManager) /\ Ok(CertificateManager) /\ Ok(GroupManager)
      /\ Ok(TaskManager) /\ Ok(UserManager) /\ Ok(UserRoleManager) /\ Ok(UserPatternManager)
      /\ Ok(PasswordRuleManager) /\ Ok(LdapServerDefinitionManager) /\ Ok(MfaServerDefinitionManager)
      /\ Ok(SSOServerDefinitionManager) /\ Ok(StorageGroupManager) /\ Ok(StorageGroupTemplateManager)
      /\ Ok(PartitionLinkManager) /\ Ok(TapeLibraryManager) /\ Ok(TapeLinkManager)
      /\ Ok(HwMessageManager) /\ Ok(AdapterManager) /\ Ok(LparManager) /\ Ok(PartitionManager)
  BY <1>1 DEF CpcManager, UnmanagedCpcManager, CertificateManager, GroupManager,
         TaskManager, UserManager, UserRoleManager, UserPatternManager,
         PasswordRuleManager, LdapServerDefinitionManager, MfaServerDefinitionManager,
         SSOServerDefinitionManager, StorageGroupManager, StorageGroupTemplateManager,
         PartitionLinkManager, TapeLibraryManager, TapeLinkManager, HwMessageManager,
         AdapterManager, LparManager, PartitionManager
<1>5. /\ Ok(VirtualSwitchManager) /\ Ok(StorageVolumeManager) /\ Ok(StorageVolumeTemplateManager)
      /\ Ok(VirtualStorageResourceManager) /\ Ok(VirtualTapeResourceManager)
      /\ Ok(list_associated_storage_groups)
      /\ Ok(StorageGroup_list_attached_partitions) /\ Ok(TapeLink_get_partitions)
      /\ Ok(ActivationProfileManager)
  BY <1>1 DEF VirtualSwitchManager, StorageVolumeManager, StorageVolumeTemplateManager,
         VirtualStorageResourceManager, VirtualTapeResourceManager,
         list_associated_storage_groups, StorageGroupManager, StorageGroup_list_attached_partitions,
         TapeLink_get_partitions, ActivationProfileManager
<1>6. /\ Ok(HbaManager) /\ Ok(NicManager) /\ Ok(VirtualFunctionManager) /\ Ok(PortManager)
      /\ Ok(list_candidate_adapter_ports) /\ Ok(list_attached_storage_groups) /\ Ok(list_adapter_ports)
  BY <1>2 DEF HbaManager, NicManager, VirtualFunctionManager, PortManager,
         list_candidate_adapter_ports, list_attached_storage_groups, list_adapter_ports
<1>7. \A m \in Managers : Ok(m)
  BY <1>3, <1>4, <1>5, <1>6 DEF Managers
<1> QED
  BY <1>7 DEF Ok

LEMMA KindFacts ==
  \A k \in Kinds : /\ k.served \subseteq Prop
                   /\ k.via = "array" => k.served = {}
                   /\ k.rest \in {"bulk", "pull", "none"}
                   /\ Filterable(k) \subseteq Prop
<1> SUFFICES ASSUME NEW k \in Kinds
             PROVE  /\ k.served \subseteq Prop
                    /\ k.via = "array" => k.served = {}
                    /\ k.rest \in {"bulk", "pull", "none"}
                    /\ Filterable(k) \subseteq Prop
  OBVIOUS
<1>1. PICK m \in Managers : k = Kind(m)
  BY DEF Kinds
<1>2. k.served \subseteq Prop /\ k.via = m.via /\ k.rest = m.rest /\ k.filters = m.filters
      /\ (m.query = {} => k.served = {})
  BY <1>1 DEF Kind
<1>3. Filterable(k) \subseteq Prop
  BY <1>2, ManagerFacts DEF Filterable
<1> QED
  BY <1>2, <1>3, ManagerFacts

\* The filters of a call are divided between the HMC and the client.
LEMMA FilterFacts ==
  ASSUME ListsTypeOK
  PROVE  /\ Filtered \subseteq Prop
         /\ \A p \in Filtered : call.filter[p] \in MatchValue
         /\ QueryParms(call.kind, call.filter) \cup Checked = Filtered
         /\ QueryParms(call.kind, call.filter) \cap Checked = {}
<1>1. call.filter \in UNION {[ps -> MatchValue] : ps \in SUBSET Prop}
  BY DEF ListsTypeOK, CallType
<1>2. PICK ps \in SUBSET Prop : call.filter \in [ps -> MatchValue]
  BY <1>1
<1> QED
  BY <1>2 DEF Filtered, QueryParms, Checked, ClientFilters

\* A value that matches as a whole matches on the client, too, unless a match value cannot be
\* converted to its type.
LEMMA ClientSelects ==
  ASSUME NEW v, NEW match, HmcMatches(v, match)
  PROVE  matches_prop(v, match) \/ Unconvertible(v, match)
<1> SUFFICES ASSUME \A i \in DOMAIN match : Converts(v, match[i])  PROVE matches_prop(v, match)
  BY DEF Unconvertible
<1>1. PICK i \in DOMAIN match : \E j \in DOMAIN match[i] : v = match[i][j]
  BY DEF HmcMatches
<1>2. MatchesPattern(v, match[i])
  <2>1. CASE v \notin Numeric
    BY <1>1, <2>1 DEF MatchesPattern
  <2>2. CASE v \in Numeric
    <3>1. PICK w \in Numeric : match[i] = <<w>>
      BY <2>2 DEF Converts
    <3>2. v = w
      BY <1>1, <3>1
    <3> QED
      BY <2>2, <3>1, <3>2 DEF MatchesPattern
  <2> QED
    BY <2>1, <2>2
<1> QED
  BY <1>1, <1>2 DEF matches_prop

\* What the client has been told of a property: a value of the time of the call, if anything.
Fresh ==
    \A r \in Res, p \in Prop : /\ val[r][p] \in seen[r][p]
                               /\ local[r][p] \in seen[r][p] \cup {NoValue}

\* A filter has been applied to the resource, by the HMC or by the client.
Applied(r, p) == \E v \in seen[r][p] : Selects(p, v)

\* In the state "full", a resource has been taken that is still to be pulled.
Taken == result \cup (IF call.pc = "full" THEN batch ELSE {})

\* No resource that matches is lost on its way from the list into the result, ...
NoneLost ==
    call.outcome # "failed" => \A r \in stay : Always(r) => r \in todo \cup batch \cup result

\* ... and none comes into it past a filter: the HMC's are applied first, then the client's.
NonePast ==
    /\ \A r \in todo \cup batch \cup result, p \in QueryParms(call.kind, call.filter) : Applied(r, p)
    /\ \A r \in Taken, p \in Checked : Applied(r, p)

\* The phases of a call that wants full properties, and those of one that does not.
Phases ==
    /\ call.pc = "bulk" => call.full /\ call.kind.rest = "bulk"
    /\ call.pc = "full" => call.full /\ call.kind.rest = "pull"
    /\ call.pc = "items" => batch = {} /\ (call.full => call.kind.rest = "pull")
    /\ call.full => call.kind.rest \in {"bulk", "pull"}
    /\ call.pc = "end" => todo = {} /\ batch = {}
    /\ (call.pc = "end") = (call.outcome # "none")

\* What is in the result is full, and agrees with the filters after a bulk request; it is not
\* requested again.
Full ==
    call.full =>
        /\ \A r \in result, p \in Prop : local[r][p] # NoValue
        /\ call.kind.rest = "bulk" =>
              /\ result \cap (todo \cup batch) = {} /\ todo \cap batch = {}
              /\ \A r \in result : matches_filters(local[r], call.filter, Checked)

Explained == FindExplained /\ FailureExplained

ListsInv == call.pc # "start" => Fresh /\ NoneLost /\ NonePast /\ Phases /\ Full /\ Explained

\* Nothing returns before it has begun.
Unstarted == call.pc = "start" => call.outcome = "none"

--------------------------------------------------------------------------------
(* Type correctness *)

\* What a step does to a call that goes on, or ends.
LEMMA CallsTyped ==
  ASSUME ListsTypeOK
  PROVE  /\ call.full \in BOOLEAN /\ call.kind \in Kinds
         /\ \A c \in {"items", "full", "bulk", "end"} : [call EXCEPT !.pc = c] \in CallType
         /\ \A outcome \in Outcome :
               [call EXCEPT !.pc = "end", !.outcome = outcome] \in CallType
         /\ \A cut \in BOOLEAN :
               [call EXCEPT !.pc = "end", !.outcome = "failed", !.cut = cut] \in CallType
BY DEF ListsTypeOK, CallType, Outcome

\* ... keeps what it is about.
LEMMA CallKept ==
  ASSUME ListsTypeOK
  PROVE  /\ \A c \in {"items", "full", "bulk", "end"} :
               LET new == [call EXCEPT !.pc = c]
               IN  /\ new.pc = c /\ new.kind = call.kind /\ new.filter = call.filter
                   /\ new.full = call.full /\ new.outcome = call.outcome /\ new.cut = call.cut
         /\ \A outcome \in Outcome :
               LET new == [call EXCEPT !.pc = "end", !.outcome = outcome]
               IN  /\ new.pc = "end" /\ new.kind = call.kind /\ new.filter = call.filter
                   /\ new.full = call.full /\ new.outcome = outcome /\ new.cut = call.cut
         /\ \A cut \in BOOLEAN :
               LET new == [call EXCEPT !.pc = "end", !.outcome = "failed", !.cut = cut]
               IN  /\ new.pc = "end" /\ new.kind = call.kind /\ new.filter = call.filter
                   /\ new.full = call.full /\ new.outcome = "failed" /\ new.cut = cut
BY DEF ListsTypeOK, CallType

LEMMA BatchOfOne ==
  ASSUME NEW r  PROVE Cardinality({}) <= BulkLimit /\ Cardinality({r}) <= BulkLimit
<1>1. BulkLimit \in Nat /\ BulkLimit # 0
  BY ListAssumption DEF ListAssumption
<1>2. Cardinality({}) = 0 /\ Cardinality({r}) = 1
  BY FS_EmptySet, FS_Singleton
<1> QED
  BY <1>1, <1>2

LEMMA SmallerBatch ==
  ASSUME ListsTypeOK, NEW r
  PROVE  Cardinality(batch \ {r}) <= BulkLimit
<1>1. IsFiniteSet(batch)
  BY ListAssumption, FS_Subset DEF ListAssumption, ListsTypeOK
<1>2. Cardinality(batch \ {r}) <= Cardinality(batch) /\ Cardinality(batch \ {r}) \in Nat
      /\ Cardinality(batch) \in Nat
  <2>1. batch \ {r} \subseteq batch
    OBVIOUS
  <2> QED
    BY <1>1, <2>1, FS_Subset, FS_CardinalityType
<1> QED
  BY <1>2, ListAssumption DEF ListsTypeOK, ListAssumption

LEMMA ListsInitTypes ==
  ASSUME ListsInit
  PROVE  ListsTypeOK
<1>1. CpcManager \in Managers
  BY DEF Managers
<1>2. Kind(CpcManager) \in Kinds
  BY <1>1 DEF Kinds
<1>3. <<>> \in [{} -> MatchValue]
  OBVIOUS
<1>4. <<>> \in UNION {[ps -> MatchValue] : ps \in SUBSET Prop}
  BY <1>3
<1>5. <<>> \in Filters(Kind(CpcManager))
  BY <1>3 DEF Filters
<1>6. call \in CallType /\ call.filter \in Filters(call.kind)
  BY <1>2, <1>4, <1>5 DEF ListsInit, CallType, Outcome
<1>7. /\ life \in [Res -> {"unborn", "alive", "gone"}]
      /\ val \in [Res -> [Prop -> Value \cup {Absent}]]
      /\ local \in [Res -> [Prop -> Value \cup {Absent, NoValue}]]
      /\ seen \in [Res -> [Prop -> SUBSET (Value \cup {Absent})]]
  <2>1. life \in [Res -> {"unborn", "alive", "gone"}]
    BY DEF ListsInit
  <2>2. PICK v \in Value \ Numeric : \E w \in {v, Absent} \cup Numeric :
            val = [r \in Res |-> [p \in Prop |-> IF p = "other" THEN w ELSE v]]
    BY DEF ListsInit
  <2>3. PICK w \in {v, Absent} \cup Numeric :
            val = [r \in Res |-> [p \in Prop |-> IF p = "other" THEN w ELSE v]]
    BY <2>2
  <2>4. v \in Value \cup {Absent} /\ w \in Value \cup {Absent}
    BY ListAssumption DEF ListAssumption
  <2>5. val \in [Res -> [Prop -> Value \cup {Absent}]]
    BY <2>3, <2>4
  <2>6. /\ local \in [Res -> [Prop -> Value \cup {Absent, NoValue}]]
        /\ seen \in [Res -> [Prop -> SUBSET (Value \cup {Absent})]]
    BY DEF ListsInit, Unknown
  <2> QED
    BY <2>1, <2>5, <2>6
<1>8. /\ todo \subseteq Res /\ batch \subseteq Res /\ result \subseteq Res /\ stay \subseteq Res
      /\ Cardinality(batch) <= BulkLimit
  BY BatchOfOne DEF ListsInit
<1>9. changes \in 0..MaxChanges
  BY ListAssumption DEF ListsInit, ListAssumption
<1> QED
  BY <1>6, <1>7, <1>8, <1>9 DEF ListsTypeOK

\* The resources change.
LEMMA WorldTypes ==
  ASSUME ListsTypeOK, NEW r \in Res,
         Appear(r) \/ Vanish(r) \/ \E p \in Prop, v \in Value : Change(r, p, v)
  PROVE  ListsTypeOK'
<1>1. UNCHANGED stepVars /\ changes' \in 0..MaxChanges
  BY ListAssumption DEF ListsTypeOK, Appear, Vanish, Change, Changes, ListAssumption
<1>2. life' \in [Res -> {"unborn", "alive", "gone"}] /\ stay' \subseteq Res
  BY DEF ListsTypeOK, Appear, Vanish, Change
<1>3. CASE Appear(r) \/ Vanish(r)
  BY <1>1, <1>2, <1>3 DEF ListsTypeOK, Appear, Vanish, stepVars
<1>4. ASSUME NEW p \in Prop, NEW v \in Value, Change(r, p, v)  PROVE ListsTypeOK'
  <2>1. /\ val' \in [Res -> [Prop -> Value \cup {Absent}]]
        /\ seen' \in [Res -> [Prop -> SUBSET (Value \cup {Absent})]]
    BY <1>4 DEF ListsTypeOK, Change
  <2> QED
    BY <1>1, <1>2, <2>1 DEF ListsTypeOK, stepVars
<1> QED
  BY <1>3, <1>4

LEMMA BeginTypes ==
  ASSUME ListsTypeOK, NEW k \in Kinds, NEW full \in BOOLEAN, NEW args \in Filters(k),
         NEW adds \in SUBSET Prop, Begin(k, full, args, adds)
  PROVE  /\ call' \in CallType /\ call'.filter \in Filters(call'.kind)
         /\ result' = {} /\ batch' = {} /\ Cardinality(batch') <= BulkLimit
         /\ seen' \in [Res -> [Prop -> SUBSET (Value \cup {Absent})]]
<1>1. args \in UNION {[ps -> MatchValue] : ps \in SUBSET Prop}
  BY KindFacts DEF Filters
<1>2. call' \in CallType /\ call'.filter = args /\ call'.kind = k
  BY <1>1 DEF Begin, CallType, Outcome
<1>3. seen' \in [Res -> [Prop -> SUBSET (Value \cup {Absent})]]
  BY DEF Begin, ListsTypeOK
<1> QED
  BY <1>2, <1>3, BatchOfOne DEF Begin

LEMMA ListTypes ==
  ASSUME ListsTypeOK, NEW k \in Kinds, NEW full \in BOOLEAN, NEW args \in Filters(k),
         \/ \E adds \in SUBSET Prop : ListOperation(k, full, args, adds)
         \/ ListArray(k, full, args)
  PROVE  ListsTypeOK'
<1>1. \E adds \in SUBSET Prop : Begin(k, full, args, adds)
  BY DEF ListOperation, ListArray
<1>2. UNCHANGED resVars
  BY DEF ListOperation, ListArray
<1>3. todo' \subseteq Res /\ stay' \subseteq Res
  BY DEF ListOperation, ListArray, Existing
<1>4. local' \in [Res -> [Prop -> Value \cup {Absent, NoValue}]]
  <2>1. CASE ListArray(k, full, args)
    BY <2>1 DEF ListArray, Unknown
  <2>2. ASSUME NEW adds \in SUBSET Prop, ListOperation(k, full, args, adds)
        PROVE  local' \in [Res -> [Prop -> Value \cup {Absent, NoValue}]]
    BY <2>2 DEF ListOperation, ListedProps, Unknown, ListsTypeOK
  <2> QED
    BY <2>1, <2>2
<1> QED
  BY <1>1, <1>2, <1>3, <1>4, BeginTypes DEF ListsTypeOK, resVars

LEMMA TakeTypes ==
  ASSUME ListsTypeOK, NEW r \in Res, Take(r)
  PROVE  /\ call' \in CallType /\ call'.filter = call.filter /\ call'.kind = call.kind
         /\ batch' \subseteq Res /\ Cardinality(batch') <= BulkLimit /\ result' \subseteq Res
<1>1. CASE call.full /\ call.kind.rest = "pull"
  <2>1. call' = [call EXCEPT !.pc = "full"] /\ batch' = {r} /\ UNCHANGED result
    BY <1>1 DEF Take
  <2> QED
    BY <2>1, CallsTyped, CallKept, BatchOfOne DEF ListsTypeOK
<1>2. CASE ~(call.full /\ call.kind.rest = "pull")
  BY <1>2 DEF Take, ListsTypeOK
<1> QED
  BY <1>1, <1>2

LEMMA ListsStepTypes ==
  ASSUME ListsTypeOK, [ListsNext]_listsVars
  PROVE  ListsTypeOK'
<1>1. CASE UNCHANGED listsVars
  BY <1>1 DEF ListsTypeOK, listsVars, resVars, stepVars
<1>2. ASSUME NEW k \in Kinds, NEW full \in BOOLEAN, NEW args \in Filters(k),
             NEW adds \in IF k.patient THEN SUBSET (Prop \ {"name"}) ELSE {{}},
             ListOperation(k, full, args, adds)
      PROVE  ListsTypeOK'
  <2>1. adds \in SUBSET Prop
    OBVIOUS
  <2> QED
    BY <1>2, <2>1, ListTypes
<1>3. ASSUME NEW cut \in BOOLEAN, Fail(cut), UNCHANGED <<resVars, stay, seen>>
      PROVE  ListsTypeOK'
  <2>1. call' = [call EXCEPT !.pc = "end", !.outcome = "failed", !.cut = cut]
        /\ todo' = {} /\ batch' = {} /\ result' = {}
        /\ local' \in [Res -> [Prop -> Value \cup {Absent, NoValue}]]
    BY <1>3 DEF Fail, Unknown
  <2>2. call' \in CallType /\ call'.filter \in Filters(call'.kind)
    BY <2>1, CallsTyped, CallKept DEF ListsTypeOK
  <2> QED
    BY <1>3, <2>1, <2>2, BatchOfOne DEF ListsTypeOK, resVars
<1>4. ASSUME NEW r \in Res, PullMissing(r)  PROVE ListsTypeOK'
  <2>1. local' \in [Res -> [Prop -> Value \cup {Absent, NoValue}]]
    BY <1>4 DEF PullMissing, ListsTypeOK
  <2> QED
    BY <1>4, <2>1 DEF PullMissing, ListsTypeOK, resVars
<1>5. ASSUME NEW r \in Res, DropItem(r)  PROVE ListsTypeOK'
  BY <1>5 DEF DropItem, Item, ListsTypeOK, resVars
<1>6. ASSUME NEW r \in Res, TakeItem(r)  PROVE ListsTypeOK'
  BY <1>6, TakeTypes DEF TakeItem, Item, ListsTypeOK, resVars
<1>7. ASSUME NEW r \in Res, local' = [local EXCEPT ![r] = val[r]]
      PROVE  local' \in [Res -> [Prop -> Value \cup {Absent, NoValue}]]
  BY <1>7 DEF ListsTypeOK
<1>8. ASSUME NEW r \in Res, PullItem(r)  PROVE ListsTypeOK'
  <2>1. Take(r) \/ UNCHANGED <<call, batch, result>>
    BY <1>8 DEF PullItem
  <2>2. local' \in [Res -> [Prop -> Value \cup {Absent, NoValue}]]
    BY <1>7, <1>8 DEF PullItem
  <2>3. /\ call' \in CallType /\ call'.filter = call.filter /\ call'.kind = call.kind
        /\ batch' \subseteq Res /\ Cardinality(batch') <= BulkLimit /\ result' \subseteq Res
    BY <2>1, TakeTypes DEF ListsTypeOK
  <2> QED
    BY <1>8, <2>2, <2>3 DEF PullItem, Item, ListsTypeOK, resVars
<1>9. ASSUME NEW r \in Res, PullTaken(r)  PROVE ListsTypeOK'
  <2>1. call' = [call EXCEPT !.pc = "items"] /\ batch' = {} /\ result' \subseteq Res
    BY <1>9 DEF PullTaken, ListsTypeOK
  <2>2. call' \in CallType /\ call'.filter \in Filters(call'.kind)
    BY <2>1, CallsTyped, CallKept DEF ListsTypeOK
  <2>3. local' \in [Res -> [Prop -> Value \cup {Absent, NoValue}]]
    BY <1>7, <1>9 DEF PullTaken
  <2> QED
    BY <1>9, <2>1, <2>2, <2>3, BatchOfOne DEF PullTaken, ListsTypeOK, resVars
<1>10. ASSUME NEW r \in Res, BulkGet(r)  PROVE ListsTypeOK'
  <2>1. local' \in [Res -> [Prop -> Value \cup {Absent, NoValue}]]
    BY <1>7, <1>10 DEF BulkGet
  <2>2. Cardinality(batch') <= BulkLimit /\ batch' \subseteq Res /\ result' \subseteq Res
    BY <1>10, SmallerBatch DEF BulkGet, ListsTypeOK
  <2> QED
    BY <1>10, <2>1, <2>2 DEF BulkGet, ListsTypeOK, resVars
<1>11. ASSUME NEW rs \in SUBSET todo, BulkSubmit(rs)  PROVE ListsTypeOK'
  <2>1. Cardinality(batch') <= BulkLimit
    <3>1. batch' = rs /\ (Cardinality(rs) = max_req_id + 1 \/ Cardinality(rs) <= max_req_id)
      BY <1>11 DEF BulkSubmit
    <3>2. IsFiniteSet(rs)
      BY ListAssumption, FS_Subset DEF ListAssumption, ListsTypeOK
    <3>3. Cardinality(rs) \in Nat
      BY <3>2, FS_CardinalityType
    <3> QED
      BY <3>1, <3>3, ListAssumption DEF max_req_id, ListAssumption
  <2> QED
    BY <1>11, <2>1 DEF BulkSubmit, ListsTypeOK, resVars
<1>12. CASE Return
  <2>1. PICK outcome \in {"listed", Found} : call' = [call EXCEPT !.pc = "end", !.outcome = outcome]
    BY <1>12 DEF Return
  <2>2. outcome \in Outcome
    BY DEF Found, Outcome
  <2>3. call' \in CallType /\ call'.filter \in Filters(call'.kind)
    BY <2>1, <2>2, CallsTyped, CallKept DEF ListsTypeOK
  <2> QED
    BY <1>12, <2>3 DEF Return, ListsTypeOK, resVars
<1>13. CASE RequestFails \/ \E r \in Res : \/ PullGone(r) \/ BulkGone(r)
                                           \/ FilterFails(r) \/ BulkFilterFails(r)
  BY <1>3, <1>13 DEF RequestFails, PullGone, BulkGone, FilterFails, BulkFilterFails
<1> QED
  BY <1>1, <1>2, <1>4, <1>5, <1>6, <1>8, <1>9, <1>10, <1>11, <1>12, <1>13, ListTypes, WorldTypes
  DEF ListsNext

\* The variables of a call and of the resources keep their types, and no bulk request is larger
\* than the limit, whatever the number of resources.
THEOREM ListsTypeCorrect == ListsSpec => []ListsTypeOK
<1>1. ListsInit => ListsTypeOK
  BY ListsInitTypes
<1>2. ListsTypeOK /\ [ListsNext]_listsVars => ListsTypeOK'
  BY ListsStepTypes
<1> QED
  BY <1>1, <1>2, PTL DEF ListsSpec

--------------------------------------------------------------------------------
(* The inductive invariant of a call *)

LEMMA CallFrame ==
  ASSUME call'.filter = call.filter, call'.kind = call.kind, UNCHANGED seen
  PROVE  /\ \A r : Always(r)' <=> Always(r)
         /\ \A r : Once(r)' <=> Once(r)
         /\ \A r, p : Applied(r, p)' <=> Applied(r, p)
         /\ \A r : Unfit(r)' <=> Unfit(r)
         /\ Checked' = Checked
         /\ QueryParms(call'.kind, call'.filter) = QueryParms(call.kind, call.filter)
<1>1. Filtered' = Filtered /\ Checked' = Checked
  BY DEF Filtered, Checked
<1>0. \A p, v : Selects(p, v)' <=> Selects(p, v)
  BY <1>1 DEF Selects
<1>2. \A r : Always(r)' <=> Always(r)
  BY <1>1 DEF Always
<1>3. \A r : Once(r)' <=> Once(r)
  BY <1>0, <1>1 DEF Once
<1>4. \A r, p : Applied(r, p)' <=> Applied(r, p)
  BY <1>0 DEF Applied
<1>5. \A r : Unfit(r)' <=> Unfit(r)
  BY <1>1 DEF Unfit
<1> QED
  BY <1>1, <1>2, <1>3, <1>4, <1>5

\* What a value that a property had tells about a filter of the client.
LEMMA ValueTells ==
  ASSUME ListsTypeOK, NEW r \in Res, NEW p \in Checked, NEW v \in seen[r][p]
  PROVE  /\ Always(r) => matches_prop(v, call.filter[p]) \/ Unconvertible(v, call.filter[p])
         /\ matches_prop(v, call.filter[p]) => Applied(r, p)
         /\ Unconvertible(v, call.filter[p]) => Unfit(r)
<1>1. p \in Filtered
  BY FilterFacts
<1>2. Always(r) => matches_prop(v, call.filter[p]) \/ Unconvertible(v, call.filter[p])
  BY <1>1, ClientSelects DEF Always
<1>3. matches_prop(v, call.filter[p]) => Applied(r, p)
  BY DEF Applied, Selects
<1>4. Unconvertible(v, call.filter[p]) => Unfit(r)
  BY DEF Unfit
<1> QED
  BY <1>2, <1>3, <1>4

\* What the client's filters tell about a resource whose values they are applied to.
LEMMA FiltersTell ==
  ASSUME ListsTypeOK, NEW r \in Res, NEW props, NEW ps \in SUBSET Checked,
         \A p \in ps : props[p] \in seen[r][p]
  PROVE  /\ matches_filters(props, call.filter, ps) => \A p \in ps : Applied(r, p)
         /\ Rejects(props, call.filter, ps) => ~Always(r)
         /\ Chokes(props, call.filter, ps) => Unfit(r)
<1>1. \A p \in ps :
        /\ Always(r) => matches_prop(props[p], call.filter[p]) \/ Unconvertible(props[p], call.filter[p])
        /\ matches_prop(props[p], call.filter[p]) => Applied(r, p)
        /\ Unconvertible(props[p], call.filter[p]) => Unfit(r)
  BY ValueTells
<1> QED
  BY <1>1 DEF matches_filters, Rejects, Chokes

\* What is still to be looked at after a pull are filters of the client; when it matches, the others
\* have matched before.
LEMMA LateFacts ==
  ASSUME NEW r \in Res, NEW late \in Late(r)
  PROVE  /\ late \subseteq Checked
         /\ matches_filters(val[r], call.filter, late) =>
              /\ Checked \ late \subseteq Known(r)
              /\ matches_filters(local[r], call.filter, Checked \ late)
<1>1. PICK early \in SUBSET (Checked \cap Known(r)), u \in Checked \ Known(r) :
        /\ matches_filters(local[r], call.filter, early)
        /\ late = IF matches_prop(val[r][u], call.filter[u]) THEN Checked \ early ELSE {u}
  BY DEF Late
<1>2. late \subseteq Checked
  BY <1>1
<1>3. ASSUME matches_filters(val[r], call.filter, late)  PROVE late = Checked \ early
  BY <1>1, <1>3 DEF matches_filters
<1>4. Checked \ (Checked \ early) = early
  BY <1>1
<1> QED
  BY <1>1, <1>2, <1>3, <1>4

LEMMA NotEnded ==
  ASSUME call.outcome = "none" \/ call'.outcome = "none"
  PROVE  (call.outcome = "none" => Explained) /\ (call'.outcome = "none" => Explained')
BY DEF Explained, FindExplained, FailureExplained

\* An item has been dealt with: it is taken, or it does not match.
LEMMA ItemStep ==
  ASSUME ListsTypeOK, ListsInv, call.pc = "items", NEW r \in todo, todo' = todo \ {r},
         UNCHANGED <<life, val, stay, seen>>, Fresh',
         \A q \in Res, p \in Prop : local[q][p] # NoValue => local'[q][p] # NoValue,
         \/ Take(r) /\ \A p \in Checked : Applied(r, p)
         \/ UNCHANGED <<call, batch, result>> /\ ~Always(r)
  PROVE  ListsInv'
<1>1. /\ NoneLost /\ NonePast /\ Phases /\ Full
      /\ call.outcome = "none" /\ batch = {} /\ (call.full => call.kind.rest = "pull")
  BY DEF ListsInv, Phases
<1>2. /\ call'.filter = call.filter /\ call'.kind = call.kind /\ call'.full = call.full
      /\ call'.outcome = call.outcome
  <2>1. call' = call \/ call' = [call EXCEPT !.pc = "full"]
    BY DEF Take
  <2>2. CASE call' = [call EXCEPT !.pc = "full"]
    BY <2>2, CallKept
  <2> QED
    BY <2>1, <2>2
<1>3. /\ \A q : Always(q)' <=> Always(q)
      /\ \A q, p : Applied(q, p)' <=> Applied(q, p)
      /\ Checked' = Checked
      /\ QueryParms(call'.kind, call'.filter) = QueryParms(call.kind, call.filter)
  BY <1>2, CallFrame
<1>4. Explained'
  BY <1>1, <1>2, NotEnded
<1>5. CASE UNCHANGED <<call, batch, result>> /\ ~Always(r)
  <2>1. NoneLost'
    BY <1>1, <1>3, <1>5 DEF NoneLost
  <2>2. NonePast'
    BY <1>1, <1>3, <1>5 DEF NonePast, Taken
  <2>3. Phases' /\ Full'
    BY <1>1, <1>5 DEF Phases, Full, ListsTypeOK
  <2> QED
    BY <1>4, <2>1, <2>2, <2>3 DEF ListsInv
<1>6. CASE Take(r) /\ call.full /\ \A p \in Checked : Applied(r, p)
  <2>1. call' = [call EXCEPT !.pc = "full"] /\ batch' = {r} /\ UNCHANGED result
    BY <1>1, <1>6 DEF Take
  <2>2. call'.pc = "full"
    BY <2>1, CallKept
  <2>3. NoneLost'
    BY <1>1, <1>2, <1>3, <2>1 DEF NoneLost
  <2>4. NonePast'
    BY <1>1, <1>3, <1>6, <2>1, <2>2 DEF NonePast, Taken
  <2>5. Phases'
    BY <1>1, <1>2, <1>6, <2>2 DEF Phases
  <2>6. Full'
    BY <1>1, <1>2, <1>6, <2>1 DEF Full, ListsTypeOK
  <2> QED
    BY <1>4, <2>3, <2>4, <2>5, <2>6 DEF ListsInv
<1>7. CASE Take(r) /\ ~call.full /\ \A p \in Checked : Applied(r, p)
  <2>1. UNCHANGED <<call, batch>> /\ result' = result \cup {r}
    BY <1>7 DEF Take
  <2>2. NoneLost'
    BY <1>1, <1>3, <2>1 DEF NoneLost
  <2>3. NonePast'
    BY <1>1, <1>3, <1>7, <2>1 DEF NonePast, Taken
  <2>4. Phases' /\ Full'
    BY <1>1, <1>7, <2>1 DEF Phases, Full
  <2> QED
    BY <1>4, <2>2, <2>3, <2>4 DEF ListsInv
<1> QED
  BY <1>5, <1>6, <1>7

\* A resource has been pulled.
LEMMA PulledFresh ==
  ASSUME ListsTypeOK, Fresh, NEW r \in Res, local' = [local EXCEPT ![r] = val[r]], UNCHANGED <<val, seen>>
  PROVE  /\ Fresh' /\ \A p \in Prop : local'[r][p] = val[r][p] /\ local'[r][p] # NoValue
         /\ \A q \in Res, p \in Prop : local[q][p] # NoValue => local'[q][p] # NoValue
         /\ \A q \in Res : q # r => local'[q] = local[q]
<1>1. \A p \in Prop : local'[r][p] = val[r][p] /\ val[r][p] \in Value \cup {Absent}
  BY DEF ListsTypeOK
<1>2. \A q \in Res : q # r => local'[q] = local[q]
  BY DEF ListsTypeOK
<1>3. \A p \in Prop : val[r][p] # NoValue
  BY <1>1, ListAssumption DEF ListAssumption
<1>4. Fresh'
  <2>1. ASSUME NEW q \in Res, NEW p \in Prop
        PROVE  val'[q][p] \in seen'[q][p] /\ local'[q][p] \in seen'[q][p] \cup {NoValue}
    BY <1>1, <1>2 DEF Fresh
  <2> QED
    BY <2>1 DEF Fresh
<1> QED
  BY <1>1, <1>2, <1>3, <1>4

LEMMA ItemsInv ==
  ASSUME ListsTypeOK, ListsInv, NEW r \in Res, DropItem(r) \/ TakeItem(r) \/ PullItem(r)
  PROVE  ListsInv'
<1>1. call.pc = "items" /\ r \in todo /\ todo' = todo \ {r} /\ UNCHANGED <<life, val, stay, seen>>
  BY DEF DropItem, TakeItem, PullItem, Item, resVars
<1>2. Fresh
  BY <1>1 DEF ListsInv
<1>3. Checked \subseteq Filtered /\ Checked \subseteq Prop
  BY FilterFacts
<1>4. \A p \in Checked \cap Known(r) : local[r][p] \in seen[r][p]
  BY <1>2, <1>3 DEF Known, Fresh
<1>5. UNCHANGED local => /\ Fresh'
                         /\ \A q \in Res, p \in Prop : local[q][p] # NoValue => local'[q][p] # NoValue
  BY <1>1, <1>2 DEF Fresh
<1>6. CASE DropItem(r)
  <2>1. ~Always(r)
    BY <1>4, <1>6, FiltersTell DEF DropItem
  <2> QED
    BY <1>1, <1>5, <1>6, <2>1, ItemStep DEF DropItem
<1>7. CASE TakeItem(r)
  <2>1. \A p \in Checked : local[r][p] \in seen[r][p]
    BY <1>4, <1>7 DEF TakeItem
  <2>2. \A p \in Checked : Applied(r, p)
    BY <1>7, <2>1, FiltersTell DEF TakeItem
  <2> QED
    BY <1>1, <1>5, <1>7, <2>2, ItemStep DEF TakeItem
<1>8. CASE PullItem(r)
  <2>1. /\ Fresh' /\ \A q \in Res, p \in Prop : local[q][p] # NoValue => local'[q][p] # NoValue
    BY <1>1, <1>2, <1>8, PulledFresh DEF PullItem
  <2>2. \A p \in Checked : val[r][p] \in seen[r][p]
    BY <1>2, <1>3 DEF Fresh
  <2>3. PICK late \in Late(r) :
          \/ matches_filters(val[r], call.filter, late) /\ Take(r)
          \/ Rejects(val[r], call.filter, late) /\ UNCHANGED <<call, batch, result>>
    BY <1>8 DEF PullItem
  <2>4. late \subseteq Checked
    BY LateFacts
  <2>5. CASE matches_filters(val[r], call.filter, late) /\ Take(r)
    <3>1. \A p \in late : Applied(r, p)
      BY <2>2, <2>4, <2>5, FiltersTell
    <3>2. Checked \ late \subseteq Known(r) /\ matches_filters(local[r], call.filter, Checked \ late)
      BY <2>5, LateFacts
    <3>3. \A p \in Checked \ late : Applied(r, p)
      BY <1>4, <3>2, FiltersTell
    <3>4. \A p \in Checked : Applied(r, p)
      BY <3>1, <3>3
    <3> QED
      BY <1>1, <2>1, <2>5, <3>4, ItemStep
  <2>6. CASE Rejects(val[r], call.filter, late) /\ UNCHANGED <<call, batch, result>>
    <3>1. ~Always(r)
      BY <2>2, <2>4, <2>6, FiltersTell
    <3> QED
      BY <1>1, <2>1, <2>6, <3>1, ItemStep
  <2> QED
    BY <2>3, <2>5, <2>6
<1> QED
  BY <1>6, <1>7, <1>8

LEMMA MissingInv ==
  ASSUME ListsTypeOK, ListsInv, NEW r \in Res, PullMissing(r)
  PROVE  ListsInv'
<1>1. /\ call.pc = "items" /\ UNCHANGED <<life, val, call, todo, batch, result, stay, seen>>
      /\ Fresh /\ NoneLost /\ NonePast /\ Phases /\ Full /\ Explained
  BY DEF PullMissing, resVars, ListsInv
<1>2. PICK ps : local' = [local EXCEPT ![r] = [p \in Prop |-> IF p \in ps THEN val[r][p] ELSE @[p]]]
  BY DEF PullMissing
<1>3. ASSUME NEW q \in Res, NEW p \in Prop
      PROVE  local'[q][p] \in {val[q][p], local[q][p]} /\ (local[q][p] # NoValue => local'[q][p] # NoValue)
  <2>1. CASE q = r
    <3>1. local'[q][p] = IF p \in ps THEN val[q][p] ELSE local[q][p]
      BY <1>2, <2>1 DEF ListsTypeOK
    <3>2. val[q][p] # NoValue
      BY ListAssumption DEF ListsTypeOK, ListAssumption
    <3> QED
      BY <3>1, <3>2
  <2>2. CASE q # r
    BY <1>2, <2>2 DEF ListsTypeOK
  <2> QED
    BY <2>1, <2>2
<1>4. Fresh'
  BY <1>1, <1>3 DEF Fresh
<1>5. NoneLost' /\ NonePast' /\ Explained'
  <2>1. NoneLost'
    BY <1>1, CallFrame DEF NoneLost
  <2>2. NonePast'
    BY <1>1, CallFrame DEF NonePast, Taken
  <2>3. Explained'
    BY <1>1, NotEnded DEF Phases
  <2> QED
    BY <2>1, <2>2, <2>3
<1>6. Phases' /\ Full'
  BY <1>1, <1>3 DEF Phases, Full, ListsTypeOK
<1> QED
  BY <1>4, <1>5, <1>6 DEF ListsInv

LEMMA TakenInv ==
  ASSUME ListsTypeOK, ListsInv, NEW r \in Res, PullTaken(r)
  PROVE  ListsInv'
<1>1. /\ call.pc = "full" /\ batch = {r} /\ result' = result \cup {r} /\ batch' = {}
      /\ call' = [call EXCEPT !.pc = "items"]
      /\ local' = [local EXCEPT ![r] = val[r]] /\ UNCHANGED <<life, val, todo, stay, seen>>
      /\ Fresh /\ NoneLost /\ NonePast /\ Phases /\ Full
  BY DEF PullTaken, resVars, ListsInv
<1>2. /\ call'.pc = "items" /\ call'.filter = call.filter /\ call'.kind = call.kind
      /\ call'.full = call.full /\ call'.outcome = call.outcome
  BY <1>1, CallKept
<1>3. call.full /\ call.kind.rest = "pull" /\ call.outcome = "none"
  BY <1>1 DEF Phases
<1>4. /\ Fresh' /\ \A p \in Prop : local'[r][p] # NoValue
      /\ \A q \in Res, p \in Prop : local[q][p] # NoValue => local'[q][p] # NoValue
  BY <1>1, PulledFresh
<1>5. NoneLost'
  BY <1>1, <1>2, CallFrame DEF NoneLost
<1>6. NonePast'
  BY <1>1, <1>2, CallFrame DEF NonePast, Taken
<1>7. Phases' /\ Explained'
  BY <1>1, <1>2, <1>3, NotEnded DEF Phases
<1>8. Full'
  BY <1>1, <1>2, <1>3, <1>4 DEF Full, ListsTypeOK
<1> QED
  BY <1>4, <1>5, <1>6, <1>7, <1>8 DEF ListsInv

LEMMA SubmitInv ==
  ASSUME ListsTypeOK, ListsInv, NEW rs, BulkSubmit(rs)
  PROVE  ListsInv'
<1>1. /\ call.pc = "bulk" /\ batch = {} /\ rs \subseteq todo /\ batch' = rs /\ todo' = todo \ rs
      /\ UNCHANGED <<life, val, call, local, result, stay, seen>>
      /\ Fresh /\ NoneLost /\ NonePast /\ Phases /\ Full
  BY DEF BulkSubmit, resVars, ListsInv
<1>2. Fresh'
  BY <1>1 DEF Fresh
<1>3. NoneLost'
  BY <1>1, CallFrame DEF NoneLost
<1>4. NonePast'
  BY <1>1, CallFrame DEF NonePast, Taken
<1>5. Phases' /\ Explained'
  BY <1>1, NotEnded DEF Phases
<1>6. Full'
  <2>1. Checked' = Checked /\ call.full /\ call.kind.rest = "bulk"
    BY <1>1, CallFrame DEF Phases
  <2> QED
    BY <1>1, <2>1 DEF Full
<1> QED
  BY <1>2, <1>3, <1>4, <1>5, <1>6 DEF ListsInv

LEMMA BulkInv ==
  ASSUME ListsTypeOK, ListsInv, NEW r \in Res, BulkGet(r)
  PROVE  ListsInv'
<1>1. /\ call.pc = "bulk" /\ r \in batch /\ batch' = batch \ {r}
      /\ \/ matches_filters(val[r], call.filter, Checked) /\ result' = result \cup {r}
         \/ Rejects(val[r], call.filter, Checked) /\ UNCHANGED result
      /\ local' = [local EXCEPT ![r] = val[r]] /\ UNCHANGED <<life, val, call, todo, stay, seen>>
      /\ Fresh /\ NoneLost /\ NonePast /\ Phases /\ Full
  BY DEF BulkGet, resVars, ListsInv
<1>2. call.full /\ call.kind.rest = "bulk" /\ call.outcome = "none"
  BY <1>1 DEF Phases
<1>3. /\ Fresh' /\ \A p \in Prop : local'[r][p] = val[r][p] /\ local'[r][p] # NoValue
      /\ \A q \in Res : q # r => local'[q] = local[q]
  BY <1>1, PulledFresh
<1>4. Checked \subseteq Filtered /\ Checked \subseteq Prop
  BY FilterFacts
<1>5. \A p \in Checked : val[r][p] \in seen[r][p]
  BY <1>1, <1>4 DEF Fresh
<1>6. /\ matches_filters(val[r], call.filter, Checked) => \A p \in Checked : Applied(r, p)
      /\ Rejects(val[r], call.filter, Checked) => ~Always(r)
  BY <1>5, FiltersTell
<1>7. /\ \A q : Always(q)' <=> Always(q)
      /\ \A q, p : Applied(q, p)' <=> Applied(q, p)
      /\ Checked' = Checked
  BY <1>1, CallFrame
<1>8. NoneLost'
  BY <1>1, <1>6, <1>7 DEF NoneLost
<1>9. NonePast'
  BY <1>1, <1>6, <1>7 DEF NonePast, Taken
<1>10. Phases' /\ Explained'
  BY <1>1, <1>2, NotEnded DEF Phases
<1>11. Full'
  <2>1. /\ result \cap (todo \cup batch) = {} /\ todo \cap batch = {}
        /\ \A q \in result : matches_filters(local[q], call.filter, Checked)
        /\ \A q \in result, p \in Prop : local[q][p] # NoValue
    BY <1>1, <1>2 DEF Full
  <2>2. result' \cap (todo' \cup batch') = {} /\ todo' \cap batch' = {}
    BY <1>1, <2>1
  <2>3. ASSUME NEW q \in result'
        PROVE  matches_filters(local'[q], call.filter, Checked) /\ \A p \in Prop : local'[q][p] # NoValue
    <3>1. CASE q = r
      <4>1. r \notin result
        BY <1>1, <2>1
      <4>2. matches_filters(val[r], call.filter, Checked)
        BY <1>1, <2>3, <3>1, <4>1
      <4> QED
        BY <1>3, <1>4, <3>1, <4>2 DEF matches_filters
    <3>2. CASE q # r
      <4>1. q \in result /\ q \in Res
        BY <1>1, <2>3, <3>2 DEF ListsTypeOK
      <4> QED
        BY <1>3, <2>1, <3>2, <4>1
    <3> QED
      BY <3>1, <3>2
  <2> QED
    BY <1>1, <1>7, <2>2, <2>3 DEF Full
<1> QED
  BY <1>3, <1>8, <1>9, <1>10, <1>11 DEF ListsInv

LEMMA FailInv ==
  ASSUME ListsTypeOK, ListsInv, call.pc # "start", NEW cut \in BOOLEAN, Fail(cut),
         UNCHANGED <<life, val, stay, seen>>, cut \/ \E r \in Res : life[r] = "gone" \/ Unfit(r)
  PROVE  ListsInv'
<1>1. /\ call' = [call EXCEPT !.pc = "end", !.outcome = "failed", !.cut = cut]
      /\ todo' = {} /\ batch' = {} /\ result' = {} /\ local' = [r \in Res |-> Unknown]
  BY DEF Fail
<1>2. /\ call'.pc = "end" /\ call'.kind = call.kind /\ call'.full = call.full
      /\ call'.outcome = "failed" /\ call'.cut = cut /\ call'.filter = call.filter
  BY <1>1, CallKept
<1>3. Fresh' /\ Phases
  <2>1. \A r \in Res, p \in Prop : local'[r][p] = NoValue
    BY <1>1 DEF Unknown
  <2> QED
    BY <2>1 DEF ListsInv, Fresh
<1>4. NoneLost' /\ NonePast' /\ Phases' /\ Full'
  BY <1>1, <1>2, <1>3 DEF NoneLost, NonePast, Taken, Phases, Full
<1>5. Explained'
  <2>1. \A r : Unfit(r)' <=> Unfit(r)
    BY <1>2, CallFrame
  <2> QED
    BY <1>2, <2>1 DEF Explained, FindExplained, FailureExplained
<1> QED
  BY <1>3, <1>4, <1>5 DEF ListsInv

\* Every resource in the result has passed all filters.
LEMMA ResultApplied ==
  ASSUME ListsTypeOK, NonePast
  PROVE  \A r \in result : Once(r)
<1> SUFFICES ASSUME NEW r \in result, NEW p \in Filtered  PROVE Applied(r, p)
  BY DEF Once, Applied
<1>1. p \in QueryParms(call.kind, call.filter) \/ p \in Checked
  BY FilterFacts
<1> QED
  BY <1>1 DEF NonePast, Taken

LEMMA ReturnInv ==
  ASSUME ListsTypeOK, ListsInv, Return
  PROVE  ListsInv'
<1>1. /\ call.pc \in {"items", "bulk"} /\ todo = {} /\ batch = {}
      /\ UNCHANGED <<life, val, todo, batch, local, result, stay, seen>>
      /\ Fresh /\ NoneLost /\ NonePast /\ Phases /\ Full
  BY DEF Return, resVars, ListsInv
<1>2. PICK outcome \in {"listed", Found} : call' = [call EXCEPT !.pc = "end", !.outcome = outcome]
  BY DEF Return
<1>3. outcome \in Outcome /\ outcome \notin {"none", "failed"}
  BY DEF Found, Outcome
<1>4. /\ call'.pc = "end" /\ call'.kind = call.kind /\ call'.filter = call.filter
      /\ call'.full = call.full /\ call'.outcome = outcome
  BY <1>2, <1>3, CallKept
<1>5. /\ \A q : Always(q)' <=> Always(q)
      /\ \A q : Once(q)' <=> Once(q)
      /\ \A q, p : Applied(q, p)' <=> Applied(q, p)
      /\ Checked' = Checked
      /\ QueryParms(call'.kind, call'.filter) = QueryParms(call.kind, call.filter)
  BY <1>1, <1>4, CallFrame
<1>6. Fresh'
  BY <1>1 DEF Fresh
<1>7. call.outcome = "none"
  BY <1>1 DEF Phases
<1>8. NoneLost'
  BY <1>1, <1>3, <1>4, <1>5, <1>7 DEF NoneLost
<1>9. NonePast'
  BY <1>1, <1>4, <1>5 DEF NonePast, Taken
<1>10. Phases'
  BY <1>1, <1>3, <1>4 DEF Phases
<1>11. Full'
  BY <1>1, <1>4, <1>5 DEF Full
<1>12. Explained'
  <2>1. IsFiniteSet(result)
    BY ListAssumption, FS_Subset DEF ListAssumption, ListsTypeOK
  <2>2. CASE outcome = "found"
    <3>1. Cardinality(result) = 1
      BY <1>2, <2>2 DEF Found
    <3> QED
      BY <1>1, <1>4, <2>2, <3>1 DEF Explained, FindExplained, FailureExplained
  <2>3. CASE outcome = "notfound"
    <3>1. Cardinality(result) = 0
      BY <2>3 DEF Found
    <3>2. result = {}
      BY <2>1, <3>1, FS_EmptySet
    <3>3. \A q \in stay' : ~Always(q)'
      BY <1>1, <1>5, <1>7, <3>2 DEF NoneLost
    <3> QED
      BY <1>4, <2>3, <3>3 DEF Explained, FindExplained, FailureExplained
  <2>4. CASE outcome = "notunique"
    <3>1. Cardinality(result) # 0 /\ Cardinality(result) # 1
      BY <2>4 DEF Found
    <3>2. PICK q \in result : TRUE
      BY <3>1, FS_EmptySet
    <3>3. result # {q}
      BY <3>1, FS_Singleton
    <3>4. PICK r \in result : r # q
      BY <3>3
    <3>5. Once(q) /\ Once(r)
      BY <1>1, ResultApplied
    <3>6. \E x, y \in Res : x # y /\ Once(x)' /\ Once(y)'
      <4>1. q \in Res /\ r \in Res
        BY DEF ListsTypeOK
      <4> QED
        BY <1>5, <3>4, <3>5, <4>1
    <3> QED
      BY <1>4, <2>4, <3>6 DEF Explained, FindExplained, FailureExplained
  <2>5. CASE outcome = "listed"
    BY <1>4, <2>5 DEF Explained, FindExplained, FailureExplained
  <2> QED
    BY <2>2, <2>3, <2>4, <2>5 DEF Found
<1> QED
  BY <1>6, <1>8, <1>9, <1>10, <1>11, <1>12 DEF ListsInv

\* Changes of the resources make it no easier to match all the time, and no harder to match once.
LEMMA WorldInv ==
  ASSUME ListsTypeOK, ListsInv, NEW r \in Res,
         Appear(r) \/ Vanish(r) \/ \E p \in Prop, v \in Value : Change(r, p, v)
  PROVE  ListsInv'
<1>1. call.pc \notin {"start", "end"} /\ UNCHANGED stepVars /\ stay' \subseteq stay
  BY DEF Appear, Vanish, Change, Changes
<1>2. /\ Fresh /\ NoneLost /\ NonePast /\ Phases /\ Full
      /\ UNCHANGED <<call, todo, batch, local, result>> /\ call.outcome = "none"
  BY <1>1 DEF ListsInv, stepVars, Phases
<1>3. \A q \in Res, p \in Prop : seen[q][p] \subseteq seen'[q][p] /\ val'[q][p] \in seen'[q][p]
  <2>1. CASE UNCHANGED <<val, seen>>
    BY <1>2, <2>1 DEF Fresh
  <2>2. ASSUME NEW p \in Prop, NEW v \in Value, Change(r, p, v), NEW q \in Res, NEW pp \in Prop
        PROVE  seen[q][pp] \subseteq seen'[q][pp] /\ val'[q][pp] \in seen'[q][pp]
    <3>1. val' = [val EXCEPT ![r][p] = v] /\ seen' = [seen EXCEPT ![r][p] = @ \cup {v}]
      BY <2>2 DEF Change
    <3>2. CASE q = r /\ pp = p
      BY <3>1, <3>2 DEF ListsTypeOK
    <3>3. CASE ~(q = r /\ pp = p)
      <4>1. val'[q][pp] = val[q][pp] /\ seen'[q][pp] = seen[q][pp]
        BY <3>1, <3>3 DEF ListsTypeOK
      <4> QED
        BY <1>2, <4>1 DEF Fresh
    <3> QED
      BY <3>2, <3>3
  <2> QED
    BY <2>1, <2>2 DEF Appear, Vanish
<1>4. Fresh'
  BY <1>2, <1>3 DEF Fresh
<1>5. Filtered \subseteq Prop /\ Filtered' = Filtered /\ Checked' = Checked /\ Checked \subseteq Prop
      /\ QueryParms(call'.kind, call'.filter) = QueryParms(call.kind, call.filter)
      /\ QueryParms(call.kind, call.filter) \subseteq Prop
  BY <1>2, FilterFacts DEF Filtered, Checked
<1>6. \A q \in Res : Always(q)' => Always(q)
  BY <1>2, <1>3, <1>5 DEF Always
<1>7. \A q \in Res, p \in Prop : Applied(q, p) => Applied(q, p)'
  BY <1>2, <1>3, <1>5 DEF Applied, Selects
<1>8. NoneLost'
  <2>1. stay \subseteq Res
    BY DEF ListsTypeOK
  <2> QED
    BY <1>1, <1>2, <1>6, <2>1 DEF NoneLost
<1>9. NonePast'
  <2>1. todo \cup batch \cup result \subseteq Res /\ Taken' = Taken /\ Taken \subseteq Res
    BY <1>2 DEF ListsTypeOK, Taken
  <2> QED
    BY <1>2, <1>5, <1>7, <2>1 DEF NonePast
<1>10. Phases' /\ Explained'
  BY <1>2, NotEnded DEF Phases
<1>11. Full'
  BY <1>2, <1>5 DEF Full
<1> QED
  BY <1>4, <1>8, <1>9, <1>10, <1>11 DEF ListsInv

LEMMA ListInv ==
  ASSUME ListsTypeOK, NEW k \in Kinds, NEW full \in BOOLEAN, NEW args \in Filters(k),
         \/ \E adds \in SUBSET Prop : ListOperation(k, full, args, adds)
         \/ ListArray(k, full, args)
  PROVE  ListsInv'
<1>1. /\ UNCHANGED <<life, val>> /\ result' = {} /\ batch' = {}
      /\ seen' = [r \in Res |-> [p \in Prop |-> {val[r][p]}]]
      /\ full => k.rest # "none"
      /\ call'.pc = IF full /\ k.rest = "bulk" THEN "bulk" ELSE "items"
      /\ call'.kind = k /\ call'.full = full /\ call'.filter = args /\ call'.outcome = "none"
  BY DEF ListOperation, ListArray, Begin, resVars
<1>2. \A r \in Res, p \in Prop : seen'[r][p] = {val[r][p]}
  BY <1>1
<1>3. k.rest \in {"bulk", "pull", "none"} /\ (k.via = "array" => k.served = {})
  BY KindFacts
<1>4. DOMAIN args \subseteq Prop
  BY KindFacts DEF Filters
<1>5. Fresh'
  <2>1. ASSUME NEW r \in Res, NEW p \in Prop  PROVE local'[r][p] \in {val[r][p], NoValue}
    <3>1. CASE ListArray(k, full, args)
      BY <3>1 DEF ListArray, Unknown
    <3>2. CASE \E adds \in SUBSET Prop : ListOperation(k, full, args, adds)
      BY <3>2 DEF ListOperation, ListedProps, Unknown
    <3> QED
      BY <3>1, <3>2
  <2> QED
    BY <1>1, <1>2, <2>1 DEF Fresh
<1>6. /\ \A r \in stay' : Always(r)' => r \in todo'
      /\ \A r \in todo', p \in QueryParms(k, args) : Applied(r, p)'
  <2>1. CASE ListArray(k, full, args)
    <3>1. stay' \subseteq todo' /\ QueryParms(k, args) = {}
      BY <1>3, <2>1 DEF ListArray, QueryParms
    <3> QED
      BY <3>1
  <2>2. CASE \E adds \in SUBSET Prop : ListOperation(k, full, args, adds)
    <3>1. /\ stay' = Existing
          /\ todo' = {r \in Existing : \A p \in QueryParms(k, args) : HmcMatches(val[r][p], args[p])}
      BY <2>2 DEF ListOperation
    <3>2. Existing \subseteq Res /\ QueryParms(k, args) \subseteq DOMAIN args
      BY DEF Existing, QueryParms
    <3>3. ASSUME NEW r \in stay', Always(r)'  PROVE r \in todo'
      <4>1. \A p \in DOMAIN args : \A v \in seen'[r][p] : HmcMatches(v, args[p])
        BY <1>1, <3>3 DEF Always, Filtered
      <4> QED
        BY <1>2, <1>4, <3>1, <3>2, <4>1
    <3>4. ASSUME NEW r \in todo', NEW p \in QueryParms(k, args)  PROVE Applied(r, p)'
      <4>1. HmcMatches(val[r][p], args[p]) /\ val[r][p] \in seen'[r][p]
        BY <1>2, <1>4, <3>1, <3>2
      <4>2. p \notin Checked'
        BY <1>1 DEF Checked, ClientFilters, QueryParms
      <4> QED
        BY <1>1, <4>1, <4>2 DEF Applied, Selects
    <3> QED
      BY <3>3, <3>4
  <2> QED
    BY <2>1, <2>2
<1>7. NoneLost'
  BY <1>6 DEF NoneLost
<1>8. NonePast'
  BY <1>1, <1>6 DEF NonePast, Taken
<1>9. Phases' /\ Explained'
  BY <1>1, <1>3, NotEnded DEF Phases
<1>10. Full'
  BY <1>1 DEF Full
<1> QED
  BY <1>5, <1>7, <1>8, <1>9, <1>10 DEF ListsInv

\* A conversion that fails is one of a value that the property had during the call.
LEMMA UnfitFound ==
  ASSUME ListsTypeOK, Fresh, NEW r \in Res, FilterFails(r) \/ BulkFilterFails(r)
  PROVE  Unfit(r)
<1>1. Checked \subseteq Prop
  BY FilterFacts
<1>2. /\ \A p \in Checked : val[r][p] \in seen[r][p]
      /\ \A p \in Checked \cap Known(r) : local[r][p] \in seen[r][p]
  BY <1>1 DEF Fresh, Known
<1>3. CASE Chokes(local[r], call.filter, Checked \cap Known(r))
  BY <1>2, <1>3, FiltersTell
<1>4. ASSUME NEW late \in Late(r) \cup {Checked}, Chokes(val[r], call.filter, late)
      PROVE  Unfit(r)
  <2>1. late \subseteq Checked
    BY LateFacts
  <2> QED
    BY <1>2, <1>4, <2>1, FiltersTell
<1> QED
  BY <1>3, <1>4 DEF FilterFails, BulkFilterFails

LEMMA ListsStep ==
  ASSUME ListsTypeOK, ListsInv, [ListsNext]_listsVars
  PROVE  ListsInv'
<1>1. CASE UNCHANGED listsVars
  BY <1>1 DEF listsVars, resVars, stepVars, ListsInv, Fresh, NoneLost, NonePast, Taken, Phases, Full,
              Explained, FindExplained, FailureExplained, Applied, Selects, Unfit, Always, Once,
              Filtered, Checked
<1>2. ASSUME NEW k \in Kinds, NEW full \in BOOLEAN, NEW args \in Filters(k),
             NEW adds \in IF k.patient THEN SUBSET (Prop \ {"name"}) ELSE {{}},
             ListOperation(k, full, args, adds)
      PROVE  ListsInv'
  <2>1. adds \in SUBSET Prop
    OBVIOUS
  <2> QED
    BY <1>2, <2>1, ListInv
<1>3. CASE RequestFails
  BY <1>3, FailInv DEF RequestFails, resVars
<1>4. ASSUME NEW r \in Res, PullGone(r) \/ BulkGone(r)  PROVE ListsInv'
  BY <1>4, FailInv DEF PullGone, BulkGone, resVars
<1>5. ASSUME NEW r \in Res, FilterFails(r) \/ BulkFilterFails(r)  PROVE ListsInv'
  <2>1. call.pc # "start" /\ Fail(FALSE) /\ UNCHANGED <<life, val, stay, seen>>
    BY <1>5 DEF FilterFails, BulkFilterFails, resVars
  <2>2. Unfit(r)
    BY <1>5, <2>1, UnfitFound DEF ListsInv
  <2> QED
    BY <2>1, <2>2, FailInv
<1> QED
  BY <1>1, <1>2, <1>3, <1>4, <1>5, ListInv, ItemsInv, MissingInv, TakenInv, SubmitInv, BulkInv, ReturnInv,
     WorldInv DEF ListsNext

LEMMA ListsInvariant == ListsSpec => []ListsInv
<1>1. ListsInit => ListsInv
  BY DEF ListsInit, ListsInv
<1>2. ListsTypeOK /\ ListsInv /\ [ListsNext]_listsVars => ListsInv'
  BY ListsStep
<1> QED
  BY <1>1, <1>2, ListsTypeCorrect, PTL DEF ListsSpec

\* A call has no outcome before it has begun: no step leads back there.
LEMMA ListsUnstarted == ListsSpec => []Unstarted
<1>1. ListsInit => Unstarted
  BY DEF ListsInit, Unstarted
<1>2. ASSUME ListsTypeOK, Unstarted, [ListsNext]_listsVars  PROVE Unstarted'
  <2>1. CASE UNCHANGED call
    BY <1>2, <2>1 DEF Unstarted
  <2>2. ASSUME NEW k \in Kinds, NEW full \in BOOLEAN, NEW args \in Filters(k), NEW adds,
               ListOperation(k, full, args, adds) \/ ListArray(k, full, args)
        PROVE  Unstarted'
    BY <2>2 DEF ListOperation, ListArray, Begin, Unstarted
  <2>3. ASSUME NEW r \in Res, Take(r)  PROVE Unstarted'
    BY <1>2, <2>3 DEF Take, Unstarted, ListsTypeOK, CallType
  <2>4. ASSUME NEW cut \in BOOLEAN, Fail(cut)  PROVE Unstarted'
    BY <1>2, <2>4 DEF Fail, Unstarted, ListsTypeOK, CallType
  <2>5. ASSUME NEW r \in Res,
               \/ PullMissing(r) \/ DropItem(r) \/ TakeItem(r) \/ PullItem(r)
               \/ PullTaken(r) \/ PullGone(r) \/ BulkGet(r) \/ BulkGone(r)
               \/ FilterFails(r) \/ BulkFilterFails(r)
        PROVE  Unstarted'
    BY <1>2, <2>1, <2>3, <2>4, <2>5 DEF PullMissing, DropItem, TakeItem, PullItem, PullTaken,
       PullGone, BulkGet, BulkGone, FilterFails, BulkFilterFails, Unstarted, ListsTypeOK, CallType
  <2>6. ASSUME NEW rs, BulkSubmit(rs)  PROVE Unstarted'
    BY <2>1, <2>6 DEF BulkSubmit
  <2>7. CASE RequestFails
    BY <2>4, <2>7 DEF RequestFails
  <2>8. CASE Return
    BY <1>2, <2>8 DEF Return, Unstarted, ListsTypeOK, CallType
  <2>9. CASE \E r \in Res : Appear(r) \/ Vanish(r) \/ \E p \in Prop, v \in Value : Change(r, p, v)
    BY <2>1, <2>9 DEF Appear, Vanish, Change, Changes, stepVars
  <2>10. CASE UNCHANGED listsVars
    BY <2>1, <2>10 DEF listsVars, stepVars
  <2> QED
    BY <1>2, <2>2, <2>5, <2>6, <2>7, <2>8, <2>9, <2>10 DEF ListsNext
<1> QED
  BY <1>1, <1>2, ListsTypeCorrect, PTL DEF ListsSpec

\* Whatever happens to the other resources, and however the filters are divided between the HMC and
\* the client, a resource that exists and matches during the whole call is among the results.
THEOREM ListIsComplete == ListsSpec => []ListComplete
<1>1. Unstarted /\ ListsInv => ListComplete
  <2> SUFFICES ASSUME Unstarted, ListsInv, Returned, NEW r \in stay, Always(r)  PROVE r \in result
    BY DEF ListComplete
  <2>1. call.outcome \notin {"none", "failed"}
    BY DEF Returned
  <2>2. CASE call.pc = "start"
    BY <2>1, <2>2 DEF Unstarted
  <2>3. CASE call.pc # "start"
    BY <2>1, <2>3 DEF ListsInv, NoneLost, Phases
  <2> QED
    BY <2>2, <2>3
<1> QED
  BY <1>1, ListsInvariant, ListsUnstarted, PTL

\* With full_properties, the objects returned have all properties, with values of the time of the
\* call; and after a bulk request, what the objects say agrees with the client's filters.
THEOREM FullIsFresh == ListsSpec => []FullAndFresh
<1>1. ListsTypeOK /\ Unstarted /\ ListsInv => FullAndFresh
  <2> SUFFICES ASSUME ListsTypeOK, Unstarted, ListsInv, Returned, call.full, NEW r \in result
               PROVE  /\ \A p \in Prop : local[r][p] \in seen[r][p]
                      /\ call.kind.rest = "bulk" => matches_filters(local[r], call.filter, Checked)
    BY DEF FullAndFresh
  <2>1. Fresh /\ Full
    BY DEF ListsInv, Unstarted, Returned
  <2>2. r \in Res
    BY DEF ListsTypeOK
  <2> QED
    BY <2>1, <2>2 DEF Fresh, Full
<1> QED
  BY <1>1, ListsInvariant, ListsUnstarted, ListsTypeCorrect, PTL

\* Whatever a call returns or raises is explained by what the resources were during the call: by
\* values that match for the one that applies the filter, by a resource that vanished, or by a value
\* to whose type the client cannot convert a match value.
THEOREM OutcomeIsExplained == ListsSpec => []OutcomeExplained
<1>1. ListsTypeOK /\ Unstarted /\ ListsInv => OutcomeExplained
  <2> SUFFICES ASSUME ListsTypeOK, Unstarted, ListsInv  PROVE OutcomeExplained
    OBVIOUS
  <2>1. CASE call.pc = "start"
    BY <2>1 DEF Unstarted, OutcomeExplained, ListExplained, FindExplained, FailureExplained, Returned
  <2>2. CASE call.pc # "start"
    <3>1. NonePast /\ FindExplained /\ FailureExplained
      BY <2>2 DEF ListsInv, Explained
    <3>2. ListExplained
      BY <3>1, ResultApplied DEF ListExplained
    <3> QED
      BY <3>1, <3>2 DEF OutcomeExplained
  <2> QED
    BY <2>1, <2>2
<1> QED
  BY <1>1, ListsInvariant, ListsUnstarted, ListsTypeCorrect, PTL

=================================================================================
