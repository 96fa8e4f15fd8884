----------------------------- MODULE CustomGroups -----------------------------
(***************************************************************************)
(* The custom groups of the console and their members                      *)
(* (zhmcclient/_group.py), with the handlers and objects of the mock HMC   *)
(* (zhmcclient/mock/_urihandler.py, _hmc.py).  A group has no properties   *)
(* that can be updated, and never looks at its members before they are     *)
(* listed.                                                                 *)
(***************************************************************************)
EXTENDS ConsoleObjects, Sequences, SequencesExt

CONSTANTS
    CustomGroup,  \* the groups, among the resources
    Member        \* bound: the resources that are added to groups

ASSUME CustomGroupAssumption == CustomGroup \subseteq Obj /\ Member \subseteq Obj

VARIABLE members  \* the members of each group, in the order in which they were added

GroupTypeOK == members \in [CustomGroup -> BoundedSeq(Member, MaxCalls)]

GroupInit == members = [g \in CustomGroup |-> <<>>]

--------------------------------------------------------------------------------
(* The handlers of the mock HMC *)

HmcCustomGroups == {g \in CustomGroup : Lives(g)}

HmcCreateCustomGroup(g, v) == g \in CustomGroup /\ HmcAdd(g, v)

HmcDeleteCustomGroup(g) == g \in HmcCustomGroups /\ HmcRemove(g)

\* Neither existence nor membership of the object is checked.
HmcAddMember(g, o) ==
    /\ g \in HmcCustomGroups
    /\ members' = [members EXCEPT ![g] = Append(@, o)]

\* list.remove() removes the first one; ValueError when there is none.
HmcRemoveMember(g, o) ==
    /\ g \in HmcCustomGroups
    /\ o \in Range(members[g])
    /\ members' = [members EXCEPT ![g] = RemoveFirst(@, o)]

\* One member that does not exist any more lets the whole operation fail (404).
HmcMembers(g) == {s \in {members[g]} : g \in HmcCustomGroups /\ \A o \in Range(s) : Lives(o)}

--------------------------------------------------------------------------------
(* The methods of the client *)

ListCustomGroups(c, g, full) == g \in HmcCustomGroups /\ ListObj(c, g, full) /\ UNCHANGED members

CreateCustomGroup(c, g) ==
    /\ UNCHANGED members
    /\ \E v \in Val : HmcCreateCustomGroup(g, v) /\ CreateObj(c, g, v)

DeleteCustomGroup(c, g) == HmcDeleteCustomGroup(g) /\ DeleteObj(c, g) /\ UNCHANGED members

AddMember(c, g)    == UseObj(c, g) /\ \E o \in Member : HmcAddMember(g, o)
RemoveMember(c, g) == UseObj(c, g) /\ \E o \in Member : HmcRemoveMember(g, o)

\* What it returns is nothing that the client keeps.
ListMembers(c, g) == UseObj(c, g) /\ HmcMembers(g) # {} /\ UNCHANGED members

CustomGroupStep(c, g) ==
    /\ g \in CustomGroup
    /\ \/ CreateCustomGroup(c, g) \/ DeleteCustomGroup(c, g)
       \/ AddMember(c, g) \/ RemoveMember(c, g) \/ ListMembers(c, g)
       \/ \E full \in BOOLEAN : ListCustomGroups(c, g, full)
================================================================================
