--------------------------- MODULE ServerDefinitions ---------------------------
(***************************************************************************)
(* The definitions of LDAP, MFA and SSO servers on the console             *)
(* (zhmcclient/_ldap_server_definition.py, _mfa_server_definition.py,      *)
(* _sso_server_definition.py), with the handlers and objects of the mock   *)
(* HMC (zhmcclient/mock/_urihandler.py, _hmc.py).  Nothing relates them to *)
(* the users that refer to them: they can be deleted at any time.          *)
(***************************************************************************)
EXTENDS ConsoleObjects

CONSTANTS LdapDef, MfaDef, SsoDef   \* the definitions, among the resources

ServerDef == LdapDef \cup MfaDef \cup SsoDef

ASSUME ServerDefinitionAssumption == ServerDef \subseteq Obj

--------------------------------------------------------------------------------
(* The handlers of the mock HMC *)

HmcLdapServerDefinitions == {d \in LdapDef : Lives(d)}
HmcMfaServerDefinitions  == {d \in MfaDef : Lives(d)}
HmcSsoServerDefinitions  == {d \in SsoDef : Lives(d)}

HmcCreateLdap(d, v) == d \in LdapDef /\ HmcAdd(d, v)
HmcCreateMfa(d, v)  == d \in MfaDef /\ HmcAdd(d, v)

\* The properties that the server controls are not taken from the request.
HmcCreateSso(d, v, w) == d \in SsoDef /\ w \in {v, InitVal} /\ HmcAdd(d, w)

HmcUpdateLdap(d, v) == d \in LdapDef /\ HmcUpdate(d, v)
HmcUpdateMfa(d, v)  == d \in MfaDef /\ HmcUpdate(d, v)
HmcUpdateSso(d, v)  == d \in SsoDef /\ HmcUpdate(d, v)

HmcDeleteLdap(d) == d \in LdapDef /\ HmcDelete(d)
HmcDeleteMfa(d)  == d \in MfaDef /\ HmcDelete(d)
HmcDeleteSso(d)  == d \in SsoDef /\ HmcDelete(d)

--------------------------------------------------------------------------------
(* The methods of the client *)

ListLdap(c, d, full) == d \in HmcLdapServerDefinitions /\ ListObj(c, d, full)
ListMfa(c, d, full)  == d \in HmcMfaServerDefinitions /\ ListObj(c, d, full)
ListSso(c, d, full)  == d \in HmcSsoServerDefinitions /\ ListObj(c, d, full)

CreateLdap(c, d) == \E v \in Val : HmcCreateLdap(d, v) /\ CreateObj(c, d, v)
CreateMfa(c, d)  == \E v \in Val : HmcCreateMfa(d, v) /\ CreateObj(c, d, v)

\* The new object has all properties as they were sent, also those that the server
\* controls.
CreateSso(c, d) ==
    /\ Begin
    /\ \E v, w \in Val :
          /\ HmcCreateSso(d, v, w)
          /\ copies' = [copies EXCEPT ![c][d] = [state |-> "live", val |-> {v}]]
          /\ overruled' = IF w = v THEN overruled ELSE [overruled EXCEPT ![c] = @ \cup {d}]
    /\ differs' = Touched(c, d, FALSE)

UpdateLdap(c, d) == \E v \in Val : HmcUpdateLdap(d, v) /\ UpdateObj(c, d, v)
UpdateMfa(c, d)  == \E v \in Val : HmcUpdateMfa(d, v) /\ UpdateObj(c, d, v)
UpdateSso(c, d)  == \E v \in Val : HmcUpdateSso(d, v) /\ UpdateObj(c, d, v)

DeleteLdap(c, d) == HmcDeleteLdap(d) /\ DeleteObj(c, d)
DeleteMfa(c, d)  == HmcDeleteMfa(d) /\ DeleteObj(c, d)
DeleteSso(c, d)  == HmcDeleteSso(d) /\ DeleteObj(c, d)

ServerDefinitionStep(c, d) ==
    /\ d \in ServerDef
    /\ \/ CreateLdap(c, d) \/ UpdateLdap(c, d) \/ DeleteLdap(c, d)
       \/ CreateMfa(c, d) \/ UpdateMfa(c, d) \/ DeleteMfa(c, d)
       \/ CreateSso(c, d) \/ UpdateSso(c, d) \/ DeleteSso(c, d)
       \/ \E full \in BOOLEAN : ListLdap(c, d, full) \/ ListMfa(c, d, full) \/ ListSso(c, d, full)
================================================================================
