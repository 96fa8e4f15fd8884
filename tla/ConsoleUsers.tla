----------------------------- MODULE ConsoleUsers -----------------------------
(***************************************************************************)
(* Users, user roles with their permissions, user patterns with their      *)
(* search order, and password rules of the console (zhmcclient/_user.py,   *)
(* _user_role.py, _user_pattern.py, _password_rule.py), with the handlers  *)
(* of the mock HMC (zhmcclient/mock/_urihandler.py).                       *)
(***************************************************************************)
EXTENDS ConsoleObjects, Sequences, SequencesExt

CONSTANTS
    User,         \* users of type standard or template
    PatternUser,  \* users of type pattern-based
    Role,         \* user-defined roles
    SystemRole,   \* system-defined roles
    Pattern,      \* user patterns
    Rule,         \* password rules
    Target,       \* what a role can be permitted: a resource or a class of resources
    MaxReorder    \* bound: the patterns of one reorder request

AnyUser == User \cup PatternUser
AnyRole == Role \cup SystemRole

ASSUME UserAssumption ==
    AnyUser \cup AnyRole \cup Pattern \cup Rule \subseteq Obj /\ MaxReorder \in Nat

VARIABLES
    roles,  \* user-roles of each user: how often each role is in the list
    perms,  \* permissions of each role: how often each of them is in the list
    order   \* the table of user patterns, in search order

userVars == <<roles, perms, order>>

UserTypeOK ==
    /\ roles \in [AnyUser -> [AnyRole -> 0..MaxCalls]]
    /\ perms \in [AnyRole -> [Target -> 0..MaxCalls]]
    /\ Range(order) \subseteq Pattern

\* The patterns that a List request finds.
HmcUserPatterns == {p \in Pattern : Lives(p)}

UserInit ==
    /\ roles = [u \in AnyUser |-> [r \in AnyRole |-> 0]]
    /\ perms = [r \in AnyRole |-> [t \in Target |-> 0]]
    /\ order \in SetToSeqs(HmcUserPatterns)

--------------------------------------------------------------------------------
(* Users: the handlers of the mock HMC *)

HmcUsers == {u \in AnyUser : Lives(u)}

HmcCreateUser(u, v) == u \in AnyUser /\ HmcAdd(u, v)
HmcUpdateUser(u, v) == u \in AnyUser /\ HmcUpdate(u, v)

\* A pattern-based user cannot be deleted.
HmcDeleteUser(u) == u \in User /\ HmcDelete(u)

\* The list may get the role a second time.  The type of the user and the existence of
\* the role are checked.
HmcAddUserRole(u, r) ==
    /\ u \in User /\ Lives(u) /\ Lives(r)
    /\ roles' = [roles EXCEPT ![u][r] = @ + 1]

\* One of them is taken away.  A role that is deleted is not found, and stays in the list
\* for ever.
HmcRemoveUserRole(u, r) ==
    /\ u \in User /\ Lives(u) /\ Lives(r)
    /\ roles[u][r] > 0
    /\ roles' = [roles EXCEPT ![u][r] = @ - 1]

(* Users: the methods of the client *)

ListUsers(c, u, full) == u \in HmcUsers /\ ListObj(c, u, full) /\ UNCHANGED userVars

CreateUser(c, u) == UNCHANGED userVars /\ \E v \in Val : HmcCreateUser(u, v) /\ CreateObj(c, u, v)
UpdateUser(c, u) == UNCHANGED userVars /\ \E v \in Val : HmcUpdateUser(u, v) /\ UpdateObj(c, u, v)
DeleteUser(c, u) == HmcDeleteUser(u) /\ DeleteObj(c, u) /\ UNCHANGED userVars

AddUserRole(c, u) ==
    /\ UseObj(c, u)
    /\ \E r \in AnyRole : Holds(c, r) /\ HmcAddUserRole(u, r)
    /\ UNCHANGED <<perms, order>>

RemoveUserRole(c, u) ==
    /\ UseObj(c, u)
    /\ \E r \in AnyRole : Holds(c, r) /\ HmcRemoveUserRole(u, r)
    /\ UNCHANGED <<perms, order>>

--------------------------------------------------------------------------------
(* User roles: the handlers of the mock HMC *)

HmcUserRoles == {r \in AnyRole : Lives(r)}

\* A request that does not name an associated system-defined role needs the default one.
HmcCreateUserRole(r, v) ==
    /\ r \in Role
    /\ \E named \in BOOLEAN : named \/ \E s \in SystemRole : Lives(s)
    /\ HmcAdd(r, v)

HmcUpdateUserRole(r, v) == r \in AnyRole /\ HmcUpdate(r, v)

\* Nothing keeps system-defined roles, or those that users have.
HmcDeleteUserRole(r) == r \in AnyRole /\ HmcDelete(r)

\* System-defined roles do not change their permissions.  The permitted object is not
\* looked up.
HmcAddPermission(r, t) ==
    /\ r \in Role /\ Lives(r)
    /\ perms' = [perms EXCEPT ![r][t] = @ + 1]

\* Faulty variant of HmcRemovePermission: the number goes down whether there is one or not.
HmcRemovePermissionUnchecked(r, t) ==
    /\ r \in Role /\ Lives(r)
    /\ perms' = [perms EXCEPT ![r][t] = @ - 1]

\* list.remove() raises ValueError when the role has no such permission.
HmcRemovePermission(r, t) ==
    /\ r \in Role /\ Lives(r)
    /\ perms[r][t] > 0
    /\ perms' = [perms EXCEPT ![r][t] = @ - 1]

(* User roles: the methods of the client *)

ListUserRoles(c, r, full) == r \in HmcUserRoles /\ ListObj(c, r, full) /\ UNCHANGED userVars

CreateUserRole(c, r) ==
    /\ UNCHANGED userVars
    /\ \E v \in Val : HmcCreateUserRole(r, v) /\ CreateObj(c, r, v)

UpdateUserRole(c, r) ==
    /\ UNCHANGED userVars
    /\ \E v \in Val : HmcUpdateUserRole(r, v) /\ UpdateObj(c, r, v)

DeleteUserRole(c, r) == HmcDeleteUserRole(r) /\ DeleteObj(c, r) /\ UNCHANGED userVars

AddPermission(c, r) ==
    /\ UseObj(c, r)
    /\ \E t \in Target : HmcAddPermission(r, t)
    /\ UNCHANGED <<roles, order>>

RemovePermission(c, r) ==
    /\ UseObj(c, r)
    /\ \E t \in Target : HmcRemovePermission(r, t)
    /\ UNCHANGED <<roles, order>>

--------------------------------------------------------------------------------
(* User patterns: the handlers of the mock HMC *)

HmcCreateUserPattern(p, v) ==
    /\ p \in Pattern /\ HmcAdd(p, v)
    /\ order' = Append(order, p)

HmcUpdateUserPattern(p, v) == p \in Pattern /\ HmcUpdate(p, v)

HmcDeleteUserPattern(p) ==
    /\ p \in Pattern /\ HmcDelete(p)
    /\ order' = RemoveFirst(order, p)

\* Faulty variant of Reordered: a pattern that is listed twice is added twice.
ReorderedTwice(ps) ==
    FoldLeft(LAMBDA t, p : Append(t, p), SelectSeq(order, LAMBDA p : p \notin Range(ps)), ps)

\* Each pattern in turn is taken from its place and added to the end, up to the first that
\* does not exist (KeyError); the others are then in front of it.
Reordered(ps) ==
    LET t[i \in 0..Len(ps)] ==
            IF i = 0 THEN [seq |-> order, ok |-> TRUE]
            ELSE IF t[i - 1].ok /\ Lives(ps[i])
                    THEN [t[i - 1] EXCEPT !.seq = Append(RemoveFirst(@, ps[i]), ps[i])]
                    ELSE [t[i - 1] EXCEPT !.ok = FALSE]
    IN  t[Len(ps)].seq

(* User patterns: the methods of the client *)

ListUserPatterns(c, p, full) == p \in HmcUserPatterns /\ ListObj(c, p, full) /\ UNCHANGED userVars

CreateUserPattern(c, p) ==
    /\ UNCHANGED <<roles, perms>>
    /\ \E v \in Val : HmcCreateUserPattern(p, v) /\ CreateObj(c, p, v)

UpdateUserPattern(c, p) ==
    /\ UNCHANGED userVars
    /\ \E v \in Val : HmcUpdateUserPattern(p, v) /\ UpdateObj(c, p, v)

DeleteUserPattern(c, p) == HmcDeleteUserPattern(p) /\ DeleteObj(c, p) /\ UNCHANGED <<roles, perms>>

PatternList == BoundedSeq(Pattern, MaxReorder)

ReorderUserPatterns(c) ==
    /\ Begin
    /\ \E ps \in PatternList :
          /\ \A p \in Range(ps) : Holds(c, p)
          /\ order' = Reordered(ps)
    /\ UNCHANGED <<obj, copies, differs, overruled, roles, perms>>

--------------------------------------------------------------------------------
(* Password rules *)

HmcPasswordRules            == {w \in Rule : Lives(w)}
HmcCreatePasswordRule(w, v) == w \in Rule /\ HmcAdd(w, v)
HmcUpdatePasswordRule(w, v) == w \in Rule /\ HmcUpdate(w, v)
HmcDeletePasswordRule(w)    == w \in Rule /\ HmcDelete(w)

ListPasswordRules(c, w, full) == w \in HmcPasswordRules /\ ListObj(c, w, full) /\ UNCHANGED userVars

CreatePasswordRule(c, w) ==
    /\ UNCHANGED userVars
    /\ \E v \in Val : HmcCreatePasswordRule(w, v) /\ CreateObj(c, w, v)

UpdatePasswordRule(c, w) ==
    /\ UNCHANGED userVars
    /\ \E v \in Val : HmcUpdatePasswordRule(w, v) /\ UpdateObj(c, w, v)

DeletePasswordRule(c, w) == HmcDeletePasswordRule(w) /\ DeleteObj(c, w) /\ UNCHANGED userVars

--------------------------------------------------------------------------------
UserStep(c, o) ==
    \/ /\ o \in AnyUser
       /\ \/ CreateUser(c, o) \/ UpdateUser(c, o) \/ DeleteUser(c, o)
          \/ AddUserRole(c, o) \/ RemoveUserRole(c, o)
          \/ \E full \in BOOLEAN : ListUsers(c, o, full)
    \/ /\ o \in AnyRole
       /\ \/ CreateUserRole(c, o) \/ UpdateUserRole(c, o) \/ DeleteUserRole(c, o)
          \/ AddPermission(c, o) \/ RemovePermission(c, o)
          \/ \E full \in BOOLEAN : ListUserRoles(c, o, full)
    \/ /\ o \in Pattern
       /\ \/ CreateUserPattern(c, o) \/ UpdateUserPattern(c, o) \/ DeleteUserPattern(c, o)
          \/ \E full \in BOOLEAN : ListUserPatterns(c, o, full)
    \/ /\ o \in Rule
       /\ \/ CreatePasswordRule(c, o) \/ UpdatePasswordRule(c, o) \/ DeletePasswordRule(c, o)
          \/ \E full \in BOOLEAN : ListPasswordRules(c, o, full)

(* Properties *)

\* The search order has each user pattern exactly once, also after a reordering that names
\* patterns twice or patterns that another client has deleted.
SearchOrderComplete == IsInjective(order) /\ Range(order) = HmcUserPatterns
================================================================================
