------------------------------ MODULE Accounts ------------------------------
(***************************************************************************)
(* Roles and permissions: RoleManagementService replaces the UserRole rows *)
(* of a user in a Serializable transaction that keeps one admin, and then  *)
(* mirrors them into Keycloak, whose tokens are what PermissionsGuard      *)
(* decides by; EffectivePermissionsService shows what the rows say.        *)
(***************************************************************************)
EXTENDS Integers, FiniteSets

CONSTANTS
    Users,          \* Keycloak users; every caller is one
    Roles,          \* Role.name, known to Keycloak as well
    Permits,        \* for one action on one subject: what each role's Permission says
    RoleSets,       \* bound: the sets of roles that are asked for
    Overrides,      \* bound: the values overrides are given
    FirstRoles,     \* the roles of the seed, in both places
    NoCall

RoleCall == [user : Users, want : SUBSET Roles, at : {"tx", "list", "add", "remove"},
             seen : [Users -> SUBSET Roles], add : SUBSET Roles, remove : SUBSET Roles]

ASSUME AccountAssumption ==
    /\ "admin" \in Roles
    /\ Permits \in [Roles -> {"can", "cannot", "none"}]
    /\ FirstRoles \in [Users -> SUBSET Roles]
    /\ \E u \in Users : "admin" \in FirstRoles[u]
    /\ RoleSets \subseteq SUBSET Roles /\ Overrides \subseteq {"none", "grant", "deny"}
    /\ NoCall \notin RoleCall

VARIABLES
    userRole,       \* UserRole
    realmRole,      \* realm-role mappings in Keycloak
    enabled,        \* users Keycloak lets in
    adminTokens,    \* users who hold an access token with the role admin
    override,       \* PermissionOverride for the action
    roleCall,       \* updateUserRoles under way, by caller
    aux_stale       \* auxiliary: users whose last mirror-write failed or met another

accountVars == <<userRole, realmRole, enabled, adminTokens, override, roleCall, aux_stale>>

AccountInit ==
    /\ userRole = FirstRoles /\ realmRole = FirstRoles /\ enabled = Users
    /\ adminTokens = {} /\ override = [u \in Users |-> "none"]
    /\ roleCall = [u \in Users |-> NoCall] /\ aux_stale = {}
-----------------------------------------------------------------------------
(* Keycloak: a token carries the roles of the moment, until it expires.    *)
Login(u) ==
    /\ u \in enabled
    /\ adminTokens' = IF "admin" \in realmRole[u] THEN adminTokens \cup {u} ELSE adminTokens \ {u}
    /\ UNCHANGED <<userRole, realmRole, enabled, override, roleCall, aux_stale>>

TokenExpires(u) ==
    /\ u \in adminTokens
    /\ adminTokens' = adminTokens \ {u}
    /\ UNCHANGED <<userRole, realmRole, enabled, override, roleCall, aux_stale>>

SetEnabled(c, u) ==
    /\ c \in adminTokens
    /\ enabled' = (enabled \ {u}) \cup ({u} \ enabled)
    /\ UNCHANGED <<userRole, realmRole, adminTokens, override, roleCall, aux_stale>>

(* create (refused if there is one), update, delete.                       *)
SetOverride(c, u, o) ==
    /\ c \in adminTokens
    /\ override[u] # o
    /\ override' = [override EXCEPT ![u] = o]
    /\ UNCHANGED <<userRole, realmRole, enabled, adminTokens, roleCall, aux_stale>>
-----------------------------------------------------------------------------
(* updateUserRoles: the transaction begins ...                             *)
BeginRoles(c, u, want) ==
    /\ c \in adminTokens
    /\ roleCall[c] = NoCall
    /\ roleCall' = [roleCall EXCEPT ![c] = [user |-> u, want |-> want, at |-> "tx",
                        seen |-> userRole, add |-> {}, remove |-> {}]]
    /\ UNCHANGED <<userRole, realmRole, enabled, adminTokens, override, aux_stale>>

Replaced(c) == [roleCall[c].seen EXCEPT ![roleCall[c].user] = roleCall[c].want]
Admins(rows) == {u \in Users : "admin" \in rows[u]}
InTx(c) == roleCall[c] # NoCall /\ roleCall[c].at = "tx"
Others(c) == {d \in Users \ {c} : roleCall[d] # NoCall /\ roleCall[d].at # "tx"
                                   /\ roleCall[d].user = roleCall[c].user}

Commits(c) ==
    /\ Admins(Replaced(c)) # {}
    /\ userRole' = [userRole EXCEPT ![roleCall[c].user] = roleCall[c].want]
    /\ roleCall' = [roleCall EXCEPT ![c].at = "list"]
    /\ aux_stale' = IF Others(c) = {} THEN aux_stale \ {roleCall[c].user}
                    ELSE aux_stale \cup {roleCall[c].user}
    /\ UNCHANGED <<realmRole, enabled, adminTokens, override>>

CommitReadCommitted(c) == InTx(c) /\ Commits(c)  \* mutant: no Serializable

(* ... commits if no other changed what it has read and counted ...        *)
CommitRoles(c) == InTx(c) /\ userRole = roleCall[c].seen /\ Commits(c)

(* ... or is rolled back: a serialisation failure, the last-admin guard.   *)
AbortRoles(c) ==
    /\ InTx(c)
    /\ userRole # roleCall[c].seen \/ Admins(Replaced(c)) = {}
    /\ roleCall' = [roleCall EXCEPT ![c] = NoCall]
    /\ UNCHANGED <<userRole, realmRole, enabled, adminTokens, override, aux_stale>>

(* The mirror-write: read the mappings, add, remove; a failure is logged.  *)
ListMappings(c) ==
    LET call == roleCall[c]
    IN  /\ call # NoCall /\ call.at = "list"
        /\ roleCall' = [roleCall EXCEPT ![c] = [call EXCEPT !.at = "add",
               !.add = call.want \ realmRole[call.user], !.remove = realmRole[call.user] \ call.want]]
        /\ UNCHANGED <<userRole, realmRole, enabled, adminTokens, override, aux_stale>>

AddMappings(c) ==
    LET call == roleCall[c]
    IN  /\ call # NoCall /\ call.at = "add"
        /\ realmRole' = [realmRole EXCEPT ![call.user] = @ \cup call.add]
        /\ roleCall' = [roleCall EXCEPT ![c].at = "remove"]
        /\ UNCHANGED <<userRole, enabled, adminTokens, override, aux_stale>>

RemoveNothing(c) ==                     \* mutant: the mirror-write only adds
    /\ roleCall[c] # NoCall /\ roleCall[c].at = "remove"
    /\ roleCall' = [roleCall EXCEPT ![c] = NoCall]
    /\ UNCHANGED <<userRole, realmRole, enabled, adminTokens, override, aux_stale>>

RemoveMappings(c) ==
    LET call == roleCall[c]
    IN  /\ call # NoCall /\ call.at = "remove"
        /\ realmRole' = [realmRole EXCEPT ![call.user] = @ \ call.remove]
        /\ roleCall' = [roleCall EXCEPT ![c] = NoCall]
        /\ UNCHANGED <<userRole, enabled, adminTokens, override, aux_stale>>

KeycloakFails(c) ==
    /\ roleCall[c] # NoCall /\ roleCall[c].at # "tx"
    /\ roleCall' = [roleCall EXCEPT ![c] = NoCall]
    /\ aux_stale' = aux_stale \cup {roleCall[c].user}
    /\ UNCHANGED <<userRole, realmRole, enabled, adminTokens, override>>

UpdateRoles(c) ==
    \/ \E u \in Users, want \in RoleSets : BeginRoles(c, u, want)
    \/ CommitRoles(c) \/ AbortRoles(c)
    \/ ListMappings(c) \/ AddMappings(c) \/ RemoveMappings(c) \/ KeycloakFails(c)

AccountNext ==
    \E c \in Users :
        \/ Login(c) \/ TokenExpires(c) \/ UpdateRoles(c)
        \/ \E u \in Users : SetEnabled(c, u) \/ \E o \in Overrides : SetOverride(c, u, o)

AccountSpec == AccountInit /\ [][AccountNext]_accountVars
-----------------------------------------------------------------------------
(* CaslAbilityFactory and EffectivePermissionsService build the same rules *)
(* from roles: the roles' permissions, then the override, which wins.      *)
Rules(roles, o) ==
    {[by |-> r, says |-> Permits[r]] : r \in {q \in roles : Permits[q] # "none"}}
        \cup (IF o = "none" THEN {} ELSE {[by |-> "override", says |-> o]})

(* What PermissionsGuard may answer: the last rule counts, and among the   *)
(* roles' permissions, read without an order, any may be the last.         *)
Answers(roles, o) ==
    CASE o # "none"            -> {o = "grant"}
      [] Rules(roles, o) = {}  -> {FALSE}
      [] OTHER                 -> {r.says = "can" : r \in Rules(roles, o)}

(* Types.                                                                  *)
AccountTypeOK ==
    /\ userRole \in [Users -> SUBSET Roles] /\ realmRole \in [Users -> SUBSET Roles]
    /\ enabled \subseteq Users /\ override \in [Users -> {"none", "grant", "deny"}]
    /\ adminTokens \subseteq Users
    /\ roleCall \in [Users -> RoleCall \cup {NoCall}]
    /\ aux_stale \subseteq Users

(* "after every UserRole write, the total count of users with the admin    *)
(* role must remain >= 1", two admins who demote each other included.      *)
LastAdmin == Admins(userRole) # {}

(* "no drift between what the user can do and what the admin sees": once   *)
(* the mirror-write of a user's last change went through by itself, the    *)
(* guard's rules under a new token are the rules shown.                    *)
ShownIsDecided ==
    \A u \in Users \ aux_stale :
        (\A c \in Users : roleCall[c] = NoCall \/ InTx(c) \/ roleCall[c].user # u) =>
            Rules(realmRole[u], override[u]) = Rules(userRole[u], override[u])

(* "admins re-applying the same role set reconciles": somebody can.        *)
SomeoneCanReapply == \E u \in enabled : "admin" \in realmRole[u]
=============================================================================
