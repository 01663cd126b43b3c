---------------------------- MODULE AccessProofs ----------------------------
(***************************************************************************)
(* What holds of account links, roles and bookings for any number of       *)
(* persons, users, rooms and callers; and, with what is proved of imports  *)
(* and of data protection, of the whole office.                            *)
(***************************************************************************)
EXTENDS MCBackOffice, ImportProofs, RecordsProofs, TLAPS

-----------------------------------------------------------------------------
(* PersonLinks.                                                            *)

(* A link call past its checks finds its person still free or still its    *)
(* user's, unless another call for the person wrote in the meantime, and   *)
(* that write saw this call.                                               *)
LinkInv ==
    /\ LinkTypeOK
    /\ LinkNotStolen
    /\ \A c \in Clerks :
          linkCall[c] # Nobody /\ linkCall[c].op = "link"
              => \/ owner[linkCall[c].person] \in {Nobody, linkCall[c].user}
                 \/ linkCall[c].person \in aux_met

(* Checks write nothing but the call.                                      *)
LEMMA LinkChecksKeep ==
    ASSUME LinkInv, NEW c \in Clerks, NEW u \in Logins, NEW p \in Persons,
           CheckLink(c, u, p) \/ CheckUnlink(c, u, p)
    PROVE  LinkInv'
<1> DEFINE new == linkCall'[c]
<1>1. /\ linkCall' = [linkCall EXCEPT ![c] = new] /\ new \in Call
      /\ UNCHANGED <<owner, aux_taken, aux_met>>
      /\ new.op = "link" => owner[new.person] \in {Nobody, new.user}
    BY DEF LinkInv, LinkTypeOK, CheckLink, CheckUnlink, Linkable, Call
<1> HIDE DEF new
<1>2. LinkTypeOK' /\ LinkNotStolen'
    BY <1>1 DEF LinkInv, LinkTypeOK, LinkNotStolen
<1>3. \A d \in Clerks : linkCall'[d] = IF d = c THEN new ELSE linkCall[d]
    BY <1>1 DEF LinkInv, LinkTypeOK
<1>4. QED
    BY <1>1, <1>2, <1>3 DEF LinkInv

(* The write of a link meets every other call for the same person.         *)
LEMMA WriteLinkKeeps ==
    ASSUME LinkInv, NEW c \in Clerks, WriteLink(c)
    PROVE  LinkInv'
<1> DEFINE u == linkCall[c].user
           p == linkCall[c].person
<1>1. u \in Logins /\ p \in Persons /\ linkCall[c] # Nobody /\ u # Nobody
      /\ linkCall[c].op = "link"
    BY LinkAssumption DEF LinkInv, LinkTypeOK, WriteLink, Call
<1>2. /\ linkCall' \in [Clerks -> Call \cup {Nobody}] /\ linkCall'[c] = Nobody
      /\ \A d \in Clerks \ {c} : linkCall'[d] = linkCall[d]
    BY DEF LinkInv, LinkTypeOK, WriteLink
<1>3. CASE \E q \in Persons \ {p} : owner[q] = u
    BY <1>2, <1>3 DEF LinkInv, LinkTypeOK, LinkNotStolen, WriteLink
<1>4. CASE \A q \in Persons \ {p} : owner[q] # u
  <2>1. /\ owner' = [owner EXCEPT ![p] = u]
        /\ aux_taken' = IF owner[p] \in {Nobody, u} THEN aux_taken ELSE aux_taken \cup {p}
        /\ aux_met' = IF Met(c) THEN aux_met \cup {p} ELSE aux_met
      BY <1>4 DEF WriteLink
  <2>2. LinkTypeOK'
      BY <1>1, <1>2, <1>4, <2>1 DEF LinkInv, LinkTypeOK
  <2>3. LinkNotStolen'
      BY <1>1, <2>1 DEF LinkInv, LinkNotStolen
  <2>4. ASSUME NEW d \in Clerks, linkCall'[d] # Nobody, linkCall'[d].op = "link"
        PROVE  \/ owner'[linkCall'[d].person] \in {Nobody, linkCall'[d].user}
               \/ linkCall'[d].person \in aux_met'
    <3>1. d # c /\ linkCall'[d] = linkCall[d] /\ linkCall[d] \in Call
        BY <1>2, <2>4 DEF LinkInv, LinkTypeOK
    <3>2. CASE linkCall[d].person = p
        BY <2>1, <2>4, <3>1, <3>2 DEF Met
    <3>3. CASE linkCall[d].person # p
      <4>1. owner'[linkCall[d].person] = owner[linkCall[d].person]
          BY <2>1, <3>1, <3>3 DEF LinkInv, LinkTypeOK, Call
      <4>2. QED
          BY <2>1, <2>4, <3>1, <4>1 DEF LinkInv
    <3>4. QED
        BY <3>2, <3>3
  <2>5. QED
      BY <2>2, <2>3, <2>4 DEF LinkInv
<1>5. QED
    BY <1>3, <1>4

(* An unlink frees its person, whatever the other calls have seen.         *)
LEMMA WriteUnlinkKeeps ==
    ASSUME LinkInv, NEW c \in Clerks, WriteUnlink(c)
    PROVE  LinkInv'
<1> DEFINE p == linkCall[c].person
<1>1. p \in Persons
    BY DEF LinkInv, LinkTypeOK, WriteUnlink, Call
<1>2. /\ owner' = [owner EXCEPT ![p] = Nobody]
      /\ linkCall' = [linkCall EXCEPT ![c] = Nobody]
      /\ UNCHANGED <<aux_taken, aux_met>>
    BY DEF WriteUnlink
<1>3. LinkTypeOK' /\ LinkNotStolen'
    BY <1>1, <1>2 DEF LinkInv, LinkTypeOK, LinkNotStolen
<1>4. \A d \in Clerks : linkCall'[d] \in {Nobody, linkCall[d]}
    BY <1>2 DEF LinkInv, LinkTypeOK
<1>5. \A q \in Persons : owner'[q] \in {Nobody, owner[q]}
    BY <1>1, <1>2 DEF LinkInv, LinkTypeOK
<1>6. \A d \in Clerks : linkCall[d] # Nobody => linkCall[d].person \in Persons
    BY DEF LinkInv, LinkTypeOK, Call
<1>7. QED
    BY <1>2, <1>3, <1>4, <1>5, <1>6 DEF LinkInv

(* Every behaviour of linkPerson and unlinkPerson, of any number of admins *)
(* at once, stays within LinkInv.                                          *)
THEOREM LinksCorrect == LinkSpec => []LinkInv
<1>1. LinkInit => LinkInv
    BY DEF LinkInit, LinkInv, LinkTypeOK, LinkNotStolen
<1>2. LinkInv /\ [LinkNext]_linkVars => LinkInv'
  <2> SUFFICES ASSUME LinkInv, [LinkNext]_linkVars PROVE LinkInv'
      OBVIOUS
  <2>1. CASE UNCHANGED linkVars
      BY <2>1 DEF LinkInv, LinkTypeOK, LinkNotStolen, linkVars
  <2>2. ASSUME NEW c \in Clerks, WriteLink(c) PROVE LinkInv'
      BY <2>2, WriteLinkKeeps
  <2>3. ASSUME NEW c \in Clerks, WriteUnlink(c) PROVE LinkInv'
      BY <2>3, WriteUnlinkKeeps
  <2>4. ASSUME NEW c \in Clerks, NEW u \in Logins, NEW p \in Persons,
               CheckLink(c, u, p) \/ CheckUnlink(c, u, p) PROVE LinkInv'
      BY <2>4, LinkChecksKeep
  <2>5. QED
      BY <2>1, <2>2, <2>3, <2>4 DEF LinkNext
<1>3. QED
    BY <1>1, <1>2, PTL DEF LinkSpec

(* The unique key [keycloakUserId, schoolId]: no user has two persons, and *)
(* the calls keep their types.                                             *)
THEOREM LinkTypesHold == LinkSpec => []LinkTypeOK
BY LinksCorrect, PTL DEF LinkInv

(* A person passes from one user to another without an unlink only where   *)
(* two calls for that person overlapped.                                   *)
THEOREM LinkIsNotStolen == LinkSpec => []LinkNotStolen
BY LinksCorrect, PTL DEF LinkInv

-----------------------------------------------------------------------------
(* Accounts.                                                               *)

(* Calls whose transaction for user u has committed and whose mirror-write *)
(* is not over.                                                            *)
Mirroring(c, u) == roleCall[c] # NoCall /\ ~ InTx(c) /\ roleCall[c].user = u

(* What the mirror-write of a user's last change still has to do, if no    *)
(* failure and no other mirror-write came in between.                      *)
OnCourse(u) ==
    /\ \A c, d \in Users : Mirroring(c, u) /\ Mirroring(d, u) => c = d
    /\ (\A c \in Users : ~ Mirroring(c, u)) => realmRole[u] = userRole[u]
    /\ \A c \in Users : Mirroring(c, u) =>
          /\ roleCall[c].want = userRole[u]
          /\ roleCall[c].at = "add" =>
                (realmRole[u] \cup roleCall[c].add) \ roleCall[c].remove = roleCall[c].want
          /\ roleCall[c].at = "remove" =>
                realmRole[u] \ roleCall[c].remove = roleCall[c].want

AccountInv ==
    /\ AccountTypeOK
    /\ LastAdmin
    /\ \A u \in Users \ aux_stale : OnCourse(u)

(* Steps of Keycloak and of the settings touch no roles.                   *)
LEMMA SameRoles ==
    ASSUME AccountInv, UNCHANGED <<userRole, realmRole, roleCall, aux_stale>>,
           enabled' \subseteq Users, adminTokens' \subseteq Users,
           override' \in [Users -> {"none", "grant", "deny"}]
    PROVE  AccountInv'
<1>1. AccountTypeOK' /\ LastAdmin'
    BY DEF AccountInv, AccountTypeOK, LastAdmin, Admins
<1>2. \A u \in Users \ aux_stale' : OnCourse(u)'
    BY DEF AccountInv, OnCourse, Mirroring, InTx
<1>3. QED
    BY <1>1, <1>2 DEF AccountInv

(* A call that begins, is rolled back or gives up is no mirror-write; a    *)
(* user whose mirror-write gave up is stale.                               *)
LEMMA CallKeeps ==
    ASSUME AccountInv, NEW c \in Users, NEW new \in RoleCall \cup {NoCall},
           roleCall' = [roleCall EXCEPT ![c] = new],
           new = NoCall \/ new.at = "tx",
           UNCHANGED <<userRole, realmRole, enabled, adminTokens, override>>,
           aux_stale \subseteq aux_stale', aux_stale' \subseteq Users,
           roleCall[c] = NoCall \/ InTx(c) \/ roleCall[c].user \in aux_stale'
    PROVE  AccountInv'
<1>1. AccountTypeOK' /\ LastAdmin'
    BY DEF AccountInv, AccountTypeOK, LastAdmin, Admins
<1>2. ASSUME NEW u \in Users \ aux_stale' PROVE OnCourse(u)'
  <2>1. \A d \in Users : roleCall'[d] = IF d = c THEN new ELSE roleCall[d]
      BY DEF AccountInv, AccountTypeOK
  <2>2. \A d \in Users : Mirroring(d, u)' <=> Mirroring(d, u)
      BY <1>2, <2>1 DEF Mirroring, InTx
  <2>3. \A d \in Users : Mirroring(d, u) => roleCall'[d] = roleCall[d]
      BY <1>2, <2>1 DEF Mirroring, InTx
  <2>4. OnCourse(u)
      BY <1>2 DEF AccountInv
  <2>5. QED
      BY <2>2, <2>3, <2>4 DEF OnCourse
<1>3. QED
    BY <1>1, <1>2 DEF AccountInv

(* A serializable transaction counts the admins of what it writes: those   *)
(* it saw are those there are.                                             *)
LEMMA CommitKeeps ==
    ASSUME AccountInv, NEW c \in Users, CommitRoles(c)
    PROVE  AccountInv'
<1> DEFINE t == roleCall[c].user
           want == roleCall[c].want
<1>1. roleCall[c] \in RoleCall /\ t \in Users /\ want \in SUBSET Roles
    BY DEF AccountInv, AccountTypeOK, CommitRoles, InTx, RoleCall
<1>2. /\ userRole' = [userRole EXCEPT ![t] = want]
      /\ roleCall' = [roleCall EXCEPT ![c].at = "list"]
      /\ aux_stale' = IF Others(c) = {} THEN aux_stale \ {t} ELSE aux_stale \cup {t}
      /\ UNCHANGED <<realmRole, enabled, adminTokens, override>>
    BY DEF CommitRoles, Commits
<1>3. LastAdmin'
    BY <1>1, <1>2 DEF LastAdmin, Admins, CommitRoles, Commits, Replaced
<1>4. /\ roleCall'[c] = [roleCall[c] EXCEPT !.at = "list"] /\ roleCall'[c] \in RoleCall
      /\ \A d \in Users \ {c} : roleCall'[d] = roleCall[d]
    BY <1>1, <1>2 DEF AccountInv, AccountTypeOK, RoleCall
<1>5. AccountTypeOK'
    BY <1>1, <1>2, <1>4 DEF AccountInv, AccountTypeOK
<1>6. ASSUME NEW u \in Users \ aux_stale' PROVE OnCourse(u)'
  <2>1. CASE u = t
    <3>1. Others(c) = {}
        BY <1>2, <1>6, <2>1
    <3>2. \A d \in Users \ {c} : ~ Mirroring(d, u)'
        BY <1>4, <2>1, <3>1 DEF Others, Mirroring, InTx
    <3>3. userRole'[u] = want
        BY <1>1, <1>2, <2>1 DEF AccountInv, AccountTypeOK
    <3>4. roleCall'[c].at = "list" /\ roleCall'[c].want = want /\ roleCall'[c].user = u
        BY <1>1, <1>4, <2>1 DEF RoleCall
    <3>5. Mirroring(c, u)' \/ roleCall'[c] = NoCall
        BY <3>4 DEF Mirroring, InTx
    <3>6. roleCall'[c] # NoCall
        BY <1>4, AccountAssumption
    <3>7. QED
        BY <3>2, <3>3, <3>4, <3>5, <3>6 DEF OnCourse
  <2>2. CASE u # t
    <3>1. u \notin aux_stale /\ OnCourse(u)
        BY <1>2, <1>6, <2>2 DEF AccountInv
    <3>2. \A d \in Users : Mirroring(d, u)' <=> Mirroring(d, u)
      <4>1. ~ Mirroring(c, u)' /\ ~ Mirroring(c, u)
          BY <1>1, <1>4, <2>2 DEF Mirroring, RoleCall
      <4>2. \A d \in Users \ {c} : Mirroring(d, u)' <=> Mirroring(d, u)
          BY <1>4 DEF Mirroring, InTx
      <4>3. QED
          BY <4>1, <4>2
    <3>3. \A d \in Users : Mirroring(d, u) => roleCall'[d] = roleCall[d]
        BY <1>4, <2>2 DEF Mirroring
    <3>4. userRole'[u] = userRole[u]
        BY <1>2, <2>2 DEF AccountInv, AccountTypeOK
    <3>5. QED
        BY <1>2, <3>1, <3>2, <3>3, <3>4 DEF OnCourse
  <2>3. QED
      BY <2>1, <2>2
<1>7. QED
    BY <1>3, <1>5, <1>6 DEF AccountInv

(* The mirror-write reads, adds and removes; while it is the only one of   *)
(* its user, what it read is still there.                                  *)
LEMMA MirrorKeeps ==
    ASSUME AccountInv, NEW c \in Users,
           ListMappings(c) \/ AddMappings(c) \/ RemoveMappings(c)
    PROVE  AccountInv'
<1> DEFINE t == roleCall[c].user
           want == roleCall[c].want
<1>1. roleCall[c] \in RoleCall /\ t \in Users /\ Mirroring(c, t) /\ ~ InTx(c)
    BY DEF AccountInv, AccountTypeOK, ListMappings, AddMappings, RemoveMappings, RoleCall,
           Mirroring, InTx
<1>2. /\ UNCHANGED <<userRole, enabled, adminTokens, override, aux_stale>>
      /\ realmRole' \in [Users -> SUBSET Roles]
      /\ \A u \in Users \ {t} : realmRole'[u] = realmRole[u]
      /\ \A d \in Users \ {c} : roleCall'[d] = roleCall[d]
      /\ roleCall'[c] = NoCall \/ roleCall'[c] \in RoleCall
      /\ roleCall'[c] # NoCall => /\ roleCall'[c].user = t
                                  /\ roleCall'[c].want = roleCall[c].want
                                  /\ roleCall'[c].at # "tx"
      /\ roleCall' \in [Users -> RoleCall \cup {NoCall}]
  <2>1. /\ realmRole \in [Users -> SUBSET Roles]
        /\ roleCall \in [Users -> RoleCall \cup {NoCall}]
      BY DEF AccountInv, AccountTypeOK
  <2>2. CASE ListMappings(c)
    <3> DEFINE new == [roleCall[c] EXCEPT !.at = "add",
               !.add = want \ realmRole[t], !.remove = realmRole[t] \ want]
    <3>1. roleCall' = [roleCall EXCEPT ![c] = new]
          /\ UNCHANGED <<userRole, realmRole, enabled, adminTokens, override, aux_stale>>
        BY <2>2 DEF ListMappings
    <3>2. new \in RoleCall /\ new.user = t /\ new.want = want /\ new.at = "add"
        BY <1>1, <2>1 DEF RoleCall
    <3> HIDE DEF new
    <3>3. QED
        BY <2>1, <3>1, <3>2
  <2>3. CASE AddMappings(c)
    <3> DEFINE new == [roleCall[c] EXCEPT !.at = "remove"]
    <3>1. roleCall' = [roleCall EXCEPT ![c] = new]
          /\ realmRole' = [realmRole EXCEPT ![t] = @ \cup roleCall[c].add]
          /\ UNCHANGED <<userRole, enabled, adminTokens, override, aux_stale>>
        BY <1>1, <2>1, <2>3 DEF AddMappings
    <3>2. new \in RoleCall /\ new.user = t /\ new.want = want /\ new.at = "remove"
        BY <1>1 DEF RoleCall
    <3>3. roleCall[c].add \in SUBSET Roles
        BY <1>1 DEF RoleCall
    <3> HIDE DEF new
    <3>4. QED
        BY <1>1, <2>1, <3>1, <3>2, <3>3
  <2>4. CASE RemoveMappings(c)
      BY <1>1, <2>1, <2>4 DEF RemoveMappings
  <2>5. QED
      BY <2>2, <2>3, <2>4
<1>3. AccountTypeOK' /\ LastAdmin'
    BY <1>2 DEF AccountInv, AccountTypeOK, LastAdmin, Admins
<1>4. ASSUME NEW u \in Users \ aux_stale' PROVE OnCourse(u)'
  <2>1. OnCourse(u)
      BY <1>2, <1>4 DEF AccountInv
  <2>2. CASE u # t
    <3>1. \A d \in Users : Mirroring(d, u)' <=> Mirroring(d, u)
        BY <1>2, <2>2 DEF Mirroring, InTx
    <3>2. \A d \in Users : Mirroring(d, u) => roleCall'[d] = roleCall[d]
        BY <1>2, <2>2 DEF Mirroring
    <3>3. QED
        BY <1>2, <2>1, <2>2, <3>1, <3>2 DEF OnCourse
  <2>3. CASE u = t
    <3>1. \A d \in Users \ {c} : ~ Mirroring(d, u) /\ ~ Mirroring(d, u)'
      <4>1. \A d \in Users \ {c} : ~ Mirroring(d, u)
          BY <1>1, <2>1, <2>3 DEF OnCourse
      <4>2. QED
          BY <1>2, <4>1 DEF Mirroring, InTx
    <3>2. roleCall[c].want = userRole[t]
        BY <1>1, <2>1, <2>3 DEF OnCourse
    <3>3. CASE ListMappings(c)
      <4>1. /\ roleCall'[c].add = roleCall[c].want \ realmRole[t]
            /\ roleCall'[c].remove = realmRole[t] \ roleCall[c].want
            /\ roleCall'[c].at = "add" /\ roleCall'[c] \in RoleCall
            /\ realmRole' = realmRole
          BY <1>1, <3>3 DEF ListMappings, AccountInv, AccountTypeOK, RoleCall
      <4>2. (realmRole[t] \cup roleCall'[c].add) \ roleCall'[c].remove = roleCall[c].want
          BY <4>1
      <4>3. roleCall'[c] # NoCall
          BY <4>1, AccountAssumption
      <4>4. Mirroring(c, u)'
          BY <1>2, <2>3, <4>1, <4>3 DEF Mirroring, InTx
      <4>5. QED
          BY <1>2, <2>3, <3>1, <3>2, <4>1, <4>2, <4>3, <4>4 DEF OnCourse
    <3>4. CASE AddMappings(c)
      <4>1. /\ roleCall'[c] = [roleCall[c] EXCEPT !.at = "remove"]
            /\ realmRole'[t] = realmRole[t] \cup roleCall[c].add
          BY <1>1, <3>4 DEF AddMappings, AccountInv, AccountTypeOK
      <4>2. (realmRole[t] \cup roleCall[c].add) \ roleCall[c].remove = roleCall[c].want
          BY <1>1, <2>1, <2>3, <3>4 DEF OnCourse, AddMappings
      <4>3. roleCall'[c].at = "remove" /\ roleCall'[c].remove = roleCall[c].remove
            /\ roleCall'[c].want = roleCall[c].want /\ roleCall'[c].user = t
          BY <1>1, <4>1 DEF RoleCall
      <4>4. realmRole'[u] \ roleCall'[c].remove = roleCall'[c].want
          BY <2>3, <4>1, <4>2, <4>3
      <4>5. roleCall'[c] # NoCall
          BY <1>1, <4>1, AccountAssumption DEF RoleCall
      <4>6. Mirroring(c, u)'
          BY <2>3, <4>3, <4>5 DEF Mirroring, InTx
      <4>7. QED
          BY <1>2, <2>3, <3>1, <3>2, <4>3, <4>4, <4>6 DEF OnCourse
    <3>5. CASE RemoveMappings(c)
      <4>1. /\ roleCall'[c] = NoCall
            /\ realmRole'[t] = realmRole[t] \ roleCall[c].remove
          BY <1>1, <3>5 DEF RemoveMappings, AccountInv, AccountTypeOK
      <4>2. realmRole[t] \ roleCall[c].remove = roleCall[c].want
          BY <1>1, <2>1, <2>3, <3>5 DEF OnCourse, RemoveMappings
      <4>3. \A d \in Users : ~ Mirroring(d, u)'
          BY <3>1, <4>1 DEF Mirroring
      <4>4. QED
          BY <1>2, <2>3, <3>2, <4>1, <4>2, <4>3 DEF OnCourse
    <3>6. QED
        BY <3>3, <3>4, <3>5
  <2>4. QED
      BY <2>2, <2>3
<1>5. QED
    BY <1>3, <1>4 DEF AccountInv

(* Every behaviour of role changes and mirror-writes stays within          *)
(* AccountInv.                                                             *)
THEOREM AccountsCorrect == AccountSpec => []AccountInv
<1>1. AccountInit => AccountInv
  <2> SUFFICES ASSUME AccountInit PROVE AccountInv
      OBVIOUS
  <2>1. AccountTypeOK /\ LastAdmin
      BY AccountAssumption DEF AccountInit, AccountTypeOK, LastAdmin, Admins
  <2>2. \A u \in Users : OnCourse(u)
      BY DEF AccountInit, OnCourse, Mirroring
  <2>3. QED
      BY <2>1, <2>2 DEF AccountInv
<1>2. AccountInv /\ [AccountNext]_accountVars => AccountInv'
  <2> SUFFICES ASSUME AccountInv, [AccountNext]_accountVars PROVE AccountInv'
      OBVIOUS
  <2>1. AccountTypeOK
      BY DEF AccountInv
  <2>2. CASE UNCHANGED accountVars
      BY <2>1, <2>2, SameRoles DEF accountVars, AccountTypeOK
  <2>3. ASSUME NEW c \in Users, Login(c) \/ TokenExpires(c) PROVE AccountInv'
      BY <2>1, <2>3, SameRoles DEF Login, TokenExpires, AccountTypeOK
  <2>4. ASSUME NEW c \in Users, NEW u \in Users, SetEnabled(c, u) PROVE AccountInv'
      BY <2>1, <2>4, SameRoles DEF SetEnabled, AccountTypeOK
  <2>5. ASSUME NEW c \in Users, NEW u \in Users, NEW o \in Overrides, SetOverride(c, u, o)
        PROVE AccountInv'
      BY <2>1, <2>5, SameRoles, AccountAssumption DEF SetOverride, AccountTypeOK
  <2>6. ASSUME NEW c \in Users, NEW u \in Users, NEW want \in RoleSets, BeginRoles(c, u, want)
        PROVE AccountInv'
    <3> DEFINE new == [user |-> u, want |-> want, at |-> "tx", seen |-> userRole,
                       add |-> {}, remove |-> {}]
    <3>1. new \in RoleCall
        BY <2>1, AccountAssumption DEF RoleCall, AccountTypeOK
    <3>2. roleCall' = [roleCall EXCEPT ![c] = new] /\ roleCall[c] = NoCall /\ new.at = "tx"
          /\ UNCHANGED <<userRole, realmRole, enabled, adminTokens, override, aux_stale>>
        BY <2>6 DEF BeginRoles
    <3>3. aux_stale' \subseteq Users
        BY <2>1, <3>2 DEF AccountTypeOK
    <3> HIDE DEF new
    <3>4. QED
        BY <3>1, <3>2, <3>3, CallKeeps
  <2>7. ASSUME NEW c \in Users, CommitRoles(c) PROVE AccountInv'
      BY <2>7, CommitKeeps
  <2>8. ASSUME NEW c \in Users, AbortRoles(c) PROVE AccountInv'
    <3>1. InTx(c) /\ roleCall' = [roleCall EXCEPT ![c] = NoCall]
          /\ UNCHANGED <<userRole, realmRole, enabled, adminTokens, override, aux_stale>>
        BY <2>8 DEF AbortRoles
    <3>2. aux_stale' \subseteq Users
        BY <2>1, <3>1 DEF AccountTypeOK
    <3>3. QED
        BY <3>1, <3>2, CallKeeps
  <2>9. ASSUME NEW c \in Users, ListMappings(c) \/ AddMappings(c) \/ RemoveMappings(c)
        PROVE AccountInv'
      BY <2>9, MirrorKeeps
  <2>10. ASSUME NEW c \in Users, KeycloakFails(c) PROVE AccountInv'
    <3>1. roleCall' = [roleCall EXCEPT ![c] = NoCall]
          /\ aux_stale' = aux_stale \cup {roleCall[c].user}
          /\ UNCHANGED <<userRole, realmRole, enabled, adminTokens, override>>
        BY <2>10 DEF KeycloakFails
    <3>2. roleCall[c].user \in Users
        BY <2>1, <2>10 DEF AccountTypeOK, KeycloakFails, RoleCall
    <3>3. aux_stale' \subseteq Users
        BY <2>1, <3>1, <3>2 DEF AccountTypeOK
    <3>4. QED
        BY <3>1, <3>3, CallKeeps
  <2>11. QED
      BY <2>2, <2>3, <2>4, <2>5, <2>6, <2>7, <2>8, <2>9, <2>10 DEF AccountNext, UpdateRoles
<1>3. QED
    BY <1>1, <1>2, PTL DEF AccountSpec

(* Whatever the admins do to each other at once, the rows name an admin.   *)
THEOREM AdminRemains == AccountSpec => []LastAdmin
BY AccountsCorrect, PTL DEF AccountInv

(* A user whose last change was mirrored without a failure and without     *)
(* another in between is judged by the rules that are shown.               *)
THEOREM GuardFollowsRows == AccountSpec => []ShownIsDecided
<1>1. AccountInv => ShownIsDecided
  <2> SUFFICES ASSUME AccountInv, NEW u \in Users \ aux_stale,
                      \A c \in Users : roleCall[c] = NoCall \/ InTx(c) \/ roleCall[c].user # u
               PROVE  Rules(realmRole[u], override[u]) = Rules(userRole[u], override[u])
      BY DEF ShownIsDecided
  <2>1. \A c \in Users : ~ Mirroring(c, u)
      BY DEF Mirroring
  <2>2. realmRole[u] = userRole[u]
      BY <2>1 DEF AccountInv, OnCourse
  <2>3. QED
      BY <2>2
<1>2. QED
    BY <1>1, AccountsCorrect, PTL

-----------------------------------------------------------------------------
(* Bookings.                                                               *)

Waiting(u) == booking[u] # NoBooking
Raced(x, y) == Overlap(x, y) /\ x # y => {x, y} \in aux_raced
Later(x, h) == Overlap(x, h) => [booking |-> x, lesson |-> h] \in aux_later

(* A call that will not look into the active run any more.                 *)
Past(c) == c.at = "create" \/ (c.at = "lessons" /\ c.run # active)
BookingCall == [want : Booking, at : {"run", "create"}, run : Runs \cup {NoRun}]
           \cup [want : Booking, at : {"lessons"}, run : Runs]

(* What a call has checked stays true, or what came in between is on       *)
(* record: of bookings since the first check, of lessons since it looked   *)
(* into the run that is active.  A resource is never in a lesson, so a     *)
(* call for one skips those checks.                                        *)
BookingInv ==
    /\ BookingTypeOK
    /\ \A x, y \in bookings : Raced(x, y)
    /\ \A x \in bookings, h \in Held : Later(x, h)
    /\ \A u \in Bookers : Waiting(u) =>
          /\ \A y \in bookings : Raced(booking[u].want, y)
          /\ Past(booking[u]) => \A h \in Held : Later(booking[u].want, h)

(* The OR of the queries finds whatever overlaps.                          *)
LEMMA QueryFindsOverlap ==
    ASSUME NEW x \in Booking, NEW y \in Booking \cup Hour, Overlap(x, y)
    PROVE  Meets(x, y)
BY DEF Overlap, Meets, Booking, Hour, Weeks, Units

(* Rooms and resources are different things.                               *)
LEMMA NoLessonInResource ==
    ASSUME NEW x \in Booking, x.unit \notin Rooms, NEW h \in Hour
    PROVE  ~ Overlap(x, h)
BY DEF Overlap, Hour

(* The lessons in force are lessons.                                       *)
LEMMA HeldAreHours ==
    ASSUME BookingTypeOK
    PROVE  Held \subseteq Hour
BY BookingAssumption DEF BookingTypeOK, Held

(* A step that moves one call.                                             *)
LEMMA CallMoves ==
    ASSUME BookingInv, NEW u \in Bookers, NEW new \in BookingCall \cup {NoBooking},
           booking' = [booking EXCEPT ![u] = new],
           UNCHANGED <<bookings, hours, active, aux_raced, aux_later>>,
           new # NoBooking => /\ \A y \in bookings : Raced(new.want, y)
                              /\ Past(new) => \A h \in Held : Later(new.want, h)
    PROVE  BookingInv'
<1>1. BookingTypeOK
    BY DEF BookingInv
<1>2. BookingTypeOK'
    BY <1>1 DEF BookingTypeOK, BookingCall
<1>3. \A v \in Bookers : booking'[v] = IF v = u THEN new ELSE booking[v]
    BY <1>1 DEF BookingTypeOK
<1>4. Held' = Held /\ \A x, y : (Raced(x, y)' <=> Raced(x, y)) /\ (Later(x, y)' <=> Later(x, y))
    BY DEF Held, Raced, Later
<1>5. ASSUME NEW v \in Bookers, Waiting(v)'
      PROVE  /\ \A y \in bookings' : Raced(booking[v].want, y)'
             /\ Past(booking[v])' => \A h \in Held' : Later(booking[v].want, h)'
  <2>1. CASE v = u
      BY <1>3, <1>4, <1>5, <2>1 DEF Waiting, Past, Raced, Later
  <2>2. CASE v # u
    <3>1. booking'[v] = booking[v] /\ Waiting(v)
        BY <1>3, <1>5, <2>2 DEF Waiting
    <3>2. QED
        BY <1>4, <3>1 DEF BookingInv, Past, Raced, Later
  <2>3. QED
      BY <2>1, <2>2
<1>6. QED
    BY <1>2, <1>4, <1>5 DEF BookingInv

(* The checks write nothing but the call.                                  *)
LEMMA BookingChecksKeep ==
    ASSUME BookingInv, NEW u \in Bookers,
           \/ FindActiveRun(u) \/ CheckLessons(u)
           \/ \E unit \in Units, week \in Weeks : CheckBookings(u, unit, week)
    PROVE  BookingInv'
<1>1. BookingTypeOK /\ Held \subseteq Hour
    BY HeldAreHours DEF BookingInv
<1>2. CASE FindActiveRun(u)
  <2> DEFINE new == [booking[u] EXCEPT !.at = IF active = NoRun THEN "create" ELSE "lessons",
                                       !.run = active]
  <2>1. Waiting(u) /\ booking[u] \in BookingCall /\ booking[u].at = "run"
      BY <1>1, <1>2 DEF BookingTypeOK, FindActiveRun, Waiting, BookingCall
  <2>2. /\ booking' = [booking EXCEPT ![u] = new]
        /\ UNCHANGED <<bookings, hours, active, aux_raced, aux_later>>
      BY <1>1, <1>2, <2>1 DEF FindActiveRun, BookingTypeOK, BookingCall
  <2>3. /\ new.want = booking[u].want /\ new.run = active
        /\ new.at = IF active = NoRun THEN "create" ELSE "lessons"
      BY <2>1 DEF BookingCall
  <2>4. new \in BookingCall
    <3>1. CASE active = NoRun
        BY <2>1, <3>1 DEF BookingCall
    <3>2. CASE active # NoRun
        BY <1>1, <2>1, <3>2 DEF BookingCall, BookingTypeOK
    <3>3. QED
        BY <3>1, <3>2
  <2> HIDE DEF new
  <2>5. \A y \in bookings : Raced(new.want, y)
      BY <2>1, <2>3 DEF BookingInv
  <2>6. Past(new) => Held = {}
      BY <2>3 DEF Past, Held
  <2>7. QED
      BY <2>2, <2>4, <2>5, <2>6, CallMoves
<1>3. CASE CheckLessons(u)
  <2>1. Waiting(u) /\ booking[u] \in BookingCall /\ booking[u].at = "lessons" /\ booking[u].run \in Runs
      BY <1>1, <1>3 DEF BookingTypeOK, CheckLessons, Waiting, BookingCall
  <2>2. UNCHANGED <<bookings, hours, active, aux_raced, aux_later>>
      BY <1>3 DEF CheckLessons
  <2>3. CASE \E h \in hours[booking[u].run] : Meets(booking[u].want, h)
    <3>1. booking' = [booking EXCEPT ![u] = NoBooking]
        BY <1>1, <1>3, <2>3 DEF CheckLessons, BookingTypeOK
    <3>2. QED
        BY <2>2, <3>1, CallMoves
  <2>4. CASE \A h \in hours[booking[u].run] : ~ Meets(booking[u].want, h)
    <3> DEFINE new == [booking[u] EXCEPT !.at = "create"]
    <3>1. booking' = [booking EXCEPT ![u] = new]
        BY <1>1, <1>3, <2>4 DEF CheckLessons, BookingTypeOK
    <3>2. new \in BookingCall /\ new.want = booking[u].want
        BY <2>1 DEF BookingCall
    <3> HIDE DEF new
    <3>3. \A h \in Held : Later(booking[u].want, h)
      <4>1. CASE booking[u].run = active
        <5>1. Held = hours[booking[u].run] /\ booking[u].want \in Booking
            BY <2>1, <4>1, BookingAssumption DEF Held, BookingCall
        <5>2. QED
            BY <1>1, <2>4, <5>1, QueryFindsOverlap DEF Later
      <4>2. CASE booking[u].run # active
          BY <2>1, <4>2 DEF BookingInv, Past
      <4>3. QED
          BY <4>1, <4>2
    <3>4. \A y \in bookings : Raced(booking[u].want, y)
        BY <2>1 DEF BookingInv
    <3>5. QED
        BY <2>2, <3>1, <3>2, <3>3, <3>4, CallMoves
  <2>5. QED
      BY <2>3, <2>4
<1>4. ASSUME NEW unit \in Units, NEW week \in Weeks, CheckBookings(u, unit, week)
      PROVE  BookingInv'
  <2> DEFINE wanted == [unit |-> unit, week |-> week]
             new == [want |-> wanted, at |-> IF unit \in Rooms THEN "run" ELSE "create", run |-> NoRun]
  <2>1. /\ booking' = [booking EXCEPT ![u] = new]
        /\ \A x \in bookings : ~ Meets(wanted, x)
        /\ UNCHANGED <<bookings, hours, active, aux_raced, aux_later>>
      BY <1>4 DEF CheckBookings
  <2>2. wanted \in Booking /\ wanted.unit = unit
      BY DEF Booking
  <2>3. new.want = wanted /\ (Past(new) => unit \notin Rooms) /\ new \in BookingCall
      BY <2>2 DEF BookingCall, Past
  <2> HIDE DEF wanted, new
  <2>4. \A y \in bookings : Raced(wanted, y)
      BY <1>1, <2>1, <2>2, QueryFindsOverlap DEF Raced, BookingTypeOK
  <2>5. unit \notin Rooms => \A h \in Held : Later(wanted, h)
      BY <1>1, <2>2, NoLessonInResource DEF Later
  <2>6. QED
      BY <2>1, <2>3, <2>4, <2>5, CallMoves
<1>5. QED
    BY <1>2, <1>3, <1>4

(* A new booking goes on record with every call that is under way, at      *)
(* whatever stage.                                                         *)
LEMMA CreateBookingKeeps ==
    ASSUME BookingInv, NEW u \in Bookers, CreateBooking(u)
    PROVE  BookingInv'
<1> DEFINE new == booking[u].want
           others == {booking[v].want : v \in {w \in Bookers \ {u} : booking[w] # NoBooking}}
<1>1. BookingTypeOK
    BY DEF BookingInv
<1>2. Waiting(u) /\ booking[u].at = "create" /\ new \in Booking
    BY <1>1 DEF BookingTypeOK, CreateBooking, Waiting
<1>3. /\ bookings' = bookings \cup {new}
      /\ aux_raced' = aux_raced \cup {{new, x} : x \in {y \in others : Overlap(new, y)}}
      /\ booking' = [booking EXCEPT ![u] = NoBooking]
      /\ UNCHANGED <<hours, active, aux_later, Held>>
    BY DEF CreateBooking, Held
<1>4. \A v \in Bookers : booking'[v] = IF v = u THEN NoBooking ELSE booking[v]
    BY <1>1, <1>3 DEF BookingTypeOK
<1>5. BookingTypeOK'
    BY <1>1, <1>2, <1>3 DEF BookingTypeOK
<1>6. \A x \in others : Overlap(new, x) => {new, x} \in aux_raced'
    BY <1>3
<1>7. \A y \in bookings : Raced(new, y) /\ Raced(y, new)
  <2>1. \A y \in bookings : Raced(new, y)
      BY <1>2 DEF BookingInv
  <2>2. \A y : Overlap(y, new) => Overlap(new, y)
      BY DEF Overlap
  <2>3. \A y : {y, new} = {new, y}
      OBVIOUS
  <2>4. \A y \in bookings : Raced(y, new)
      BY <2>1, <2>2, <2>3 DEF Raced
  <2>5. QED
      BY <2>1, <2>4
<1>8. \A h \in Held : Later(new, h)
    BY <1>2 DEF BookingInv, Past
<1>9. ASSUME NEW v \in Bookers, Waiting(v)'
      PROVE  /\ v # u /\ booking'[v] = booking[v] /\ Waiting(v)
             /\ booking[v].want \in others
    BY <1>4, <1>9 DEF Waiting
<1> HIDE DEF new, others
<1>10. \A x, y \in bookings' : Raced(x, y)'
    BY <1>3, <1>7 DEF BookingInv, Raced
<1>11. \A x \in bookings', h \in Held' : Later(x, h)'
    BY <1>3, <1>8 DEF BookingInv, Later
<1>12. ASSUME NEW v \in Bookers, Waiting(v)', NEW y \in bookings',
              Overlap(booking[v].want, y), booking[v].want # y
       PROVE  {booking[v].want, y} \in aux_raced'
  <2>1. CASE y \in bookings
      BY <1>3, <1>9, <1>12, <2>1 DEF BookingInv, Raced
  <2>2. CASE y = new
    <3>1. Overlap(new, booking[v].want)
        BY <1>12, <2>2 DEF Overlap
    <3>2. {booking[v].want, y} = {new, booking[v].want}
        BY <2>2
    <3>3. QED
        BY <1>6, <1>9, <1>12, <3>1, <3>2
  <2>3. QED
      BY <1>3, <2>1, <2>2
<1>13. ASSUME NEW v \in Bookers, Waiting(v)'
       PROVE  /\ \A y \in bookings' : Raced(booking[v].want, y)'
              /\ Past(booking[v])' => \A h \in Held' : Later(booking[v].want, h)'
  <2>1. booking'[v] = booking[v] /\ Waiting(v)
      BY <1>9, <1>13
  <2>2. \A y \in bookings' : Raced(booking[v].want, y)'
      BY <1>12, <1>13, <2>1 DEF Raced
  <2>3. Past(booking[v])' => \A h \in Held' : Later(booking[v].want, h)'
      BY <1>3, <2>1 DEF BookingInv, Later, Past
  <2>4. QED
      BY <2>2, <2>3
<1>14. QED
    BY <1>5, <1>10, <1>11, <1>13 DEF BookingInv

(* A cancelled booking is forgotten, unless a call asks for the same.      *)
LEMMA CancelBookingKeeps ==
    ASSUME BookingInv, NEW b \in bookings, CancelBooking(b)
    PROVE  BookingInv'
<1>1. bookings' = bookings \ {b} /\ UNCHANGED <<hours, active, booking, Held>>
    BY DEF CancelBooking, Held
<1>2. BookingTypeOK'
    BY <1>1 DEF BookingInv, BookingTypeOK
<1>3. ASSUME NEW x, NEW y, {x, y} \in aux_raced, x # b \/ (\E u \in Bookers : Waiting(u) /\ booking[u].want = b), y # b
      PROVE  {x, y} \in aux_raced'
    BY <1>3 DEF CancelBooking, Waiting
<1>4. ASSUME NEW x, NEW h, [booking |-> x, lesson |-> h] \in aux_later,
             x # b \/ (\E u \in Bookers : Waiting(u) /\ booking[u].want = b)
      PROVE  [booking |-> x, lesson |-> h] \in aux_later'
    BY <1>4 DEF CancelBooking, Waiting
<1>5. \A x, y \in bookings' : Raced(x, y)'
    BY <1>1, <1>3 DEF BookingInv, Raced
<1>6. \A x \in bookings', h \in Held' : Later(x, h)'
    BY <1>1, <1>4 DEF BookingInv, Later
<1>7. ASSUME NEW u \in Bookers, Waiting(u)'
      PROVE  /\ \A y \in bookings' : Raced(booking[u].want, y)'
             /\ Past(booking[u])' => \A h \in Held' : Later(booking[u].want, h)'
  <2>1. Waiting(u)
      BY <1>1, <1>7 DEF Waiting
  <2>2. booking[u].want # b \/ (\E v \in Bookers : Waiting(v) /\ booking[v].want = b)
      BY <2>1
  <2>3. \A y \in bookings' : Raced(booking[u].want, y)'
      BY <1>1, <1>3, <2>1, <2>2 DEF BookingInv, Raced
  <2>4. Past(booking[u])' => \A h \in Held' : Later(booking[u].want, h)'
      BY <1>1, <1>4, <2>1, <2>2 DEF BookingInv, Later, Past
  <2>5. QED
      BY <2>3, <2>4
<1>8. QED
    BY <1>1, <1>2, <1>5, <1>6, <1>7 DEF BookingInv

(* Lessons of run r that come into force go on record with the bookings    *)
(* they meet, and with the calls that no longer look into r.               *)
LEMMA LatecomersAreKnown ==
    ASSUME BookingInv, NEW r \in Runs, BookingTypeOK', active' = r,
           UNCHANGED <<bookings, booking, aux_raced>>,
           \A x \in bookings \cup PastChecking(r), h \in hours'[r] :
               Overlap(x, h) => [booking |-> x, lesson |-> h] \in aux_later'
    PROVE  BookingInv'
<1>1. Held' = hours'[r]
    BY BookingAssumption DEF Held
<1>2. \A x \in bookings', k \in Held' : Later(x, k)'
    BY <1>1 DEF Later
<1>3. ASSUME NEW u \in Bookers, Waiting(u)
      PROVE  Past(booking[u])' => \A k \in Held' : Later(booking[u].want, k)'
  <2>1. Past(booking[u])' => booking[u].want \in PastChecking(r)
      BY <1>3 DEF Past, PastChecking, Waiting
  <2>2. QED
      BY <1>1, <2>1 DEF Later
<1>4. QED
    BY <1>2, <1>3 DEF BookingInv, Waiting, Raced

(* A run that is not active may change without a record.                   *)
LEMMA IdleRunChanges ==
    ASSUME BookingInv, BookingTypeOK', UNCHANGED <<bookings, booking, active, aux_raced, aux_later>>,
           UNCHANGED Held
    PROVE  BookingInv'
BY DEF BookingInv, Waiting, Raced, Later, Past

LEMMA PlaceLessonKeeps ==
    ASSUME BookingInv, NEW r \in Runs, NEW h \in Hour, PlaceLesson(r, h)
    PROVE  BookingInv'
<1>1. BookingTypeOK
    BY DEF BookingInv
<1>2. /\ hours' = [hours EXCEPT ![r] = @ \cup {h}]
      /\ UNCHANGED <<bookings, active, booking, aux_raced>>
    BY DEF PlaceLesson
<1>3. BookingTypeOK'
    BY <1>1, <1>2 DEF BookingTypeOK
<1>4. \A q \in Runs : hours'[q] = IF q = r THEN hours[r] \cup {h} ELSE hours[q]
    BY <1>1, <1>2 DEF BookingTypeOK
<1>5. CASE r # active
  <2>1. UNCHANGED aux_later
      BY <1>5 DEF PlaceLesson
  <2>2. Held' = Held
      BY <1>1, <1>2, <1>4, <1>5 DEF Held, BookingTypeOK
  <2>3. QED
      BY <1>2, <1>3, <2>1, <2>2, IdleRunChanges
<1>6. CASE r = active
  <2>1. aux_later' = aux_later \cup {p \in ComeLate(r, {h}) : Overlap(p.booking, p.lesson)}
      BY <1>6 DEF PlaceLesson
  <2>2. ASSUME NEW x \in bookings \cup PastChecking(r), NEW k \in hours'[r], Overlap(x, k)
        PROVE  [booking |-> x, lesson |-> k] \in aux_later'
    <3>1. CASE k = h
      <4>1. [booking |-> x, lesson |-> h] \in ComeLate(r, {h})
          BY DEF ComeLate
      <4>2. QED
          BY <2>1, <2>2, <3>1, <4>1
    <3>2. CASE k # h
      <4>1. k \in Held
          BY <1>4, <1>6, <3>2, BookingAssumption DEF Held
      <4>2. Later(x, k)
        <5>1. CASE x \in bookings
            BY <4>1, <5>1 DEF BookingInv
        <5>2. CASE x \in PastChecking(r)
          <6>1. PICK u \in Bookers : Waiting(u) /\ Past(booking[u]) /\ x = booking[u].want
              BY <1>6, <5>2 DEF PastChecking, Waiting, Past
          <6>2. QED
              BY <4>1, <6>1 DEF BookingInv
        <5>3. QED
            BY <5>1, <5>2
      <4>3. QED
          BY <2>1, <2>2, <4>2 DEF Later
    <3>3. QED
        BY <3>1, <3>2
  <2>3. QED
      BY <1>2, <1>3, <1>6, <2>2, LatecomersAreKnown
<1>7. QED
    BY <1>5, <1>6

(* A lesson that goes takes its own record with it, and no other.          *)
LEMMA RemoveLessonKeeps ==
    ASSUME BookingInv, NEW r \in Runs, NEW h \in hours[r], RemoveLesson(r, h)
    PROVE  BookingInv'
<1>1. BookingTypeOK
    BY DEF BookingInv
<1>2. /\ hours' = [hours EXCEPT ![r] = @ \ {h}]
      /\ UNCHANGED <<bookings, active, booking, aux_raced>>
    BY DEF RemoveLesson
<1>3. BookingTypeOK'
    BY <1>1, <1>2 DEF BookingTypeOK
<1>4. \A q \in Runs : hours'[q] = IF q = r THEN hours[r] \ {h} ELSE hours[q]
    BY <1>1, <1>2 DEF BookingTypeOK
<1>5. CASE r # active
  <2>1. UNCHANGED aux_later
      BY <1>5 DEF RemoveLesson
  <2>2. Held' = Held
      BY <1>1, <1>2, <1>4, <1>5 DEF Held, BookingTypeOK
  <2>3. QED
      BY <1>2, <1>3, <2>1, <2>2, IdleRunChanges
<1>6. CASE r = active
  <2>1. Held' = Held \ {h} /\ active' = active
      BY <1>2, <1>4, <1>6, BookingAssumption DEF Held
  <2>2. \A x, k : k # h /\ [booking |-> x, lesson |-> k] \in aux_later
                      => [booking |-> x, lesson |-> k] \in aux_later'
      BY <1>6 DEF RemoveLesson
  <2>3. QED
      BY <1>2, <1>3, <2>1, <2>2 DEF BookingInv, Waiting, Raced, Later, Past
<1>7. QED
    BY <1>5, <1>6

(* A run that is activated brings all its lessons at once.                 *)
LEMMA ActivateRunKeeps ==
    ASSUME BookingInv, NEW r \in Runs, ActivateRun(r)
    PROVE  BookingInv'
<1>1. /\ active' = r
      /\ UNCHANGED <<bookings, hours, booking, aux_raced>>
      /\ {p \in ComeLate(r, hours[r]) : Overlap(p.booking, p.lesson)} \subseteq aux_later'
    BY DEF ActivateRun
<1>2. BookingTypeOK'
    BY <1>1 DEF BookingInv, BookingTypeOK
<1>3. ASSUME NEW x \in bookings \cup PastChecking(r), NEW h \in hours'[r], Overlap(x, h)
      PROVE  [booking |-> x, lesson |-> h] \in aux_later'
  <2>1. [booking |-> x, lesson |-> h] \in ComeLate(r, hours[r])
      BY <1>1, <1>3 DEF ComeLate
  <2>2. QED
      BY <1>1, <1>3, <2>1
<1>4. QED
    BY <1>1, <1>2, <1>3, LatecomersAreKnown

(* Every behaviour of the bookings of a period, beside any edits and       *)
(* activations of runs, stays within BookingInv.                           *)
THEOREM BookingsCorrect == BookingSpec => []BookingInv
<1>1. BookingInit => BookingInv
    BY DEF BookingInit, BookingInv, BookingTypeOK, Waiting, Held
<1>2. BookingInv /\ [BookingNext]_bookingVars => BookingInv'
  <2> SUFFICES ASSUME BookingInv, [BookingNext]_bookingVars PROVE BookingInv'
      OBVIOUS
  <2>1. CASE UNCHANGED bookingVars
      BY <2>1 DEF bookingVars, BookingInv, BookingTypeOK, Waiting, Raced, Later, Past, Held
  <2>2. ASSUME NEW u \in Bookers,
               \/ FindActiveRun(u) \/ CheckLessons(u)
               \/ \E unit \in Units, week \in Weeks : CheckBookings(u, unit, week)
        PROVE  BookingInv'
      BY <2>2, BookingChecksKeep
  <2>3. ASSUME NEW u \in Bookers, CreateBooking(u) PROVE BookingInv'
      BY <2>3, CreateBookingKeeps
  <2>4. ASSUME NEW b \in bookings, CancelBooking(b) PROVE BookingInv'
      BY <2>4, CancelBookingKeeps
  <2>5. ASSUME NEW r \in Runs, NEW h \in Hour, PlaceLesson(r, h) PROVE BookingInv'
      BY <2>5, PlaceLessonKeeps
  <2>6. ASSUME NEW r \in Runs, NEW h \in hours[r], RemoveLesson(r, h) PROVE BookingInv'
      BY <2>6, RemoveLessonKeeps
  <2>7. ASSUME NEW r \in Runs, ActivateRun(r) PROVE BookingInv'
      BY <2>7, ActivateRunKeeps
  <2>8. QED
      BY <2>1, <2>2, <2>3, <2>4, <2>5, <2>6, <2>7 DEF BookingNext
<1>3. QED
    BY <1>1, <1>2, PTL DEF BookingSpec

(* Two bookings of one room or resource overlap only if their calls did    *)
(* (nothing locks), and a booking overlaps a lesson of the active run only *)
(* if the lesson came, or its run was activated, after the call had looked *)
(* for it; for any units, runs and bookers.                                *)
THEOREM BookedOnce == BookingSpec => []GivenOnce
<1>1. BookingInv => GivenOnce
    BY DEF BookingInv, GivenOnce, Raced, Later
<1>2. QED
    BY <1>1, BookingsCorrect, PTL

-----------------------------------------------------------------------------
(* The office.                                                             *)

(* Every step of the run moves one component, and the others stutter: each *)
(* behaviour of the office is one of every component.                      *)
LEMMA OfficeRunsComponents ==
    Spec => /\ ImportSpec /\ DsgvoSpec /\ RetentionSpec
            /\ BookingSpec /\ AccountSpec /\ LinkSpec
<1>1. Init => /\ ImportInit /\ DsgvoInit /\ RetentionInit
              /\ BookingInit /\ AccountInit /\ LinkInit
    BY DEF Init
<1>2. [Next]_<<moving, importVars, dsgvoVars, retentionVars, bookingVars, accountVars, linkVars>>
      => /\ [ImportNext]_importVars /\ [DsgvoNext]_dsgvoVars /\ [RetentionNext]_retentionVars
         /\ [BookingNext]_bookingVars /\ [AccountNext]_accountVars /\ [LinkNext]_linkVars
    BY DEF Next
<1>3. QED
    BY <1>1, <1>2, PTL
    DEF Spec, ImportSpec, DsgvoSpec, RetentionSpec, BookingSpec, AccountSpec, LinkSpec

(* Every component of the office keeps its types.                          *)
THEOREM OfficeIsTyped == Spec => []TypeOK
<1>1. ImportInv /\ DsgvoInv /\ RetentionInv /\ BookingInv /\ AccountInv /\ LinkInv => TypeOK
    BY DEF TypeOK, ImportInv, DsgvoInv, RetentionInv, BookingInv, AccountInv, LinkInv
<1>2. QED
    BY <1>1, OfficeRunsComponents, ImportCorrect, DsgvoCorrect, RetentionCorrect,
       BookingsCorrect, AccountsCorrect, LinksCorrect, PTL
=============================================================================
