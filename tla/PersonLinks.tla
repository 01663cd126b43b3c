---------------------------- MODULE PersonLinks ----------------------------
(***************************************************************************)
(* UserDirectoryService.linkPerson and unlinkPerson: which Keycloak user a *)
(* Person of the school belongs to.  The checks of both sides come first,  *)
(* the write later, and the write alone is what the database guards: no    *)
(* user twice in a school.                                                 *)
(***************************************************************************)
CONSTANTS Persons, Logins, Clerks, Nobody

ASSUME LinkAssumption == Nobody \notin Logins

VARIABLES
    owner,          \* Person.keycloakUserId
    linkCall,       \* calls after their checks, by the admin who makes them
    aux_taken,      \* auxiliary: persons whose owner changed without an unlink
    aux_met         \* auxiliary: persons linked while another call had checked them

linkVars == <<owner, linkCall, aux_taken, aux_met>>

Call == [op : {"link", "unlink"}, user : Logins, person : Persons]

LinkInit ==
    /\ owner = [p \in Persons |-> Nobody]
    /\ linkCall = [c \in Clerks |-> Nobody]
    /\ aux_taken = {} /\ aux_met = {}

LinkableByUser(u, p) ==                 \* mutant: the person's side is not looked at
    \A q \in Persons : owner[q] # u

(* The user has no Person here, not even this one: its id is compared with *)
(* that of the teacher, student or parent.  The person has no other user.  *)
Linkable(u, p) ==
    /\ \A q \in Persons : owner[q] # u
    /\ owner[p] \in {Nobody, u}

CheckLink(c, u, p) ==
    /\ linkCall[c] = Nobody
    /\ Linkable(u, p)
    /\ linkCall' = [linkCall EXCEPT ![c] = [op |-> "link", user |-> u, person |-> p]]
    /\ UNCHANGED <<owner, aux_taken, aux_met>>

Met(c) == \E d \in Clerks \ {c} : linkCall[d] # Nobody /\ linkCall[d].person = linkCall[c].person

WriteLinkWithoutKey(c) ==               \* mutant: no unique [keycloakUserId, schoolId]
    /\ linkCall[c] # Nobody /\ linkCall[c].op = "link"
    /\ owner' = [owner EXCEPT ![linkCall[c].person] = linkCall[c].user]
    /\ linkCall' = [linkCall EXCEPT ![c] = Nobody]
    /\ UNCHANGED <<aux_taken, aux_met>>

(* linkKeycloakUser: a plain update, refused only if the user has a Person *)
(* by now.                                                                 *)
WriteLink(c) ==
    LET u == linkCall[c].user
        p == linkCall[c].person
    IN  /\ linkCall[c] # Nobody /\ linkCall[c].op = "link"
        /\ IF \E q \in Persons \ {p} : owner[q] = u
           THEN UNCHANGED <<owner, aux_taken, aux_met>>
           ELSE /\ owner' = [owner EXCEPT ![p] = u]
                /\ aux_taken' = IF owner[p] \in {Nobody, u} THEN aux_taken ELSE aux_taken \cup {p}
                /\ aux_met' = IF Met(c) THEN aux_met \cup {p} ELSE aux_met
        /\ linkCall' = [linkCall EXCEPT ![c] = Nobody]

(* unlinkPerson finds the person of the user, then clears its column.      *)
CheckUnlink(c, u, p) ==
    /\ linkCall[c] = Nobody
    /\ owner[p] = u
    /\ linkCall' = [linkCall EXCEPT ![c] = [op |-> "unlink", user |-> u, person |-> p]]
    /\ UNCHANGED <<owner, aux_taken, aux_met>>

WriteUnlink(c) ==
    /\ linkCall[c] # Nobody /\ linkCall[c].op = "unlink"
    /\ owner' = [owner EXCEPT ![linkCall[c].person] = Nobody]
    /\ linkCall' = [linkCall EXCEPT ![c] = Nobody]
    /\ UNCHANGED <<aux_taken, aux_met>>

LinkNext ==
    \E c \in Clerks :
        \/ WriteLink(c) \/ WriteUnlink(c)
        \/ \E u \in Logins, p \in Persons : CheckLink(c, u, p) \/ CheckUnlink(c, u, p)

LinkSpec == LinkInit /\ [][LinkNext]_linkVars
-----------------------------------------------------------------------------
(* Types, and the unique key.                                              *)
LinkTypeOK ==
    /\ owner \in [Persons -> Logins \cup {Nobody}]
    /\ linkCall \in [Clerks -> Call \cup {Nobody}]
    /\ \A p, q \in Persons : owner[p] = owner[q] /\ owner[p] # Nobody => p = q

(* "silent link-theft prevention": a person passes from one user to        *)
(* another without an unlink only if two calls for it met.                 *)
LinkNotStolen == aux_taken \subseteq aux_met

(* "Race-condition fallback: between (b) and the write, someone else       *)
(* linked this Person": there is no conflict to fall back on.              *)
RaceIsRefused == aux_taken = {}
=============================================================================
