---------------------------- MODULE MCSchoolDay ----------------------------
(***************************************************************************)
(* What teachers, parents and administrators do all day, on small          *)
(* instances: the class book of a class, a conversation, and the web       *)
(* client's pages, forms and lesson content.  They share no state, so a    *)
(* behaviour moves one of them: every initial state picks which, and the   *)
(* run explores the sum of their state spaces instead of the product.      *)
(***************************************************************************)
EXTENDS ClassBook, Messaging, WebCache, WebForms, LessonContent, TLC

(* The class book's teachers are the parent's two clients, and its         *)
(* reviewers the poll's options: with fewer model values to permute the    *)
(* symmetry group is smaller, and no state mixes the two.                  *)
CONSTANTS c1, c2, c3, x1, x2, s1, s2, mon, mum, kv

VARIABLE moving

MCDateOf == [l \in Lessons |-> 1]
MCUserOf == (c1 :> mum) @@ (c2 :> mum) @@ (c3 :> kv)

Init ==
    /\ moving \in {"class book", "messaging", "cache", "forms", "content"}
    /\ ClassBookInit /\ MessagingInit
    /\ CacheInit /\ (moving # "cache" => pair = CHOOSE p \in Pairs : TRUE)
    /\ FormInit /\ (moving # "forms" => form = CHOOSE f \in Forms : TRUE)
    /\ ContentInit

Next ==
    /\ UNCHANGED moving
    /\ IF moving = "class book" THEN ClassBookNext ELSE UNCHANGED classBookVars
    /\ IF moving = "messaging" THEN MessagingNext ELSE UNCHANGED messagingVars
    /\ IF moving = "cache" THEN CacheNext ELSE UNCHANGED cacheVars
    /\ IF moving = "forms" THEN FormNext ELSE UNCHANGED formVars
    /\ IF moving = "content" THEN ContentNext ELSE UNCHANGED contentVars

Spec == Init /\ [][Next]_<<moving, classBookVars, messagingVars, cacheVars, formVars,
                           contentVars>>

(* Once something set may be lost, or two reviewers have decided, the      *)
(* properties about it promise nothing any more; the excuse is for one of  *)
(* the students, and while there is one, one grid is open at a time.       *)
ClassBookFocus ==
    /\ aux_twice = {} /\ \A t \in Teachers : aux_doubt[t] = {}
    /\ \A x \in DOMAIN excuse : excuse[x].student = s1
    /\ excuse # << >> => \E t \in Teachers : grid[t].lesson = None

(* At most two calls are under way at once.  A state with a list loaded,   *)
(* with an absence reported or with a poll leaves the other two out, and a *)
(* poll is the only message that is there.                                 *)
MessagingFocus ==
    /\ Cardinality({c \in Clients : call[c] # Idle}) <= 2
    /\ Cardinality({c \in Clients : list[c] # Unloaded}) + excuses
         + Cardinality({m \in Messages : message[m] # Null /\ message[m].type = "POLL"}) <= 1
    /\ poll # Null => Cardinality({m \in Messages : message[m] # Null}) = 1
    /\ convs = 2 => Cardinality({m \in Messages : message[m] # Null}) <= 1

Focus == ClassBookFocus /\ MessagingFocus

Symmetry == Permutations({c1, c2}) \cup Permutations({x1, x2})

(* Every component keeps its types.                                        *)
TypeOK ==
    CASE moving = "class book" -> ClassBookTypeOK
      [] moving = "messaging" -> MessagingTypeOK
      [] moving = "cache" -> CacheTypeOK
      [] moving = "forms" -> FormTypeOK
      [] moving = "content" -> ContentTypeOK
=============================================================================
