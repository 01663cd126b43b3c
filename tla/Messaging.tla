----------------------------- MODULE Messaging -----------------------------
(***************************************************************************)
(* A conversation of a school: ConversationService, MessageService and     *)
(* PollService over the rows they share, and the message list of a client. *)
(*                                                                         *)
(* One conversation at a time is followed, between two persons (DIRECT) or *)
(* with a class (CLASS, which stands for the other broadcasts too), and    *)
(* one poll.  Texts, names, attachments and in-app notifications are left  *)
(* out.  A call that reads, and later writes in a transaction what depends *)
(* on it, is two steps.                                                    *)
(***************************************************************************)
EXTENDS Integers, FiniteSets, FiniteSetsExt, Functions

CONSTANTS
    Users,          \* keycloak users of the school
    Clients,        \* browsers and apps
    UserOf,         \* the user each is signed in as
    Parent, KV,     \* a parent, and the Klassenvorstand of the child's class
    ClassMembers,   \* expandClassScope: students, parents, Klassenvorstand
    Staff,          \* who may write to the class
    Admins,         \* admin and schulleitung
    Options,        \* of the poll
    MaxMessages,    \* bound: messages sent
    MaxConvs,       \* bound: conversations created
    MaxReports,     \* bound: absences reported
    PageSize,       \* 20 in the client
    Null

Messages == 1 .. MaxMessages            \* in order of creation
Kind == {"SINGLE_CHOICE", "MULTIPLE_CHOICE"}

Conversation == [id : 1 .. MaxConvs, members : SUBSET Users]
Message == [sender : Users, type : {"TEXT", "POLL", "SYSTEM"}]
Poll == [message : Messages, kind : Kind, closed : BOOLEAN, past : BOOLEAN]
Receipt == {"unread", "read"}

ASSUME MessagingAssumption ==
    /\ IsFiniteSet(Clients) /\ UserOf \in [Clients -> Users]
    /\ Parent \in Users /\ KV \in Users /\ Parent # KV
    /\ ClassMembers \subseteq Users /\ Staff \subseteq Users /\ Admins \subseteq Users
    /\ IsFiniteSet(Options)
    /\ MaxMessages \in Nat /\ MaxConvs \in Nat \ {0} /\ MaxReports \in Nat
    /\ PageSize \in Nat \ {0}
    /\ Null \notin Users \cup Receipt
    /\ Null \notin Conversation /\ Null \notin Message /\ Null \notin Poll

VARIABLES
    conv,       \* the conversation: its number and members, or Null
    message,    \* message[m]: its sender and type, or Null
    receipt,    \* receipt[m][u]: the MessageRecipient of u, "unread" or "read", or Null
    unread,     \* unreadCount of each ConversationMember
    poll,       \* the Poll, or Null
    votes,      \* PollVotes: pairs of an option and a user
    excuses,    \* absences reported that stored an excuse
    call,       \* what each client's call under way has read
    list,       \* the messages each client has loaded, page by page
    sent, convs,    \* messages and conversations created so far
    aux_crossed,    \* auxiliary: whose counter a markRead reset over a message it had not read
    aux_deleted,    \* auxiliary: who lost an unread message to a deletion
    aux_raced,      \* auxiliary: who voted from two clients at once
    aux_final       \* auxiliary: the votes when the poll closed with nobody voting, or Null

rows == <<conv, message, receipt, unread, sent, convs>>
polls == <<poll, votes>>
messagingAux == <<aux_crossed, aux_deleted, aux_raced, aux_final>>
messagingVars == <<rows, polls, excuses, call, list, messagingAux>>

Idle == [op |-> "none"]
NoReceipts == [u \in Users |-> Null]
Unloaded == [shown |-> {}, cursor |-> Null, from |-> 0, end |-> FALSE]
NoOne == [u \in Users |-> FALSE]

MessagingInit ==
    /\ conv = Null /\ convs = 0
    /\ message = [m \in Messages |-> Null] /\ sent = 0
    /\ receipt = [m \in Messages |-> NoReceipts]
    /\ unread = [u \in Users |-> 0]
    /\ poll = Null /\ votes = {}
    /\ excuses = 0
    /\ call = [c \in Clients |-> Idle]
    /\ list = [c \in Clients |-> Unloaded]
    /\ aux_crossed = NoOne /\ aux_deleted = NoOne /\ aux_raced = NoOne /\ aux_final = Null
-----------------------------------------------------------------------------
(* Helpers.                                                                *)

IsMember(c) == conv # Null /\ UserOf[c] \in conv.members
Open(k) == conv # Null /\ conv.id = k
Begin(c, what) == call[c] = Idle /\ call' = [call EXCEPT ![c] = what]
End(c) == call' = [call EXCEPT ![c] = Idle]
Unread(u) == {m \in Messages : receipt[m][u] = "unread"}
Mine(u) == {v \in votes : v[2] = u}
Voting == \E c \in Clients : call[c].op \in {"vote", "retract", "replace"}

(* Bound: messages sent and about to be.                                   *)
MayWrite ==
    sent + Cardinality({c \in Clients : call[c].op \in {"send", "report", "reportNew"}}) < MaxMessages

(* The transaction that every message is written in: the message, a row    *)
(* for each recipient, and one more on the recipients' counters.           *)
Post(s, type, to) ==
    LET m == sent + 1
    IN  /\ sent' = m
        /\ message' = [message EXCEPT ![m] = [sender |-> s, type |-> type]]
        /\ receipt' = [receipt EXCEPT ![m] = [u \in Users |-> IF u \in to THEN "unread" ELSE Null]]
        /\ unread' = [u \in Users |-> unread[u] + IF u \in to THEN 1 ELSE 0]
        /\ UNCHANGED <<conv, convs>>

Create(members) ==
    /\ convs' = convs + 1
    /\ conv' = [id |-> convs + 1, members |-> members]
    /\ UNCHANGED <<message, receipt, unread, sent>>

-----------------------------------------------------------------------------
(* ConversationService.                                                    *)

(* create CLASS: admins and the teachers of the class.                     *)
CreateBroadcast(c) ==
    /\ UserOf[c] \in Staff \cup Admins
    /\ call[c] = Idle /\ conv = Null
    /\ Create(ClassMembers \cup {UserOf[c]})
    /\ UNCHANGED <<polls, excuses, call, list, messagingAux>>

(* create DIRECT looks for the conversation of the pair, and only when     *)
(* there is none creates it.                                               *)
FindDirect(c) ==
    /\ UserOf[c] \in {Parent, KV}
    /\ conv = Null
    /\ Begin(c, [op |-> "direct"])
    /\ UNCHANGED <<rows, polls, excuses, list, messagingAux>>

(* The unique key of school and pair refuses a second one.                 *)
CreateDirect(c) ==
    /\ call[c].op = "direct"
    /\ IF conv = Null THEN Create({Parent, KV}) ELSE UNCHANGED rows
    /\ End(c)
    /\ UNCHANGED <<polls, excuses, list, messagingAux>>

(* delete, by an admin: everything in the conversation goes with it.       *)
DeleteConversation ==
    /\ conv # Null
    /\ convs < MaxConvs
    /\ conv' = Null
    /\ message' = [m \in Messages |-> Null]
    /\ receipt' = [m \in Messages |-> NoReceipts]
    /\ unread' = [u \in Users |-> 0]
    /\ poll' = Null /\ votes' = {}
    /\ aux_crossed' = NoOne /\ aux_deleted' = NoOne /\ aux_raced' = NoOne /\ aux_final' = Null
    /\ UNCHANGED <<sent, convs, excuses, call, list>>

-----------------------------------------------------------------------------
(* MessageService.                                                         *)

(* send and createWithMessage: the membership and the recipients are read  *)
(* first ...                                                               *)
StartSend(c, type) ==
    /\ IsMember(c)
    /\ type = "POLL" => poll = Null                     \* bound: one poll
    /\ MayWrite
    /\ Begin(c, [op |-> "send", type |-> type, conv |-> conv.id, to |-> conv.members \ {UserOf[c]}])
    /\ UNCHANGED <<rows, polls, excuses, list, messagingAux>>

NewPolls(type, kind) ==
    IF type = "POLL" THEN [message |-> sent + 1, kind |-> kind, closed |-> FALSE, past |-> FALSE] ELSE poll

(* ... and the message is written, if the conversation is still there.     *)
WriteMessage(c, kind) ==
    /\ call[c].op = "send"
    /\ End(c)
    /\ IF Open(call[c].conv) /\ (call[c].type = "POLL" => poll = Null)
       THEN /\ Post(UserOf[c], call[c].type, call[c].to)
            /\ poll' = NewPolls(call[c].type, kind)
            /\ UNCHANGED votes
       ELSE UNCHANGED <<rows, polls>>
    /\ UNCHANGED <<excuses, list, messagingAux>>

(* markRead finds the rows to mark ...                                     *)
StartMarkRead(c) ==
    /\ conv # Null
    /\ Unread(UserOf[c]) # {}
    /\ Begin(c, [op |-> "read", seen |-> Unread(UserOf[c])])
    /\ UNCHANGED <<rows, polls, excuses, list, messagingAux>>

Marked(u, seen) ==
    [m \in Messages |-> [receipt[m] EXCEPT ![u] = IF m \in seen /\ @ = "unread" THEN "read" ELSE @]]

WriteMarkReadKeepsCounter(c) ==         \* mutant: the counter is not reset
    LET u == UserOf[c]
    IN  /\ call[c].op = "read"
        /\ receipt' = Marked(u, call[c].seen)
        /\ End(c)
        /\ UNCHANGED <<conv, message, unread, sent, convs, polls, excuses, list, messagingAux>>

(* ... and marks those, but resets the counter whatever has come since.    *)
WriteMarkRead(c) ==
    LET u == UserOf[c]
    IN  /\ call[c].op = "read"
        /\ receipt' = Marked(u, call[c].seen)
        /\ unread' = [unread EXCEPT ![u] = 0]
        /\ aux_crossed' = [aux_crossed EXCEPT ![u] = ~ Unread(u) \subseteq call[c].seen]
        /\ aux_deleted' = [aux_deleted EXCEPT ![u] = FALSE]
        /\ End(c)
        /\ UNCHANGED <<conv, message, sent, convs, polls, excuses, list, aux_raced, aux_final>>

DeleteMessageOnly(c, m) ==              \* mutant: the recipients' rows stay
    /\ call[c] = Idle
    /\ message[m] # Null
    /\ UserOf[c] = message[m].sender \/ UserOf[c] \in Admins
    /\ message' = [message EXCEPT ![m] = Null]
    /\ UNCHANGED <<polls, conv, receipt, unread, sent, convs, excuses, call, list, messagingAux>>

(* delete, by the sender or an admin: the recipients' rows and the poll go *)
(* with the message, the counters stay.                                    *)
DeleteMessage(c, m) ==
    /\ call[c] = Idle
    /\ message[m] # Null
    /\ UserOf[c] = message[m].sender \/ UserOf[c] \in Admins
    /\ message' = [message EXCEPT ![m] = Null]
    /\ receipt' = [receipt EXCEPT ![m] = NoReceipts]
    /\ aux_deleted' = [u \in Users |-> aux_deleted[u] \/ receipt[m][u] = "unread"]
    /\ IF poll # Null /\ poll.message = m
       THEN poll' = Null /\ votes' = {} /\ aux_raced' = NoOne /\ aux_final' = Null
       ELSE UNCHANGED <<polls, aux_raced, aux_final>>
    /\ UNCHANGED <<conv, unread, sent, convs, excuses, call, list, aux_crossed>>

(* reportAbsence: the excuse is stored, then the conversation is looked    *)
(* up ...                                                                  *)
StartReport(c) ==
    /\ UserOf[c] = Parent
    /\ excuses < MaxReports /\ MayWrite
    /\ excuses' = excuses + 1
    /\ conv # Null => conv.members = {Parent, KV}
    /\ Begin(c, IF conv = Null THEN [op |-> "reportNew"] ELSE [op |-> "report", conv |-> conv.id])
    /\ UNCHANGED <<rows, polls, list, messagingAux>>

(* ... created when there was none (and the report fails if there is one   *)
(* by now) ...                                                             *)
CreateForReport(c) ==
    /\ call[c].op = "reportNew"
    /\ IF conv = Null
       THEN Create({Parent, KV}) /\ call' = [call EXCEPT ![c] = [op |-> "report", conv |-> convs + 1]]
       ELSE End(c) /\ UNCHANGED rows
    /\ UNCHANGED <<polls, excuses, list, messagingAux>>

(* ... and the Klassenvorstand gets a SYSTEM message.                      *)
WriteReport(c) ==
    /\ call[c].op = "report"
    /\ End(c)
    /\ IF Open(call[c].conv) THEN Post(Parent, "SYSTEM", {KV}) ELSE UNCHANGED rows
    /\ UNCHANGED <<polls, excuses, list, messagingAux>>

(* findAll: a page of the newest messages older than the cursor, and the   *)
(* next one after it as the new cursor.  A cursor that has been deleted    *)
(* starts from the newest again.                                           *)
Older(cursor) ==
    {m \in Messages : message[m] # Null
        /\ (cursor # Null /\ message[cursor] # Null => m < cursor)}

Newest(S, n) == {m \in S : Cardinality({k \in S : k > m}) < n}

LoadPage(c, again) ==
    LET before == IF again THEN [Unloaded EXCEPT !.from = sent] ELSE list[c]
        older == Older(before.cursor)
        page == Newest(older, PageSize)
    IN  /\ call[c] = Idle
        /\ IsMember(c)
        /\ again => list[c].end \/ list[c] = Unloaded
        /\ ~ again => list[c].cursor # Null
        /\ list' = [list EXCEPT ![c] =
              [before EXCEPT !.shown = @ \cup page,
                             !.end = older = page,
                             !.cursor = IF older = page THEN Null ELSE Max(older \ page)]]
        /\ UNCHANGED <<rows, polls, excuses, call, messagingAux>>

-----------------------------------------------------------------------------
(* PollService.                                                            *)

(* castVote checks the poll ...                                            *)
StartVote(c, chosen) ==
    /\ poll # Null /\ IsMember(c)
    /\ ~ poll.closed /\ ~ poll.past
    /\ chosen # {}
    /\ poll.kind = "SINGLE_CHOICE" => Cardinality(chosen) = 1
    /\ Begin(c, [op |-> "vote", chosen |-> chosen, message |-> poll.message])
    /\ UNCHANGED <<rows, polls, excuses, list, messagingAux>>

Final == IF Voting THEN aux_final ELSE votes

(* ... and closes it when its deadline has passed.                         *)
VoteTooLate(c) ==
    /\ call[c] = Idle
    /\ poll # Null /\ IsMember(c)
    /\ ~ poll.closed /\ poll.past
    /\ poll' = [poll EXCEPT !.closed = TRUE]
    /\ aux_final' = Final
    /\ UNCHANGED <<rows, votes, excuses, call, list, aux_crossed, aux_deleted, aux_raced>>

(* Its transaction deletes the votes of the user that it can see ...       *)
DeleteVotes(c) ==
    /\ call[c].op = "vote"
    /\ call' = [call EXCEPT ![c] = [op |-> "replace", chosen |-> call[c].chosen,
                                    message |-> call[c].message, old |-> Mine(UserOf[c])]]
    /\ UNCHANGED <<rows, polls, excuses, list, messagingAux>>

InsertVotesBesideOld(c) ==              \* mutant: the old votes are not deleted
    /\ call[c].op = "replace"
    /\ votes' = votes \cup (call[c].chosen \X {UserOf[c]})
    /\ End(c)
    /\ UNCHANGED <<rows, poll, excuses, list, messagingAux>>

(* ... and inserts the new ones; it fails when the poll has gone, or when  *)
(* the same vote has been inserted meanwhile.                              *)
InsertVotes(c) ==
    LET u == UserOf[c]
        kept == votes \ call[c].old
        new == call[c].chosen \X {u}
    IN  /\ call[c].op = "replace"
        /\ IF poll # Null /\ poll.message = call[c].message /\ new \cap kept = {}
           THEN /\ votes' = kept \cup new
                /\ aux_raced' = [aux_raced EXCEPT ![u] = Mine(u) \cap kept # {}]
           ELSE UNCHANGED <<votes, aux_raced>>
        /\ End(c)
        /\ UNCHANGED <<rows, poll, excuses, list, aux_crossed, aux_deleted, aux_final>>

(* retractVote looks at isClosed, not at the deadline.                     *)
StartRetract(c) ==
    /\ poll # Null /\ ~ poll.closed
    /\ Mine(UserOf[c]) # {}
    /\ Begin(c, [op |-> "retract", message |-> poll.message])
    /\ UNCHANGED <<rows, polls, excuses, list, messagingAux>>

Retract(c) ==
    /\ call[c].op = "retract"
    /\ votes' = IF poll # Null /\ poll.message = call[c].message
                THEN votes \ Mine(UserOf[c]) ELSE votes
    /\ End(c)
    /\ UNCHANGED <<rows, poll, excuses, list, messagingAux>>

(* closePoll: the sender, or an admin.                                     *)
ClosePoll(c) ==
    /\ call[c] = Idle
    /\ poll # Null /\ message[poll.message] # Null
    /\ UserOf[c] = message[poll.message].sender \/ UserOf[c] \in Admins
    /\ poll' = [poll EXCEPT !.closed = TRUE]
    /\ aux_final' = Final
    /\ UNCHANGED <<rows, votes, excuses, call, list, aux_crossed, aux_deleted, aux_raced>>

DeadlinePasses ==
    /\ poll # Null /\ ~ poll.past
    /\ poll' = [poll EXCEPT !.past = TRUE]
    /\ UNCHANGED <<rows, votes, excuses, call, list, messagingAux>>
-----------------------------------------------------------------------------
Conversing == DeleteConversation \/ \E c \in Clients : CreateBroadcast(c) \/ FindDirect(c) \/ CreateDirect(c)

Writing == \E c \in Clients :
    \/ \E type \in {"TEXT", "POLL"} : StartSend(c, type)
    \/ \E kind \in Kind : WriteMessage(c, kind)
    \/ StartReport(c) \/ CreateForReport(c) \/ WriteReport(c)
    \/ \E m \in Messages : DeleteMessage(c, m)

Reading == \E c \in Clients :
    StartMarkRead(c) \/ WriteMarkRead(c) \/ \E again \in BOOLEAN : LoadPage(c, again)

Polling ==
    \/ DeadlinePasses
    \/ \E c \in Clients :
        \/ \E chosen \in SUBSET Options : StartVote(c, chosen)
        \/ VoteTooLate(c) \/ DeleteVotes(c) \/ InsertVotes(c)
        \/ StartRetract(c) \/ Retract(c) \/ ClosePoll(c)

MessagingNext == Conversing \/ Writing \/ Reading \/ Polling
MessagingSpec == MessagingInit /\ [][MessagingNext]_messagingVars
-----------------------------------------------------------------------------
(* Types.                                                                  *)

Call ==
    [op : {"none", "direct", "reportNew"}]
    \cup [op : {"send"}, type : {"TEXT", "POLL"}, conv : 1 .. MaxConvs, to : SUBSET Users]
    \cup [op : {"read"}, seen : SUBSET Messages]
    \cup [op : {"report"}, conv : 1 .. MaxConvs]
    \cup [op : {"vote"}, chosen : SUBSET Options, message : Messages]
    \cup [op : {"replace"}, chosen : SUBSET Options, message : Messages, old : SUBSET (Options \X Users)]
    \cup [op : {"retract"}, message : Messages]

(* A conversation, its messages with a row per recipient and never *)
(* one for the sender, and a poll that hangs on a message that is there.   *)
MessagingTypeOK ==
    /\ conv \in Conversation \cup {Null}
    /\ sent \in 0 .. MaxMessages /\ convs \in 0 .. MaxConvs /\ excuses \in 0 .. MaxReports
    /\ \A m \in Messages :
          /\ message[m] \in Message \cup {Null}
          /\ message[m] # Null => conv # Null /\ m <= sent /\ receipt[m][message[m].sender] = Null
          /\ receipt[m] \in [Users -> Receipt \cup {Null}]
          /\ message[m] = Null => receipt[m] = NoReceipts
    /\ unread \in [Users -> Nat]
    /\ poll \in Poll \cup {Null} /\ (poll # Null => message[poll.message] # Null)
    /\ votes \subseteq Options \X Users
    /\ poll = Null => votes = {}
    /\ call \in [Clients -> Call]
    /\ \A c \in Clients : list[c].shown \subseteq Messages /\ list[c].cursor \in Messages \cup {Null}

(* What is unread and the badge that says so, kept apart in two tables:    *)
(* the counter is too low only after a markRead that a message overtook,   *)
(* and too high only after an unread message was deleted.                  *)
UnreadMatches ==
    \A u \in Users :
        /\ ~ aux_crossed[u] => unread[u] >= Cardinality(Unread(u))
        /\ ~ aux_deleted[u] => unread[u] <= Cardinality(Unread(u))

(* A single choice is one: voting again replaces the vote, unless the same *)
(* user votes from two clients at once.                                    *)
OneVoteEach ==
    poll # Null /\ poll.kind = "SINGLE_CHOICE" =>
        \A u \in Users : ~ aux_raced[u] => Cardinality(Mine(u)) <= 1

(* The result of a poll that closed while nobody was voting stands.        *)
FinalTally == aux_final # Null => votes = aux_final

(* A poll counts each user's choice, and its result stands.                *)
PollIsFair == OneVoteEach /\ FinalTally

(* What findAll's pagination promises: who has loaded the list to its end  *)
(* has been shown every message that was there when he began.              *)
PagesShowAll ==
    \A c \in Clients : list[c].end =>
        {m \in 1 .. list[c].from : message[m] # Null} \subseteq list[c].shown
=============================================================================
