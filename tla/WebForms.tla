------------------------------ MODULE WebForms ------------------------------
(***************************************************************************)
(* One form of the web client at work: the rows it edits on the server and *)
(* in the query cache, its draft, its requests on their way, and the other *)
(* users.  It may be closed and opened for another entity while a request  *)
(* is on its way; the cache may be refreshed, and requests refused, at any *)
(* time.  No hook waits for the refetch it triggers.                       *)
(***************************************************************************)
EXTENDS AdminForms, SchoolDayForms, Integers, FiniteSets

CONSTANTS Entities,      \* what the form is opened for
          Nobody,        \* none of them: it is closed
          MaxSent,       \* requests the user makes
          MaxOthers      \* changes other users make
ASSUME FormsAssumption == Nobody \notin Entities /\ MaxSent \in Nat /\ MaxOthers \in Nat

Forms == FormsOfAdmin \cup FormsOfTheDay

\* What a lone form is open for.
TheOne == CHOOSE e \in Entities : TRUE

\* What a row or a draft may hold.
Texts == {"old", "theirs", "mine", "blank"}

\* The rows on the server and in the cache; the entity the form is open for;
\* its draft, and the entity that belongs to; whether the user typed; whether
\* the page takes it for saved; the requests on their way, and how many there
\* had been when the form was mounted; whether the prompt of a dirty tab is up,
\* or was last answered with "Speichern & Weiter", or a refusal shows what
\* stands in the way; how much the users have done.
VARIABLES form, server, cached, openFor, draft, typed, cleared, wire, mountedAt, prompting,
          submits, others
formVars == <<form, server, cached, openFor, draft, typed, cleared, wire, mountedAt, prompting,
              submits, others>>
formShown == <<openFor, draft, typed, cleared>>

NoDraft == [of |-> Nobody, text |-> "blank"]

FormRequest == [to : Entities, text : Texts, part : {1, 2}, nr : 1 .. MaxSent]

FormInit ==
    /\ form \in Forms
    /\ server = [e \in Entities |-> "old"] /\ cached = server
    /\ openFor = Nobody /\ draft = NoDraft /\ typed = FALSE /\ cleared = FALSE
    /\ wire = {} /\ mountedAt = 0 /\ prompting = "no" /\ submits = 0 /\ others = 0

FormTypeOK ==
    /\ form \in Forms
    /\ server \in [Entities -> Texts] /\ cached \in [Entities -> Texts]
    /\ openFor \in Entities \cup {Nobody}
    /\ draft \in [of : Entities \cup {Nobody}, text : Texts]
    /\ typed \in BOOLEAN /\ cleared \in BOOLEAN
    /\ wire \subseteq FormRequest /\ mountedAt \in 0 .. MaxSent
    /\ prompting \in {"no", "up", "saved", "affected"}
    /\ submits \in 0 .. MaxSent /\ others \in 0 .. MaxOthers

Empty(e) == [of |-> e, text |-> "blank"]
Filled(source, e) ==
    IF form.draft = "entity" THEN [of |-> e, text |-> source[e]] ELSE Empty(e)

\* The form has changes that are not saved.
Dirty == typed \/ (form.compares /\ openFor # Nobody /\ draft.text # cached[openFor])

\* The requests that the mounted form knows of, and whether its submit button
\* is disabled.
InFlight == {r \in wire : r.nr > mountedAt}
Busy ==
    CASE form.guard = "all" -> InFlight # {}
      [] form.guard = "first part" -> \E r \in InFlight : r.part = 1
      [] form.guard = "none" -> FALSE

-----------------------------------------------------------------------------
\* Opening, typing, giving up

OpenForm(e) ==
    /\ openFor = Nobody /\ prompting # "up" /\ (form.lone => e = TheOne)
    /\ openFor' = e
    /\ mountedAt' = IF form.mounts = "anew" THEN submits ELSE mountedAt
    /\ IF form.seeds = "once" /\ draft # NoDraft
         THEN UNCHANGED <<draft, typed>>
         ELSE draft' = Filled(cached, e) /\ typed' = FALSE
    /\ UNCHANGED <<form, server, cached, cleared, wire, prompting, submits, others>>

Type ==
    /\ openFor # Nobody /\ form.draft # "none" /\ prompting # "up"
    /\ form.locked => ~Busy
    /\ draft' = [of |-> openFor, text |-> "mine"] /\ typed' = TRUE /\ cleared' = FALSE
    /\ UNCHANGED <<form, server, cached, openFor, wire, mountedAt, prompting, submits, others>>

\* "Verwerfen" beside the save button.
Undo ==
    /\ form.undoes /\ openFor # Nobody /\ prompting # "up" /\ ~Busy /\ Dirty
    /\ draft' = Filled(cached, openFor) /\ typed' = FALSE
    /\ UNCHANGED <<form, server, cached, openFor, cleared, wire, mountedAt, prompting, submits,
                   others>>

\* A form that is seeded once stays mounted and keeps its draft.
Away ==
    /\ openFor' = Nobody /\ cleared' = FALSE
    /\ IF form.seeds = "once"
         THEN UNCHANGED <<draft, typed>>
         ELSE draft' = NoDraft /\ typed' = FALSE

Cancel ==
    /\ openFor # Nobody /\ form.lives \in {"dialog", "entry"} /\ prompting # "up"
    /\ form.held => ~Busy
    /\ Away /\ prompting' = "no"
    /\ UNCHANGED <<form, server, cached, wire, mountedAt, submits, others>>

\* The page asks about a dirty tab, and about any new row.
Asks == form.prompt # "none" /\ (form.lives = "entry" \/ (Dirty /\ ~cleared))

\* Another tab, page or conversation is chosen.
LeaveForm ==
    /\ openFor # Nobody /\ form.lives \in {"tab", "entry"} /\ prompting # "up"
    /\ IF Asks THEN prompting' = "up" /\ UNCHANGED formShown
               ELSE Away /\ prompting' = "no"
    /\ UNCHANGED <<form, server, cached, wire, mountedAt, submits, others>>

\* The prompt: "Verwerfen", "Abbrechen" and "Speichern & Weiter".
Discard ==
    /\ prompting = "up" /\ (form.lives = "tab" /\ form.held => ~Busy)
    /\ prompting' = "no" /\ Away
    /\ UNCHANGED <<form, server, cached, wire, mountedAt, submits, others>>

Stay ==
    /\ prompting = "up"
    /\ prompting' = "no"
    /\ UNCHANGED <<form, server, cached, formShown, wire, mountedAt, submits, others>>

SaveAndContinue ==
    /\ prompting = "up" /\ (form.lives = "tab" /\ form.held => ~Busy)
    /\ prompting' = "saved"
    /\ IF form.prompt = "stays" THEN UNCHANGED formShown ELSE Away
    /\ UNCHANGED <<form, server, cached, wire, mountedAt, submits, others>>

-----------------------------------------------------------------------------
\* Requests

Submit ==
    /\ openFor # Nobody /\ prompting \notin {"up", "affected"} /\ ~Busy /\ submits < MaxSent
    /\ form.draft # "none" => draft.text # "blank"
    /\ form.dirtyOnly => Dirty
    /\ submits' = submits + 1
    /\ wire' = wire \cup {[to |-> openFor, text |-> draft.text, part |-> 1, nr |-> submits']}
    /\ CASE form.empties # "sent" -> UNCHANGED formShown
         [] form.empties = "sent" /\ form.draft = "none" -> Away
         [] OTHER -> draft' = Empty(openFor) /\ typed' = FALSE /\ UNCHANGED <<openFor, cleared>>
    /\ UNCHANGED <<form, server, cached, mountedAt, prompting, others>>

Close == openFor' = Nobody /\ draft' = NoDraft /\ typed' = FALSE /\ cleared' = FALSE

\* A form that closes takes along the names of what stands in the way.
MessageGoes == prompting' = IF openFor' = Nobody /\ prompting # "up" THEN "no" ELSE prompting

\* The mounted form sees the answer to r.
Local(r) == form.mounts = "always" \/ (openFor # Nobody /\ r.nr > mountedAt)

\* The last request was accepted: whichever dialog is open closes; a tab stays,
\* and is emptied, filled anew or no longer dirty.
DialogFinished(r) ==
    IF (form.draft = "none" /\ form.empties = "sent") \/ ~(Local(r) \/ form.hears)
      THEN UNCHANGED formShown
      ELSE IF form.empties = "never" THEN Away ELSE Close

TabFinished(r) ==
    /\ UNCHANGED openFor
    /\ cleared' = (cleared \/ (form.clears /\ openFor # Nobody))
    /\ IF form.empties # "sent" /\ Local(r) /\ openFor = r.to /\ draft.text = r.text
         THEN /\ typed' = FALSE
              /\ draft' = CASE form.seeds = "clean" -> Filled(cached, openFor)
                            [] form.empties = "accepted" -> Empty(openFor)
                            [] OTHER -> draft
         ELSE UNCHANGED <<draft, typed>>

AcceptForm(r) ==
    /\ server' = IF r.part = 1 THEN [server EXCEPT ![r.to] = r.text] ELSE server
    /\ IF r.part < form.parts
         THEN wire' = (wire \ {r}) \cup {[r EXCEPT !.part = 2]} /\ UNCHANGED formShown
         ELSE /\ wire' = wire \ {r}
              /\ IF form.lives = "tab" THEN TabFinished(r) ELSE DialogFinished(r)
    /\ MessageGoes
    /\ UNCHANGED <<form, cached, mountedAt, submits, others>>

\* The error is shown, and the form mostly left as it is; some pages' handlers
\* catch the error, so that the form takes any answer for success.
RefuseForm(r) ==
    /\ wire' = wire \ {r}
    /\ \/ form.empties # "answered" /\ UNCHANGED formShown /\ MessageGoes
       \/ (form.empties = "answered" \/ form.refusal = "closes") /\ Close /\ MessageGoes
       \/ /\ form.refusal = "affected" /\ Local(r) /\ openFor # Nobody
          /\ prompting' = "affected" /\ UNCHANGED formShown
       \/ /\ form.refusal = "resets" /\ Local(r) /\ openFor # Nobody
          /\ draft' = Filled(cached, openFor) /\ typed' = FALSE
          /\ UNCHANGED <<openFor, cleared, prompting>>
    /\ UNCHANGED <<form, server, cached, mountedAt, submits, others>>

-----------------------------------------------------------------------------
\* The cache and the other users

Refills == openFor # Nobody /\ (form.seeds = "follows" \/ (form.seeds = "clean" /\ ~Dirty))

\* A form that follows is filled with what it was handed when it was opened, or
\* with what has arrived; the lists of names may arrive together with it.
RefetchForm ==
    /\ cached # server
    /\ cached' = server /\ cleared' = FALSE
    /\ \/ /\ Refills
          /\ draft' \in {Filled(cached, openFor), Filled(server, openFor)} /\ typed' = FALSE
       \/ /\ form.seeds = "lists" /\ openFor # Nobody
          /\ draft' = Filled(cached, openFor) /\ typed' = FALSE
       \/ ~Refills /\ UNCHANGED <<draft, typed>>
    /\ UNCHANGED <<form, server, openFor, wire, mountedAt, prompting, submits, others>>

OtherWrites(e) ==
    /\ others < MaxOthers
    /\ others' = others + 1 /\ server' = [server EXCEPT ![e] = "theirs"]
    /\ UNCHANGED <<form, cached, formShown, wire, mountedAt, prompting, submits>>

FormNext ==
    \/ \E e \in Entities : OpenForm(e) \/ OtherWrites(e)
    \/ Type \/ Undo \/ Cancel \/ LeaveForm \/ Discard \/ Stay \/ SaveAndContinue \/ Submit
    \/ \E r \in wire : AcceptForm(r) \/ RefuseForm(r)
    \/ RefetchForm

FormSpec == FormInit /\ [][FormNext]_formVars

-----------------------------------------------------------------------------
\* Properties

\* The forms that lose what was typed into them.
Forgetful ==
    \* filled anew while the user types
    {"AddEditClassRestrictionDialog", "AddEditSubjectMorningPreferenceDialog",
     "AddEditSubjectPreferredSlotDialog", "EditNote", "HandoverNoteEditor", "OverrideRow",
     "StundentafelTab", "UserRolesTab",
    \* "Speichern & Weiter" that saves nothing
     "ConstraintWeightsTab", "NewOverrideRow", "SchoolDetailsTab", "TimeGridTab",
    \* left without a question
     "AutonomousDaysList", "ErmaessigungenList", "ExcuseForm", "GroupRuleBuilderTable",
     "HolidaysList", "LehrverpflichtungTab", "StammdatenTab", "StudentStammdatenTab",
     "VerfuegbarkeitsGrid", "VerfuegbarkeitsMobileList",
    \* closed by a refusal, or emptied before the answer
     "LinkPersonDialog", "MessageReplyInput", "RoomBookingDialog"}

Forgets == typed /\ draft'.text # "mine" /\ form.name \notin Forgetful

GivenUp == Cancel \/ Discard \/ Undo

\* The forms that send again what is on its way, or to one what was typed for
\* another.
Misdirected ==
    \* not disabled while the request is on its way
    {"ArchiveStudentDialog", "ArchiveTeacherDialog", "AutonomousDayRow",
     "ClassRestrictionsTab", "ClassStudentsTab", "DisableUserDialog",
     "EnableUserDialog", "GroupOverridesPanel", "GroupRuleRow", "HolidayRow",
     "HomeworkExamList", "ImportWizard", "KeycloakLinkSection", "NotificationList",
     "ParentSearchPopover", "ResetStundentafel", "RestoreStudentDialog",
     "RestrictionSwitch", "StudentParentsTab", "SubjectMorningSubTab",
     "SubjectPreferredSlotSubTab", "UnlinkPersonDialog",
    \* disabled during the first of two requests only
     "ComposeDialog", "ExcuseForm",
    \* mounted anew, without the request of the last time
     "AddNote", "AutonomousDaysList", "ClassStammdatenTab",
     "ConstraintWeightsTab", "DeleteClassDialog", "DeleteStudentDialog",
     "DeleteSubjectDialog", "DeleteTeacherDialog", "EditExam", "EditGrade",
     "EditHomework", "EditNote", "GroupRuleBuilderTable", "HolidaysList",
     "InlineCreateParentForm", "MoveStudentDialog", "NewOverrideRow", "OverrideRow",
     "SchoolDetailsTab", "StundentafelTab", "TimeGridTab", "UserRolesTab",
    \* open for the next conversation with the draft for the last
     "MessageReplyInput"}

Sends == submits' # submits /\ form.name \notin Misdirected

ItsOwn == draft.of = openFor /\ \A r \in wire : r.to # openFor

\* What the user has typed disappears only when the user gives it up, or with
\* the answer to an accepted request; and a request carries what was typed for
\* the entity it is sent to, while no other one for that entity is on its way.
DraftsAreSafe ==
    [][/\ Forgets => GivenUp \/ \E r \in wire : AcceptForm(r)
       /\ Sends => ItsOwn]_formVars

\* What it takes: a form that nothing but its user fills anew, that keeps what
\* was typed until the answer, and after a refusal, and asks before it goes;
\* and one that is disabled until then whenever it is open, and has a draft of
\* its own for each entity.
KeepsDraft(f) ==
    \/ f.draft = "none"
    \/ /\ f.seeds \notin {"follows", "lists"} /\ f.empties \notin {"sent", "answered"}
       /\ f.refusal \notin {"closes", "resets"} /\ ~f.clears
       /\ f.seeds = "once" \/ f.prompt = "stays" \/ f.lives = "dialog"

SendsItsOwn(f) == f.guard = "all" /\ f.mounts = "always" /\ (f.seeds = "once" => f.lone)

\* Refuted for nearly every dialog: a late answer closes the dialog its request
\* was sent from, and no other.
LateAnswersAreHarmless ==
    [][\A r \in wire : AcceptForm(r) /\ openFor # Nobody /\ openFor # r.to
        => UNCHANGED <<openFor, draft, typed>>]_formVars
=============================================================================
