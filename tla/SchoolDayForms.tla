--------------------------- MODULE SchoolDayForms ---------------------------
(***************************************************************************)
(* The forms of the teachers', parents' and pupils' pages: class book,     *)
(* homework and exams, messages, substitutions, bookings, import.          *)
(***************************************************************************)
EXTENDS WebForm

\* Class book (LessonContent has the form that saves itself).  An excuse is
\* stored, then its attachment.
\* mutant: filled anew with every refetch of the matrix
FollowingGradeEntry == Following(EditDialog("GradeEntryDialog"))

GradeEntryDialog  == EditDialog("GradeEntryDialog")
EditGrade         == Awaited(EditDialog("EditGrade"))
DeleteGrade       == Command("DeleteGrade")
WeightDisplay     == NeverEmptied(Lone(SeededOnce(EditDialog("WeightDisplay"))))
AddNote           == Awaited(CreateDialog("AddNote"))
EditNote          == Awaited(Following(EditDialog("EditNote")))
StudentNoteList   == Command("StudentNoteList")
ExcuseForm        == HalfGuarded(TwoParts(EntryTab("ExcuseForm")))
ExcuseReviewList  == EachOne(CreateDialog("ExcuseReviewList"))

ClassBookForms ==
    {GradeEntryDialog, EditGrade, DeleteGrade, WeightDisplay, AddNote, EditNote,
     StudentNoteList, ExcuseForm, ExcuseReviewList}

-----------------------------------------------------------------------------
\* Homework and exams: the lesson's page keeps the dialogs that create mounted,
\* the list mounts those that edit.
HomeworkDialog   == NeverEmptied(SeededOnce(CreateDialog("HomeworkDialog")))
ExamDialog       == NeverEmptied(SeededOnce(CreateDialog("ExamDialog")))
EditHomework     == Anew(EditDialog("EditHomework"))
EditExam         == Anew(EditDialog("EditExam"))
HomeworkExamList == Unguarded(Command("HomeworkExamList"))

HomeworkForms == {HomeworkDialog, ExamDialog, EditHomework, EditExam, HomeworkExamList}

-----------------------------------------------------------------------------
\* Messages.  The reply's field stays mounted from one conversation to the next
\* and is emptied when the reply leaves; a new conversation's attachments
\* follow its first message.
MessageReplyInput  == EachOne(SeededOnce(EmptiedAtOnce(EntryTab("MessageReplyInput"))))
ComposeDialog      == HalfGuarded(TwoParts(SeededOnce(CreateDialog("ComposeDialog"))))
AbsenceQuickAction == SeededOnce(CreateDialog("AbsenceQuickAction"))
PollDisplay        == Command("PollDisplay")
NotificationList   == Unguarded(Command("NotificationList"))

MessagingForms ==
    {MessageReplyInput, ComposeDialog, AbsenceQuickAction, PollDisplay, NotificationList}

-----------------------------------------------------------------------------
\* Substitutions: a note is stored, then its attachment.
AbsenceForm         == Held(CreateDialog("AbsenceForm"))
AbsenceList         == Command("AbsenceList")
CandidateList       == EmptiedAnyway(Command("CandidateList"))
AssignmentActions   == EmptiedAnyway(Command("AssignmentActions"))
SubstituteOfferCard == Lone(SeededOnce(CreateDialog("SubstituteOfferCard")))
HandoverNoteEditor  == Following(TwoParts(EditDialog("HandoverNoteEditor")))

SubstitutionForms ==
    {AbsenceForm, AbsenceList, CandidateList, AssignmentActions, SubstituteOfferCard,
     HandoverNoteEditor}

-----------------------------------------------------------------------------
\* Rooms and resources, the timetable's history, the calendar link, the import.
RoomBookingDialog   == EachOne(EmptiedAtOnce(CreateDialog("RoomBookingDialog")))
CancelBookingDialog == Command("CancelBookingDialog")
ResourceList        == EmptiedAtOnce(Command("ResourceList"))
ResourceForm        == EditDialog("ResourceForm")
EditHistoryPanel    == Command("EditHistoryPanel")
ICalSettings        == Command("ICalSettings")
ImportWizard        == Unguarded(Command("ImportWizard"))

OtherForms ==
    {RoomBookingDialog, CancelBookingDialog, ResourceList, ResourceForm,
     EditHistoryPanel, ICalSettings, ImportWizard}

FormsOfTheDay ==
    ClassBookForms \cup HomeworkForms \cup MessagingForms \cup SubstitutionForms
        \cup OtherForms
=============================================================================
