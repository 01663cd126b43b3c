--------------------------- MODULE SchoolDayHooks ---------------------------
(***************************************************************************)
(* The query, mutation and socket hooks of the pages of the school day:    *)
(* plan, substitutions, class book, homework and exams, messages, rooms,   *)
(* imports and solve runs.                                                 *)
(***************************************************************************)
EXTENDS WebHook

-----------------------------------------------------------------------------
\* The plan

timetableKeys ==
    [all |-> <<"timetable", "s">>, view |-> <<"timetable", "s", "view", "p", "id", "w">>,
     editHistory |-> <<"timetable", "s", "edit-history", "run">>]
recentKey == <<"timetable-runs:recent", "s">>
conflictKey == <<"timetable-conflicts", "s", "run">>

useTimetableView ==
    Query("useTimetableView", timetableKeys.view, {"Lesson", "Substitution"})
useTeachers == Query("useTeachers", <<"teachers", "s">>, {"Teachers", "Teacher"})
useTimetableClasses == Query("useTimetableClasses", <<"classes", "s">>, {"Classes", "Class"})
useRooms == Query("useRooms", <<"rooms", "s">>, {"Room"})
useEditHistory == Query("useEditHistory", timetableKeys.editHistory, {"Edit"})
useMoveLesson == Mutation("useMoveLesson", {"Lesson", "Edit"}, {timetableKeys.all})
useRevertEdit ==
    Mutation("useRevertEdit", {"Lesson", "Edit"},
             {timetableKeys.all, timetableKeys.editHistory})

-----------------------------------------------------------------------------
\* Solve runs

useActiveTimetableRun ==
    Swallowing(Query("useActiveTimetableRun", <<"timetable-run:active", "s">>, {"Run"}))
useRecentTimetableRuns == Swallowing(Query("useRecentTimetableRuns", recentKey, {"Run"}))
useTimetableConflicts ==
    Swallowing(Query("useTimetableConflicts", conflictKey, {"Conflict"}))
useConflictSuggestions ==
    Query("useConflictSuggestions", <<"timetable-conflict-suggestions", "s", "run", "id">>,
          {"Lesson"})
useFeasibility ==
    Swallowing(Query("useFeasibility", <<"timetable-feasibility", "s">>, {"ClassSubject"}))
useSolveReport ==
    Swallowing(Query("useSolveReport", <<"timetable-report", "s", "run">>, {"Lesson", "Conflict"}))

\* Resolving may place a lesson and, with the last conflict, complete the run.
useResolveConflict ==
    Mutation("useResolveConflict", {"Conflict", "Lesson", "Run"},
             {conflictKey, <<"timetable-runs:recent">>, <<"timetable-view">>})

-----------------------------------------------------------------------------
\* Absences and substitutions

absenceKeys == [list |-> <<"absences", "s", "status">>]
substitutionKeys ==
    [all |-> <<"substitutions", "s">>, pending |-> <<"substitutions", "s", "pending">>]
rankedCandidatesKeys == [bySubstitution |-> <<"ranked-candidates", "s", "id">>]

useAbsences == Query("useAbsences", absenceKeys.list, {"Absence"})
useCreateAbsence ==
    Mutation("useCreateAbsence", {"Absence", "Substitution"},
             {<<"absences", "s">>, substitutionKeys.all})
useCancelAbsence ==
    Mutation("useCancelAbsence", {"Absence", "Substitution"},
             {<<"absences", "s">>, substitutionKeys.all})

usePendingSubstitutions ==
    Query("usePendingSubstitutions", substitutionKeys.pending, {"Substitution"})
useOfferedSubstitutions ==
    Query("useOfferedSubstitutions", <<"substitutions", "s", "offered", "t">>,
          {"Substitution"})
useMyAbsenceSubstitutions ==
    Query("useMyAbsenceSubstitutions", <<"substitutions", "s", "my-absences">>,
          {"Substitution", "Handover"})
useRankedCandidates ==
    Query("useRankedCandidates", rankedCandidatesKeys.bySubstitution, {"Substitution"})
useSubstitutionStats ==
    Query("useSubstitutionStats", <<"substitution-stats", "s", "window", "f">>,
          {"Confirmed"})

\* "Confirmed" is what the fairness statistics count; an offer does not
\* change it, a cancelled lesson does.
useAssignSubstitute ==
    Mutation("useAssignSubstitute", {"Substitution"},
             {substitutionKeys.all, <<"ranked-candidates", "id">>})
useSetEntfall ==
    Mutation("useSetEntfall", {"Substitution", "Confirmed"}, {substitutionKeys.all})
useSetStillarbeit ==
    Mutation("useSetStillarbeit", {"Substitution", "Confirmed"}, {substitutionKeys.all})
useRespondToOffer ==
    Mutation("useRespondToOffer", {"Substitution", "Confirmed"}, {substitutionKeys.all})

handoverKeys == [bySubstitution |-> <<"handover", "substitution", "id">>]

useHandoverNote == Query("useHandoverNote", handoverKeys.bySubstitution, {"Handover"})
useCreateOrUpdateHandoverNote ==
    Mutation("useCreateOrUpdateHandoverNote", {"Handover"},
             {handoverKeys.bySubstitution, <<"substitutions">>})
useUploadHandoverAttachment ==
    Mutation("useUploadHandoverAttachment", {"Handover"}, {handoverKeys.bySubstitution})

-----------------------------------------------------------------------------
\* The class book

classbookKeys ==
    [all |-> <<"classbook", "s">>, entry |-> <<"classbook", "s", "entry", "id">>,
     entryByTimetableLesson |-> <<"classbook", "s", "by-timetable-lesson", "id", "today">>,
     entryByLesson |-> <<"classbook", "s", "by-lesson", "cs", "date", "period">>,
     attendance |-> <<"classbook", "s", "attendance", "id">>,
     recent |-> <<"classbook", "s", "recent", "id">>,
     notes |-> <<"classbook", "s", "notes", "id">>]

useClassbookEntryByTimetableLesson ==
    Query("useClassbookEntryByTimetableLesson", classbookKeys.entryByTimetableLesson, {"Entry"})
useAttendance == Query("useAttendance", classbookKeys.attendance, {"Attendance"})
useRecentEntries == Query("useRecentEntries", classbookKeys.recent, {"OtherEntry"})
useNotes == Query("useNotes", classbookKeys.notes, {"Note"})
useBulkAttendance == Mutation("useBulkAttendance", {"Attendance"}, {classbookKeys.attendance})
useSetAllPresent == Mutation("useSetAllPresent", {"Attendance"}, {classbookKeys.attendance})
useUpdateLessonContent ==
    Mutation("useUpdateLessonContent", {"Entry"}, {classbookKeys.entry})
useCreateNote == Mutation("useCreateNote", {"Note"}, {classbookKeys.notes})
useUpdateNote == Mutation("useUpdateNote", {"Note"}, {classbookKeys.all})
useDeleteNote == Mutation("useDeleteNote", {"Note"}, {classbookKeys.all})

gradeKeys ==
    [all |-> <<"grades", "s">>, matrix |-> <<"grades", "s", "matrix", "id", "all">>,
     weights |-> <<"grades", "s", "weights", "id">>]

useGradeMatrix == Query("useGradeMatrix", gradeKeys.matrix, {"Grade", "GradeWeight"})

\* The same hook when the matrix is filtered to one category.
useGradeMatrixOfCategory ==
    Query("useGradeMatrixOfCategory", <<"grades", "s", "matrix", "id", "category">>,
          {"Grade", "GradeWeight"})
useGradeWeights == Query("useGradeWeights", gradeKeys.weights, {"GradeWeight"})
useCreateGrade == Mutation("useCreateGrade", {"Grade"}, {gradeKeys.all})
useUpdateGrade == Mutation("useUpdateGrade", {"Grade"}, {gradeKeys.all})
useDeleteGrade == Mutation("useDeleteGrade", {"Grade"}, {gradeKeys.all})
useUpdateGradeWeights ==
    Mutation("useUpdateGradeWeights", {"GradeWeight"}, {gradeKeys.weights, gradeKeys.matrix})

excuseKeys ==
    [all |-> <<"excuses", "s">>, list |-> <<"excuses", "s", "list", "status">>,
     detail |-> <<"excuses", "s", "id">>, statistics |-> <<"statistics", "s", "id", "f">>,
     studentStatistics |-> <<"statistics", "s", "student", "id">>]

useExcuses == Query("useExcuses", excuseKeys.list, {"Excuse"})
useCreateExcuse == Mutation("useCreateExcuse", {"Excuse"}, {excuseKeys.all})

\* Accepting an excuse also excuses the absences it covers.
useReviewExcuse == Mutation("useReviewExcuse", {"Excuse", "Attendance"}, {excuseKeys.all})
useAbsenceStatistics == Query("useAbsenceStatistics", excuseKeys.statistics, {"Attendance"})

-----------------------------------------------------------------------------
\* Homework and exams

homeworkKeys ==
    [all |-> <<"homework", "s">>, list |-> <<"homework", "s", "id">>,
     byLesson |-> <<"homework", "by-lesson", "s", "id">>]

useHomework == Query("useHomework", homeworkKeys.list, {"Homework"})
useCreateHomework == Mutation("useCreateHomework", {"Homework"}, {homeworkKeys.all})
useUpdateHomework == Mutation("useUpdateHomework", {"Homework"}, {homeworkKeys.all})
useDeleteHomework == Mutation("useDeleteHomework", {"Homework"}, {homeworkKeys.all})

examKeys ==
    [all |-> <<"exams", "s">>, list |-> <<"exams", "s", "id">>,
     collision |-> <<"exam-collision", "s", "id", "date">>]

useExams == Query("useExams", examKeys.list, {"Exam"})
useExamCollisionCheck == Query("useExamCollisionCheck", examKeys.collision, {"Exam"})
useCreateExam ==
    Mutation("useCreateExam", {"Exam"}, {examKeys.all, <<"exam-collision", "s">>})
useUpdateExam == Mutation("useUpdateExam", {"Exam"}, {examKeys.all})
useDeleteExam == Mutation("useDeleteExam", {"Exam"}, {examKeys.all})

-----------------------------------------------------------------------------
\* Messages and polls.  A message's answer carries who has read it and, when
\* it is a poll, the votes.

conversationKeys == [all |-> <<"conversations">>, list |-> <<"conversations", "s", "f">>]
messageKeys == [all |-> <<"messages">>, list |-> <<"messages", "id">>]
pollKeys == [all |-> <<"polls">>, results |-> <<"polls", "id", "results">>]

useConversations ==
    Query("useConversations", conversationKeys.list, {"Conversation", "Message", "Unread"})
useMessages == Query("useMessages", messageKeys.list, {"Message", "Receipt", "Vote"})
useReadReceipts == Query("useReadReceipts", <<"readReceipts", "id">>, {"Receipt"})

useCreateConversation ==
    Mutation("useCreateConversation", {"Conversation"}, {conversationKeys.all})
useSendMessage ==
    Mutation("useSendMessage", {"Message"}, {messageKeys.list, conversationKeys.all})
useMarkRead == Mutation("useMarkRead", {"Unread"}, {conversationKeys.all})
useCastVote == Mutation("useCastVote", {"Vote"}, {pollKeys.results, messageKeys.all})
useClosePoll == Mutation("useClosePoll", {"Vote"}, {pollKeys.results, messageKeys.all})

-----------------------------------------------------------------------------
\* Notifications, rooms, resources, calendar, imports

notificationKeys == [all |-> <<"notifications">>, list |-> <<"notifications", "list", "f">>]

useNotifications == Query("useNotifications", notificationKeys.list, {"Notification"})
useMarkNotificationRead ==
    Mutation("useMarkNotificationRead", {"Notification"}, {notificationKeys.all})
useMarkAllNotificationsRead ==
    Mutation("useMarkAllNotificationsRead", {"Notification"}, {notificationKeys.all})

roomKeys ==
    [availability |-> <<"rooms", "s", "availability", "day", "f">>,
     bookings |-> <<"rooms", "s", "bookings">>]

useRoomAvailability ==
    Query("useRoomAvailability", roomKeys.availability, {"Room", "Booking", "Lesson"})
useBookRoom == Mutation("useBookRoom", {"Booking"}, {<<"rooms", "s">>})
useCancelBooking == Mutation("useCancelBooking", {"Booking"}, {<<"rooms", "s">>})

resourceKeys == [all |-> <<"resources", "s">>]

useResources == Query("useResources", resourceKeys.all, {"Resource"})
useCreateResource == Mutation("useCreateResource", {"Resource"}, {resourceKeys.all})
useUpdateResource == Mutation("useUpdateResource", {"Resource"}, {resourceKeys.all})
useDeleteResource == Mutation("useDeleteResource", {"Resource"}, {resourceKeys.all})

calendarTokenKeys == [all |-> <<"calendar-token", "s">>]

useCalendarToken == Query("useCalendarToken", calendarTokenKeys.all, {"CalendarToken"})
useGenerateCalendarToken ==
    Mutation("useGenerateCalendarToken", {"CalendarToken"}, {calendarTokenKeys.all})
useRevokeCalendarToken ==
    Mutation("useRevokeCalendarToken", {"CalendarToken"}, {calendarTokenKeys.all})

importKeys == [history |-> <<"import-history", "s">>, job |-> <<"import", "s", "job", "id">>]

useImportHistory == Query("useImportHistory", importKeys.history, {"Import"})
useUploadImport == Mutation("useUploadImport", {"Import"}, {})
useDryRun == Mutation("useDryRun", {"Import"}, {})
useCommitImport == Mutation("useCommitImport", {"Import"}, {importKeys.history})

-----------------------------------------------------------------------------
\* What the sockets' handlers do with the server's events

\* A plan edit is announced by no event: nothing calls the gateway method that
\* sends 'timetable:changed'.  On a reconnection the handler asks again for
\* the plan, of which it may have missed any change.
timetableCancelled ==
    Handler("timetable:cancelled", {"Substitution"}, {timetableKeys.all})
timetableSubstitution ==
    Handler("timetable:substitution", {"Substitution"}, {timetableKeys.all})
timetableRoomSwap ==
    Handler("timetable:room-swap", {"Booking"},
            {timetableKeys.all, <<"rooms", "s", "availability">>})
timetableConnect == Handler("connect", {"Lesson"}, {timetableKeys.all})
useTimetableSocket ==
    {timetableCancelled, timetableSubstitution, timetableRoomSwap, timetableConnect}

messageNew ==
    Handler("message:new", {"Message"}, {messageKeys.list, conversationKeys.all})
messageRead == Handler("message:read", {"Receipt"}, {messageKeys.all})
pollVote == Handler("poll:vote", {"Vote"}, {<<"poll", "id">>})
conversationNew == Handler("conversation:new", {"Conversation"}, {conversationKeys.all})
useMessagingSocket == {messageNew, messageRead, pollVote, conversationNew}

notificationNew == Handler("notification:new", {"Notification"}, {notificationKeys.all})
notificationBadge == Handler("notification:badge", {"Notification"}, {notificationKeys.all})
useNotificationSocket == {notificationNew, notificationBadge}

attendanceUpdated ==
    OfPage(Handler("classbook:attendance-updated", {"Attendance"}, {classbookKeys.attendance}))
gradeAdded == OfPage(Handler("classbook:grade-added", {"Grade"}, {gradeKeys.all}))
excuseUpdated == OfPage(Handler("classbook:excuse-updated", {"Excuse"}, {excuseKeys.all}))
entryUpdated == OfPage(Handler("classbook:entry-updated", {"Entry"}, {classbookKeys.entry}))
useClassbookSocket == {attendanceUpdated, gradeAdded, excuseUpdated, entryUpdated}

importComplete == OfPage(Handler("import:complete", {"Import"}, {importKeys.history}))
useImportSocket == {importComplete}

solveComplete ==
    OfPage(Handler("solve:complete", {"Run", "Conflict", "Lesson"},
                   {<<"timetable">>, <<"timetable-runs">>}))
useSolverSocket == {solveComplete}
=============================================================================
