------------------------------ MODULE WebPages ------------------------------
(***************************************************************************)
(* The pages of the web client: which hooks each has mounted together, in  *)
(* its route and the components the route renders, and which sockets it    *)
(* listens on.  The sidebar and header of every page are the shell's.      *)
(***************************************************************************)
EXTENDS WebComponents

Page(name, queries, mutations, handlers) ==
    [name |-> name, queries |-> queries, actions |-> mutations \cup handlers]

\* A page and the components it renders.
With(page, components) ==
    [name |-> page.name,
     queries |-> page.queries \cup UNION {c.queries : c \in components},
     actions |-> page.actions \cup UNION {c.actions : c \in components}]

\* The layout's three sockets; every page of a signed-in user has them.
layoutSockets == useTimetableSocket \cup useNotificationSocket \cup useMessagingSocket

Shell ==
    With(Page("shell", {}, {}, layoutSockets), {NotificationBell, AppSidebar})

\* The admin dashboard is the page an administrator returns to: its answer may
\* be ten seconds old and then be shown again without being asked for.
AdminIndex ==
    With(Page("admin", {}, {}, {}), {DashboardChecklist})

SchoolSettings ==
    Page("admin/school.settings",
         {useFirstSchool, useSchool, useSchoolYears, useTimeGrid, useActiveTimetableRun},
         {useCreateSchool, useUpdateSchool, updateAbMut, useCreateSchoolYear,
          useActivateSchoolYear, useDeleteSchoolYear, useCreateHoliday, useDeleteHoliday,
          useCreateAutonomousDay, useDeleteAutonomousDay, useUpdateTimeGrid}, {})

SubjectsPage ==
    With(Page("admin/subjects", {useSubjects},
              {useCreateSubject, useUpdateSubject, useDeleteSubject}, {}),
         {SubjectAffectedEntitiesDialog})

ClassesPage ==
    With(Page("admin/classes", {useClasses, useRooms, useSchoolYears},
              {useCreateClass, useDeleteClass}, {}),
         {TeacherSearchPopover})

ClassPage ==
    Page("admin/classes/id",
         {useClass, useClassSubjects, useGroupDerivationRules, useSubjectsList,
          useClassGroups, useStudents, useRooms, useSchool, useTeacherSearch,
          useTeacherOptions},
         {useUpdateClass, useDeleteClass, useAddGroupMember, useRemoveGroupMember,
          useApplyStundentafel, useUpdateClassSubjects, useResetStundentafel,
          useCreateRule, useUpdateRule, useDeleteRule, useApplyRules,
          useMoveStudent, useBulkMoveStudents, useRemoveStudentFromClass}, {})

\* Its dialog asks for the preview each time it opens.
ApplyRulesDialog ==
    Page("admin/classes/id apply", {useClass, useApplyRulesPreview}, {useApplyRules}, {})

StudentsPage ==
    Page("admin/students", {useStudents, useClassNames, useSchoolYears},
         {useCreateStudent, useArchiveStudent, useRestoreStudent, useDeleteStudent,
          useMoveStudent, useBulkMoveStudents}, {})

StudentPage ==
    Page("admin/students/id", {useStudent, useParentsByEmail, useClassNames},
         {useUpdateStudent, useArchiveStudent, useRestoreStudent, useDeleteStudent,
          useMoveStudent, useCreateParent, useLinkParentToStudent,
          useUnlinkParentFromStudent}, {})

TeachersPage ==
    Page("admin/teachers", {useAdminTeachers}, {useCreateTeacher, useDeleteTeacher}, {})

TeacherPage ==
    Page("admin/teachers/id", {useTeacher, useKeycloakUsers},
         {useUpdateTeacher, useLinkKeycloak, useUnlinkKeycloak}, {})

UsersPage ==
    With(Page("admin/users", {useUsers}, {useSetUserEnabled}, {}), {UserFilterBar})

UserPage ==
    With(Page("admin/users/id", {useUser, useRoles, useUserRoles},
              {useSetUserEnabled, useUpdateUserRoles, useLinkPerson, useUnlinkPerson,
               useCreatePermissionOverride, useUpdatePermissionOverride,
               useDeletePermissionOverride}, {}),
         {EffectivePermissionsTab, OverridesSection, PersonAutocompletePopover})

DsgvoPage ==
    With(Page("admin/dsgvo",
              {useConsentsAdmin, useRetentionPolicies, useDsfaEntries, useVvzEntries,
               useDsgvoDeletionJob, useDsgvoExportJob},
              {useWithdrawConsent, useCreateRetentionPolicy, useUpdateRetentionPolicy,
               useDeleteRetentionPolicy, useCreateDsfa, useUpdateDsfa, useDeleteDsfa,
               useCreateVvz, useUpdateVvz, useDeleteVvz, useRequestDeletion,
               useRequestExport}, {}),
         {JobsTab})

AuditLogPage ==
    With(Page("admin/audit-log", {}, {}, {}), {AuditTable})

SolverTuningPage ==
    With(Page("admin/solver-tuning", {useConstraintTemplates},
              {useUpdateConstraintWeights, useCreateConstraintTemplate,
               useUpdateConstraintTemplate, useDeleteConstraintTemplate,
               useSetTemplateActive}, {}),
         {ConstraintCatalogTab, DriftBanner, LastRunScoreBadge, ClassAutocomplete,
          SubjectAutocomplete})

SolverPage ==
    With(Page("admin/solver", {useRecentTimetableRuns, useConflictSuggestions},
              {useResolveConflict}, useSolverSocket),
         {FeasibilityCard, SolveReportCard, ConflictsCard, GeneratorPageWeightsCard})

\* The wizard asks for its job's state every two seconds, whatever happens.
ImportPage ==
    Page("admin/import", {useImportHistory},
         {useUploadImport, useDryRun, useCommitImport}, useImportSocket)

ResourcesPage ==
    Page("admin/resources", {useResources},
         {useCreateResource, useUpdateResource, useDeleteResource}, {})

SubstitutionsPage ==
    With(Page("admin/substitutions",
              {useAbsences, usePendingSubstitutions, useRankedCandidates, useTeachers},
              {useCreateAbsence, useCancelAbsence, useAssignSubstitute, useSetEntfall,
               useSetStillarbeit}, layoutSockets),
         {FairnessStatsPanel})

OwnSubstitutionsPage ==
    Page("teacher/substitutions",
         {useOfferedSubstitutions, useMyAbsenceSubstitutions, useHandoverNote},
         {useRespondToOffer, useCreateOrUpdateHandoverNote, useUploadHandoverAttachment},
         layoutSockets)

TimetableEditPage ==
    Page("admin/timetable-edit",
         {useTimetableView, useEditHistory, useTimetableClasses, useTeachers, useRooms},
         {useMoveLesson, useRevertEdit}, layoutSockets)

TimetableHistoryPage ==
    Page("admin/timetable-history", {useTimetableView, useEditHistory}, {useRevertEdit},
         layoutSockets)

TimetablePage ==
    Page("timetable",
         {useTimetableView, useHomework, useExams, useTimetableClasses, useTeachers, useRooms},
         {}, layoutSockets)

LessonPage ==
    With(Page("classbook/lessonId", {useClassbookEntryByTimetableLesson, useNotes},
              {useCreateNote, useUpdateNote, useDeleteNote}, useClassbookSocket),
         {AttendanceGrid, LessonContentForm, GradeMatrix, HomeworkAndExams})

ExcusesPage ==
    Page("excuses", {useExcuses}, {useCreateExcuse, useReviewExcuse}, {})

StatisticsPage ==
    With(Page("statistics/absence", {}, {}, {}), {AbsenceStatisticsPanel})

MessagesPage ==
    With(Page("messages", {useConversations},
              {useCreateConversation, useCastVote, useClosePoll}, layoutSockets),
         {ConversationView, ReadReceiptDetail})

RoomsPage ==
    Page("rooms", {useRoomAvailability}, {useBookRoom, useCancelBooking}, layoutSockets)

SettingsPage ==
    Page("settings", {useCalendarToken},
         {useGenerateCalendarToken, useRevokeCalendarToken}, {})

Pages ==
    {Shell, SchoolSettings, SubjectsPage, ClassesPage, ClassPage, ApplyRulesDialog,
     StudentsPage, StudentPage, TeachersPage, TeacherPage, UsersPage, UserPage, DsgvoPage,
     AuditLogPage, SolverTuningPage, SolverPage, ImportPage, ResourcesPage,
     SubstitutionsPage, OwnSubstitutionsPage, TimetableEditPage, TimetableHistoryPage,
     TimetablePage, LessonPage, ExcusesPage, StatisticsPage, MessagesPage, RoomsPage,
     SettingsPage}

\* A hook of a page and a query of the same page, or the checklist the
\* administrator goes back to, that shows what the hook changes.
PairsOf(p) == {x \in p.actions \X p.queries : Concerns(x[1], x[2])}

PairsOnReturn(p) ==
    {x \in p.actions \X AdminIndex.queries : x[1].by = "user" /\ Concerns(x[1], x[2])}

Pairs == UNION {PairsOf(p) \cup PairsOnReturn(p) : p \in Pages}
=============================================================================
