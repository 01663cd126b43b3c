--------------------------- MODULE WebComponents ---------------------------
(***************************************************************************)
(* The components that mount hooks of their own, wherever a page renders   *)
(* them.  The dialogs and tabs whose draft matters are in the modules of   *)
(* the forms; their hooks are listed with the page.                        *)
(***************************************************************************)
EXTENDS AdminHooks, SchoolDayHooks

Mounts(queries, mutations) == [queries |-> queries, actions |-> mutations]

\* The shell around every page
NotificationBell ==
    Mounts({useNotifications}, {useMarkNotificationRead, useMarkAllNotificationsRead})

\* The number of unread messages is added up from the list of conversations.
AppSidebar == Mounts({useConversations}, {})

-----------------------------------------------------------------------------
\* Administration

DashboardChecklist            == Mounts({useDashboardStatus}, {})
AuditTable                    == Mounts({useAuditEntries}, {})
JobsTab                       == Mounts({useDsgvoJobs}, {})
TeacherSearchPopover          == Mounts({useTeacherSearch}, {})
SubjectAffectedEntitiesDialog == Mounts({useSubject}, {})
UserFilterBar                 == Mounts({useRoles}, {})
EffectivePermissionsTab       == Mounts({useEffectivePermissions}, {})
OverridesSection              == Mounts({usePermissionOverrides}, {})
PersonAutocompletePopover     ==
    Mounts({useTeacherSearch, useStudentSearch, useParentSearch}, {})

\* Solve runs and solver tuning
FeasibilityCard          == Mounts({useFeasibility}, {})
SolveReportCard          == Mounts({useSolveReport}, {})
ConflictsCard            == Mounts({useTimetableConflicts}, {})
GeneratorPageWeightsCard == Mounts({useConstraintWeights}, {})
ConstraintCatalogTab     == Mounts({useConstraintCatalog}, {})
DriftBanner              == Mounts({useConstraintWeights, useLatestTimetableRun}, {})
LastRunScoreBadge        == Mounts({useLatestTimetableRun}, {})
ClassAutocomplete        == Mounts({useClasses}, {})
SubjectAutocomplete      == Mounts({useSubjects}, {})

FairnessStatsPanel == Mounts({useSubstitutionStats}, {})

-----------------------------------------------------------------------------
\* The lesson's page: attendance, content, grades, homework and exams

AttendanceGrid    == Mounts({useAttendance}, {useBulkAttendance, useSetAllPresent})
LessonContentForm == Mounts({useRecentEntries}, {useUpdateLessonContent})

\* With its entry dialog and its weights.
GradeMatrix ==
    Mounts({useGradeMatrix, useGradeMatrixOfCategory, useGradeWeights},
           {useCreateGrade, useUpdateGrade, useDeleteGrade, useUpdateGradeWeights})

\* With the dialogs that create and edit.
HomeworkAndExams ==
    Mounts({useHomework, useExams, useExamCollisionCheck},
           {useCreateHomework, useUpdateHomework, useDeleteHomework,
            useCreateExam, useUpdateExam, useDeleteExam})

AbsenceStatisticsPanel == Mounts({useAbsenceStatistics, useTimetableClasses}, {})

-----------------------------------------------------------------------------
\* Conversations

ConversationView  == Mounts({useMessages}, {useSendMessage, useMarkRead})
ReadReceiptDetail == Mounts({useReadReceipts}, {})
=============================================================================
