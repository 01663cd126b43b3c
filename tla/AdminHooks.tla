----------------------------- MODULE AdminHooks -----------------------------
(***************************************************************************)
(* The query and mutation hooks of the administration pages.               *)
(***************************************************************************)
EXTENDS WebHook

\* What the setup checklist is computed from.  Every request also writes the
\* audit log, of which the checklist only asks whether it is empty.
DashboardTables ==
    {"Schools", "School", "TimeGrid", "SchoolYear", "Subjects", "Teachers", "Classes",
     "Students", "Student", "Run", "Weight", "Templates", "Retention", "Dsfa", "Vvz"}

dashboardKeys == [status |-> <<"dashboard-status">>]

useDashboardStatus ==
    Query("useDashboardStatus", dashboardKeys.status,
          DashboardTables)

-----------------------------------------------------------------------------
\* School, school years, time grid

schoolKeys == [one |-> <<"school", "s">>, list |-> <<"schools">>]

useSchool == Query("useSchool", schoolKeys.one, {"School", "AbWeek"})
useFirstSchool == Query("useFirstSchool", schoolKeys.list, {"Schools"})

\* The answer is also stored under the new school's key; no query is mounted
\* under it before the school exists.
useCreateSchool ==
    Mutation("useCreateSchool", {"Schools"}, {schoolKeys.list, dashboardKeys.status})
useUpdateSchool ==
    Mutation("useUpdateSchool", {"School"}, {schoolKeys.one, dashboardKeys.status})

\* OptionsTab brings its own: whether the school's weeks alternate.
updateAbMut ==
    Mutation("updateAbMut", {"AbWeek"},
             {schoolKeys.one, <<"timetable-run:active", "s">>})

schoolYearKeys == [all |-> <<"school-years", "s">>, one |-> <<"school-years", "s", "id">>]

useSchoolYears == Query("useSchoolYears", schoolYearKeys.all, {"SchoolYear"})

YearMutation(name) ==
    Mutation(name, {"SchoolYear"}, {schoolYearKeys.all, dashboardKeys.status})

useCreateSchoolYear == YearMutation("useCreateSchoolYear")
useActivateSchoolYear ==
    Mutation("useActivateSchoolYear", {"SchoolYear"},
             {schoolYearKeys.all, schoolKeys.one, <<"timetable-run:active", "s">>,
              dashboardKeys.status})
useDeleteSchoolYear == YearMutation("useDeleteSchoolYear")
useCreateHoliday == YearMutation("useCreateHoliday")
useDeleteHoliday == YearMutation("useDeleteHoliday")
useCreateAutonomousDay == YearMutation("useCreateAutonomousDay")
useDeleteAutonomousDay == YearMutation("useDeleteAutonomousDay")

timeGridKeys == [one |-> <<"time-grid", "s">>]

useTimeGrid == Query("useTimeGrid", timeGridKeys.one, {"TimeGrid"})
useUpdateTimeGrid ==
    Mutation("useUpdateTimeGrid", {"TimeGrid"}, {timeGridKeys.one, dashboardKeys.status})

-----------------------------------------------------------------------------
\* Subjects

subjectKeys ==
    [all |-> <<"subjects", "s">>, list |-> <<"subjects", "s", "f">>,
     detail |-> <<"subjects", "detail", "id">>]

useSubjects == Query("useSubjects", subjectKeys.list, {"Subjects", "Subject", "ClassSubject"})
useSubject == Query("useSubject", subjectKeys.detail, {"Subject", "ClassSubject"})
\* StundentafelTab brings its own list of all subjects.
useSubjectsList ==
    Swallowing(Query("useSubjectsList", <<"subjects", "s">>, {"Subjects", "Subject"}))
useCreateSubject ==
    Mutation("useCreateSubject", {"Subjects"}, {subjectKeys.all, dashboardKeys.status})
\* mutant: the open subject itself is forgotten
updateSubjectOfList ==
    Mutation("useUpdateSubject", {"Subject"}, {subjectKeys.all, dashboardKeys.status})

useUpdateSubject ==
    Mutation("useUpdateSubject", {"Subject"},
             {subjectKeys.all, subjectKeys.detail, dashboardKeys.status})
useDeleteSubject ==
    Mutation("useDeleteSubject", {"Subjects"}, {subjectKeys.all, dashboardKeys.status})

-----------------------------------------------------------------------------
\* Classes, their groups, Stundentafel and derivation rules

classKeys ==
    [all |-> <<"classes", "s">>, list |-> <<"classes", "s", "f">>,
     detail |-> <<"classes", "detail", "id">>]

useClasses == Query("useClasses", classKeys.list, {"Classes", "Class"})
\* The students' pages bring their own list of all classes.
useClassNames ==
    Swallowing(Query("useClassNames", <<"classes", "s">>, {"Classes", "Class"}))
useClass ==
    Query("useClass", classKeys.detail, {"Class", "Student", "Membership", "ClassSubject"})
useCreateClass ==
    Mutation("useCreateClass", {"Classes"}, {classKeys.all, dashboardKeys.status})
useUpdateClass ==
    Mutation("useUpdateClass", {"Class"},
             {classKeys.all, classKeys.detail, dashboardKeys.status})
useDeleteClass ==
    Mutation("useDeleteClass", {"Classes"}, {classKeys.all, dashboardKeys.status})

classGroupKeys == [all |-> <<"class-groups", "id">>]

useClassGroups == Query("useClassGroups", classGroupKeys.all, {"Membership"})
useAddGroupMember ==
    Mutation("useAddGroupMember", {"Membership"}, {classGroupKeys.all, classKeys.detail})
useRemoveGroupMember ==
    Mutation("useRemoveGroupMember", {"Membership"}, {classGroupKeys.all, classKeys.detail})

classSubjectKeys == [all |-> <<"class-subjects", "id">>]

useClassSubjects == Query("useClassSubjects", classSubjectKeys.all, {"ClassSubject"})

TafelMutation(name) ==
    Mutation(name, {"ClassSubject"}, {classSubjectKeys.all, classKeys.detail})

useApplyStundentafel == TafelMutation("useApplyStundentafel")
useUpdateClassSubjects == TafelMutation("useUpdateClassSubjects")
useResetStundentafel == TafelMutation("useResetStundentafel")

ruleKeys ==
    [all |-> <<"derivation-rules", "id">>, preview |-> <<"apply-rules", "preview", "id">>]

useGroupDerivationRules == Query("useGroupDerivationRules", ruleKeys.all, {"Rule"})
useCreateRule == Mutation("useCreateRule", {"Rule"}, {ruleKeys.all})
useUpdateRule == Mutation("useUpdateRule", {"Rule"}, {ruleKeys.all})
useDeleteRule == Mutation("useDeleteRule", {"Rule"}, {ruleKeys.all})
useApplyRulesPreview ==
    NeverFresh(Query("useApplyRulesPreview", ruleKeys.preview, {"Rule", "Membership"}))
useApplyRules ==
    Mutation("useApplyRules", {"Membership"}, {classKeys.detail, ruleKeys.preview})

-----------------------------------------------------------------------------
\* Students and parents

studentKeys ==
    [all |-> <<"students", "s">>, list |-> <<"students", "s", "f">>,
     detail |-> <<"students", "detail", "id">>]

useStudents == Query("useStudents", studentKeys.list, {"Students", "Student"})
useStudent == Query("useStudent", studentKeys.detail, {"Student", "ParentLink"})

StudentMutation(name, writes) ==
    Mutation(name, writes, {studentKeys.all, dashboardKeys.status})
OneStudentMutation(name) ==
    Mutation(name, {"Student"}, {studentKeys.all, studentKeys.detail, dashboardKeys.status})

useCreateStudent == StudentMutation("useCreateStudent", {"Students"})
useUpdateStudent == OneStudentMutation("useUpdateStudent")
useArchiveStudent == OneStudentMutation("useArchiveStudent")
useRestoreStudent == OneStudentMutation("useRestoreStudent")
useDeleteStudent == StudentMutation("useDeleteStudent", {"Students"})
useMoveStudent == StudentMutation("useMoveStudent", {"Student"})

\* One PUT per student: the first refusal throws, after earlier rows moved.
useBulkMoveStudents == RowByRow(StudentMutation("useBulkMoveStudents", {"Student"}))

\* ClassStudentsTab brings its own.
useRemoveStudentFromClass ==
    Mutation("useRemoveStudentFromClass", {"Student"}, {classKeys.detail, <<"students">>})

useStudentSearch ==
    Swallowing(Query("useStudentSearch", <<"student-search", "s", "f">>, {"Students", "Student"}))

parentKeys ==
    [all |-> <<"parents", "s">>, byEmail |-> <<"parents", "s", "byEmail", "f">>]

useParentsByEmail == Query("useParentsByEmail", parentKeys.byEmail, {"Parents"})
useParentSearch ==
    Swallowing(Query("useParentSearch", <<"parent-search", "s", "f">>, {"Parents"}))
useCreateParent == Mutation("useCreateParent", {"Parents"}, {parentKeys.all})
useLinkParentToStudent ==
    Mutation("useLinkParentToStudent", {"ParentLink"}, {studentKeys.detail})
useUnlinkParentFromStudent ==
    Mutation("useUnlinkParentFromStudent", {"ParentLink"}, {studentKeys.detail})

-----------------------------------------------------------------------------
\* Teachers

teacherKeys ==
    [all |-> <<"teachers", "s">>, list |-> <<"teachers", "s", "f">>,
     detail |-> <<"teachers", "detail", "id">>, keycloakUsers |-> <<"keycloak-users", "f">>]

\* StundentafelTab brings its own.
useTeacherOptions ==
    Swallowing(Query("useTeacherOptions", <<"teachers:stundentafel-options", "s">>,
                     {"Teachers", "Teacher"}))
useAdminTeachers == Query("useAdminTeachers", teacherKeys.list, {"Teachers", "Teacher", "Account"})
useTeacher == Query("useTeacher", teacherKeys.detail, {"Teacher", "Account"})
useTeacherSearch ==
    Swallowing(Query("useTeacherSearch", <<"teacher-search", "s", "f">>, {"Teachers", "Teacher"}))
useKeycloakUsers == Query("useKeycloakUsers", teacherKeys.keycloakUsers, {"KeycloakUser"})
useCreateTeacher ==
    Mutation("useCreateTeacher", {"Teachers"}, {teacherKeys.all, dashboardKeys.status})
useUpdateTeacher ==
    Mutation("useUpdateTeacher", {"Teacher"},
             {teacherKeys.all, teacherKeys.detail, dashboardKeys.status})
useDeleteTeacher ==
    Mutation("useDeleteTeacher", {"Teachers"}, {teacherKeys.all, dashboardKeys.status})
useLinkKeycloak ==
    Mutation("useLinkKeycloak", {"Account"}, {teacherKeys.detail, dashboardKeys.status})
useUnlinkKeycloak ==
    Mutation("useUnlinkKeycloak", {"Account"}, {teacherKeys.detail, dashboardKeys.status})

-----------------------------------------------------------------------------
\* Keycloak users, their roles, permission overrides and person links

usersKeys == [list |-> <<"users", "f">>, detail |-> <<"user", "id">>]
overrideKeys ==
    [list |-> <<"permission-overrides", "id">>, effective |-> <<"effective-permissions", "id">>]

useUsers == Query("useUsers", usersKeys.list, {"Enabled", "UserRole", "PersonLink"})
useUser == Query("useUser", usersKeys.detail, {"Enabled", "UserRole", "PersonLink"})
useRoles == Query("useRoles", <<"roles">>, {"Role"})
useUserRoles == Query("useUserRoles", <<"user-roles", "id">>, {"UserRole"})
usePermissionOverrides ==
    Query("usePermissionOverrides", overrideKeys.list, {"Override"})
useEffectivePermissions ==
    Query("useEffectivePermissions", overrideKeys.effective, {"UserRole", "Override"})

useSetUserEnabled ==
    Mutation("useSetUserEnabled", {"Enabled"}, {<<"users">>, usersKeys.detail})
useUpdateUserRoles ==
    Mutation("useUpdateUserRoles", {"UserRole"},
             {<<"user-roles", "id">>, <<"users">>, usersKeys.detail, overrideKeys.effective})
useLinkPerson == Mutation("useLinkPerson", {"PersonLink"}, {usersKeys.detail, <<"users">>})
useUnlinkPerson == Mutation("useUnlinkPerson", {"PersonLink"}, {usersKeys.detail, <<"users">>})

OverrideMutation(name) ==
    Mutation(name, {"Override"}, {overrideKeys.list, overrideKeys.effective})

useCreatePermissionOverride == OverrideMutation("useCreatePermissionOverride")
useUpdatePermissionOverride == OverrideMutation("useUpdatePermissionOverride")
useDeletePermissionOverride == OverrideMutation("useDeletePermissionOverride")

-----------------------------------------------------------------------------
\* DSGVO: consents, retention, impact assessments, processing records, jobs

consentKeys == [all |-> <<"consents">>, admin |-> <<"consents", "admin", "f">>]

useConsentsAdmin == Query("useConsentsAdmin", consentKeys.admin, {"Consent"})
useWithdrawConsent ==
    Mutation("useWithdrawConsent", {"Consent"}, {consentKeys.all, dashboardKeys.status})

retentionKeys == [all |-> <<"retention">>, list |-> <<"retention", "s">>]
dsfaKeys == [all |-> <<"dsfa">>, list |-> <<"dsfa", "s">>]
vvzKeys == [all |-> <<"vvz">>, list |-> <<"vvz", "s">>]

useRetentionPolicies == Query("useRetentionPolicies", retentionKeys.list, {"Retention"})
useDsfaEntries == Query("useDsfaEntries", dsfaKeys.list, {"Dsfa"})
useVvzEntries == Query("useVvzEntries", vvzKeys.list, {"Vvz"})

RetentionMutation(name) ==
    Mutation(name, {"Retention"}, {retentionKeys.all, dashboardKeys.status})
DsfaMutation(name) == Mutation(name, {"Dsfa"}, {dsfaKeys.all, dashboardKeys.status})
VvzMutation(name) == Mutation(name, {"Vvz"}, {vvzKeys.all, dashboardKeys.status})

useCreateRetentionPolicy == RetentionMutation("useCreateRetentionPolicy")
useUpdateRetentionPolicy == RetentionMutation("useUpdateRetentionPolicy")
useDeleteRetentionPolicy == RetentionMutation("useDeleteRetentionPolicy")
useCreateDsfa == DsfaMutation("useCreateDsfa")
useUpdateDsfa == DsfaMutation("useUpdateDsfa")
useDeleteDsfa == DsfaMutation("useDeleteDsfa")
useCreateVvz == VvzMutation("useCreateVvz")
useUpdateVvz == VvzMutation("useUpdateVvz")
useDeleteVvz == VvzMutation("useDeleteVvz")

dsgvoJobsKeys == [all |-> <<"dsgvo-jobs">>, list |-> <<"dsgvo-jobs", "list", "f">>]
deletionJobKeys == [job |-> <<"dsgvo", "deletion", "id">>]
exportJobKeys == [job |-> <<"dsgvo", "export", "id">>]

useDsgvoJobs == Query("useDsgvoJobs", dsgvoJobsKeys.list, {"DeletionJob", "ExportJob"})
useDsgvoDeletionJob == Query("useDsgvoDeletionJob", deletionJobKeys.job, {"DeletionJob"})
useDsgvoExportJob == Query("useDsgvoExportJob", exportJobKeys.job, {"ExportJob"})
useRequestDeletion ==
    Mutation("useRequestDeletion", {"DeletionJob"},
             {dsgvoJobsKeys.all, deletionJobKeys.job, dashboardKeys.status})
useRequestExport ==
    Mutation("useRequestExport", {"ExportJob"},
             {dsgvoJobsKeys.all, exportJobKeys.job, dashboardKeys.status})

-----------------------------------------------------------------------------
\* The audit log

auditKeys == [list |-> <<"audit", "list", "f">>]

useAuditEntries == Query("useAuditEntries", auditKeys.list, {"Audit"})

-----------------------------------------------------------------------------
\* Solver tuning; one template type is shown and edited at a time

templateKey == <<"constraint-templates", "s", "type">>
weightKey == <<"constraint-weights", "s">>

useConstraintCatalog ==
    AlwaysFresh(Query("useConstraintCatalog", <<"constraint-catalog", "s">>, {"Catalog"}))
useConstraintWeights == Query("useConstraintWeights", weightKey, {"Weight"})
useUpdateConstraintWeights ==
    Mutation("useUpdateConstraintWeights", {"Weight"}, {weightKey})
useConstraintTemplates == Query("useConstraintTemplates", templateKey, {"Templates", "Template"})
useCreateConstraintTemplate ==
    Mutation("useCreateConstraintTemplate", {"Templates"}, {templateKey})
useUpdateConstraintTemplate ==
    Mutation("useUpdateConstraintTemplate", {"Template"}, {templateKey})
useDeleteConstraintTemplate ==
    Mutation("useDeleteConstraintTemplate", {"Templates"}, {templateKey})
useSetTemplateActive == Mutation("useSetTemplateActive", {"Template"}, {templateKey})
useLatestTimetableRun ==
    Query("useLatestTimetableRun", <<"timetable-runs", "s", "latest">>, {"Run"})
=============================================================================
