--------------------------- MODULE SchoolDayProofs ---------------------------
(***************************************************************************)
(* What holds of the school day whatever its size: the query cache of the  *)
(* web client, conversations and polls, the class book with its excuses    *)
(* and attendance grids, and the client's forms.  Each part has its        *)
(* inductive invariant, one lemma for each operation of the code, and the  *)
(* theorems that follow.                                                   *)
(***************************************************************************)
EXTENDS MCSchoolDay, FiniteSetTheorems, WellFoundedInduction, TLAPS

-----------------------------------------------------------------------------
(* The query cache: what the user was told of, the pages show.             *)
CacheNumbers ==
    /\ written \in 0 .. MaxWrites /\ told \in 0 .. written
    /\ shown \in Nothing .. written /\ asked \in Unserved .. written
    /\ calling \in {"none", "sent", "served"}
    /\ calling = "sent" => written < MaxWrites

CacheFlags ==
    stale \in BOOLEAN /\ mounted \in BOOLEAN /\ failed \in BOOLEAN /\ aux_overtaken \in BOOLEAN

CacheTypes == pair \in Pairs /\ CacheNumbers /\ CacheFlags

(* With an error beside it, with nothing, with an answer that overtook the *)
(* announcement on a page that was left, or with all that was announced.   *)
IsHonest == failed \/ shown = Nothing \/ aux_overtaken \/ shown >= told

(* What an invalidation secures: an answer on its way was asked for after  *)
(* all that was announced, unless it overtook the announcement; with none  *)
(* on its way a page shows it all, and one that was left will ask when it  *)
(* is opened again.                                                        *)
WillShow ==
    /\ asked \in Nat => asked >= told \/ aux_overtaken
    /\ asked = NoFetch => stale \/ IsHonest
    /\ mounted /\ asked = NoFetch => IsHonest

CacheInv == CacheTypes /\ (Refreshes(action, query) => WillShow)

(* A page that opens on a fresh cache.                                     *)
LEMMA CacheInvInit == CacheInit => CacheInv
<1> SUFFICES ASSUME CacheInit PROVE CacheInv
    OBVIOUS
<1>1. CacheNumbers
    BY MaxWritesAssumption DEF CacheInit, CacheNumbers, Nothing, NoFetch, Unserved
<1>2. CacheFlags
    BY DEF CacheInit, CacheFlags
<1>3. WillShow
    BY DEF CacheInit, WillShow, IsHonest, NoFetch
<1>4. QED
    BY <1>1, <1>2, <1>3 DEF CacheInit, CacheInv, CacheTypes

(* A call of an action, and what the server makes of it, touches no query. *)
LEMMA CallKeepsCache ==
    ASSUME CacheInv, SendCall \/ ServeCall \/ RefuseCall \/ LoseCall
    PROVE  CacheInv'
<1>1. UNCHANGED <<pair, told, shown, asked, stale, mounted, failed, aux_overtaken>>
    BY DEF SendCall, ServeCall, RefuseCall, LoseCall
<1>2. Refreshes(action, query)' = Refreshes(action, query) /\ WillShow' = WillShow
    BY <1>1 DEF action, query, WillShow, IsHonest
<1>3. CacheNumbers'
    BY <1>1, MaxWritesAssumption
    DEF CacheInv, CacheTypes, CacheNumbers, SendCall, ServeCall, RefuseCall, LoseCall, Nothing, Unserved
<1>4. QED
    BY <1>1, <1>2, <1>3 DEF CacheInv, CacheTypes, CacheFlags

(* onSuccess and onSettled: an action that refreshes the query marks it    *)
(* stale, and asks again at once for the page that is open.                *)
LEMMA SettleKeepsCache ==
    ASSUME CacheInv, Settle
    PROVE  CacheInv'
<1>1. UNCHANGED <<pair, written, shown, mounted, failed>>
    BY DEF Settle
<1>2. Refreshes(action, query)' = Refreshes(action, query)
    BY <1>1 DEF action, query
<1>3. /\ calling' = "none"
      /\ told' = written
      /\ ~mounted /\ asked \in 0 .. written - 1 => aux_overtaken'
      /\ asked' \in {asked, Unserved}
      /\ Refreshes(action, query) => stale' /\ asked' = IF mounted THEN Unserved ELSE asked
    BY DEF Settle
<1>4. CacheNumbers'
    BY <1>1, <1>3 DEF CacheInv, CacheTypes, CacheNumbers, Nothing, Unserved
<1>5. CacheFlags'
    BY <1>1 DEF Settle, CacheInv, CacheTypes, CacheFlags
<1>6. ASSUME Refreshes(action, query) PROVE WillShow'
  <2>1. CASE mounted
    <3>1. mounted' /\ asked' = Unserved
        BY <1>1, <1>3, <1>6, <2>1
    <3>2. QED
        BY <3>1 DEF WillShow, Unserved, NoFetch
  <2>2. CASE ~mounted
    <3>1. ~mounted' /\ asked' = asked /\ stale'
        BY <1>1, <1>3, <1>6, <2>2
    <3>2. asked \in Unserved .. written /\ written \in Nat
        BY DEF CacheInv, CacheTypes, CacheNumbers
    <3>3. asked' \in Nat => asked' >= told' \/ aux_overtaken'
        BY <1>3, <2>2, <3>1, <3>2 DEF Unserved
    <3>4. QED
        BY <3>1, <3>3 DEF WillShow
  <2>3. QED
      BY <2>1, <2>2
<1>7. QED
    BY <1>1, <1>2, <1>4, <1>5, <1>6 DEF CacheInv, CacheTypes

(* A query is asked, answered, refused, grows old, and is left and opened  *)
(* again.                                                                  *)
LEMMA QueryKeepsCache ==
    ASSUME CacheInv, FetchServed \/ FetchAnswered \/ FetchFails \/ GrowOld \/ LeavePage \/ ReturnToPage
    PROVE  CacheInv'
<1> USE DEF CacheInv, CacheTypes, FetchServed, FetchAnswered, FetchFails, GrowOld, LeavePage, ReturnToPage
<1>1. UNCHANGED <<pair, written, told, calling>>
    OBVIOUS
<1>2. Refreshes(action, query)' = Refreshes(action, query)
    BY <1>1 DEF action, query
<1>3. CacheNumbers'
    BY <1>1 DEF CacheNumbers, Nothing, NoFetch, Unserved
<1>4. CacheFlags'
    BY DEF CacheFlags
<1>5. ASSUME Refreshes(action, query) PROVE WillShow'
  <2> USE <1>5 DEF WillShow, IsHonest, CacheNumbers, Nothing, NoFetch, Unserved
  <2>1. CASE FetchServed
      BY <2>1
  <2>2. CASE FetchAnswered
      BY <2>2
  <2>3. CASE FetchFails
      BY <2>3
  <2>4. CASE GrowOld \/ LeavePage
      BY <2>4
  <2>5. CASE ReturnToPage
      BY <2>5
  <2>6. QED
      BY <2>1, <2>2, <2>3, <2>4, <2>5
<1>6. QED
    BY <1>1, <1>2, <1>3, <1>4, <1>5

(* In every state the cache is what CacheInv says of it.                   *)
LEMMA CacheInvHolds == CacheSpec => []CacheInv
<1>1. CacheInv /\ [CacheNext]_cacheVars => CacheInv'
  <2>1. CASE UNCHANGED cacheVars
      BY <2>1 DEF cacheVars, CacheInv, CacheTypes, CacheNumbers, CacheFlags, WillShow, IsHonest, action, query
  <2>2. QED
      BY <2>1, CallKeepsCache, SettleKeepsCache, QueryKeepsCache DEF CacheNext
<1>2. QED
    BY <1>1, CacheInvInit, PTL DEF CacheSpec

(* Whatever action a page sends and whatever query another shows: if the   *)
(* action invalidates the query, no page that is open ever shows, without  *)
(* an error beside it and with no request on its way, less than what the   *)
(* user has been told is stored, under any timing of calls, refetches,     *)
(* failures and page changes but one: the page was left while an older     *)
(* answer was on its way, and the change was announced before it came.     *)
THEOREM RefreshedIsShown == CacheSpec => [](Refreshes(action, query) => ShowsWhatWasTold)
<1>1. CacheInv => (Refreshes(action, query) => ShowsWhatWasTold)
    BY DEF CacheInv, CacheTypes, CacheNumbers, WillShow, IsHonest, ShowsWhatWasTold, Nothing, NoFetch, Unserved
<1>2. QED
    BY <1>1, CacheInvHolds, PTL

-----------------------------------------------------------------------------
(* What the hooks of each page invalidate.                                 *)

(* What a hook owes a query, and the checklist the administrator goes back *)
(* to: if it changes what the query shows, it invalidates it or is listed. *)
Told(a, q) == Concerns(a, q) => Refreshes(a, q) \/ <<a.name, q.name>> \in Overlooked

OnReturn(a) == a.by = "user" => Told(a, useDashboardStatus)

PageTells(p) ==
    /\ \A a \in p.actions, q \in p.queries : Told(a, q)
    /\ \A a \in p.actions : OnReturn(a)

(* Which keys stand for a key: those it begins with.                       *)
LEMMA KeyPrefixes ==
    ASSUME NEW a, NEW b, NEW c, NEW d, NEW e, NEW f
    PROVE  /\ IsPrefix(<<a>>, <<a>>)
           /\ IsPrefix(<<a>>, <<a, b>>)
           /\ IsPrefix(<<a, b>>, <<a, b>>)
           /\ IsPrefix(<<a>>, <<a, b, c>>)
           /\ IsPrefix(<<a, b>>, <<a, b, c>>)
           /\ IsPrefix(<<a, b, c>>, <<a, b, c>>)
           /\ IsPrefix(<<a>>, <<a, b, c, d>>)
           /\ IsPrefix(<<a, b>>, <<a, b, c, d>>)
           /\ IsPrefix(<<a, b, c>>, <<a, b, c, d>>)
           /\ IsPrefix(<<a, b, c, d>>, <<a, b, c, d>>)
           /\ IsPrefix(<<a>>, <<a, b, c, d, e>>)
           /\ IsPrefix(<<a, b>>, <<a, b, c, d, e>>)
           /\ IsPrefix(<<a, b, c>>, <<a, b, c, d, e>>)
           /\ IsPrefix(<<a, b, c, d>>, <<a, b, c, d, e>>)
           /\ IsPrefix(<<a, b, c, d, e>>, <<a, b, c, d, e>>)
           /\ IsPrefix(<<a>>, <<a, b, c, d, e, f>>)
           /\ IsPrefix(<<a, b>>, <<a, b, c, d, e, f>>)
           /\ IsPrefix(<<a, b, c>>, <<a, b, c, d, e, f>>)
           /\ IsPrefix(<<a, b, c, d>>, <<a, b, c, d, e, f>>)
           /\ IsPrefix(<<a, b, c, d, e>>, <<a, b, c, d, e, f>>)
BY DEF IsPrefix

(* The shell around every page.                                            *)
LEMMA ShellTells == PageTells(Shell)
<1> DEFINE Seen(a) == /\ Told(a, useNotifications) /\ Told(a, useConversations) /\ OnReturn(a)
<1>1. /\ Seen(useMarkNotificationRead) /\ Seen(useMarkAllNotificationsRead)
      /\ Seen(timetableRoomSwap) /\ Seen(notificationNew) /\ Seen(notificationBadge)
      /\ Seen(messageNew) /\ Seen(conversationNew)
    BY KeyPrefixes
    DEF Told, OnReturn, Concerns, Refreshes, DashboardTables, Handler, Mutation, Query,
        conversationKeys, conversationNew, dashboardKeys, messageKeys, messageNew,
        notificationBadge, notificationKeys, notificationNew, timetableKeys, timetableRoomSwap,
        useConversations, useDashboardStatus, useMarkAllNotificationsRead,
        useMarkNotificationRead, useNotifications
<1>2. /\ Seen(timetableCancelled) /\ Seen(timetableSubstitution) /\ Seen(timetableConnect)
      /\ Seen(messageRead) /\ Seen(pollVote)
    BY KeyPrefixes
    DEF Told, OnReturn, Concerns, Refreshes, Overlooked, DashboardTables, Handler, Query,
        conversationKeys, dashboardKeys, messageKeys, messageRead, notificationKeys, pollVote,
        timetableCancelled, timetableConnect, timetableKeys, timetableSubstitution,
        useConversations, useDashboardStatus, useNotifications
<1> HIDE DEF Seen
<1>3. \A a \in Shell.actions : Seen(a)
    BY <1>1, <1>2 DEF Shell, NotificationBell, AppSidebar, Page, With, Mounts, layoutSockets,
        useTimetableSocket, useNotificationSocket, useMessagingSocket
<1>4. QED
    BY <1>3 DEF PageTells, Seen, Shell, NotificationBell, AppSidebar, Page, With, Mounts

(* The page admin/school.settings.                                         *)
LEMMA SchoolSettingsTells == PageTells(SchoolSettings)
<1> DEFINE Seen(a) == /\ Told(a, useFirstSchool) /\ Told(a, useSchool)
                      /\ Told(a, useSchoolYears) /\ Told(a, useTimeGrid)
                      /\ Told(a, useActiveTimetableRun) /\ OnReturn(a)
<1>1. /\ Seen(useCreateSchool) /\ Seen(useUpdateSchool) /\ Seen(updateAbMut)
      /\ Seen(useCreateSchoolYear) /\ Seen(useActivateSchoolYear) /\ Seen(useDeleteSchoolYear)
    BY KeyPrefixes
    DEF Told, OnReturn, Concerns, Refreshes, DashboardTables, Mutation, Query, Swallowing,
        YearMutation, dashboardKeys, schoolKeys, schoolYearKeys, timeGridKeys, updateAbMut,
        useActivateSchoolYear, useActiveTimetableRun, useCreateSchool, useCreateSchoolYear,
        useDashboardStatus, useDeleteSchoolYear, useFirstSchool, useSchool, useSchoolYears,
        useTimeGrid, useUpdateSchool
<1>2. /\ Seen(useCreateHoliday) /\ Seen(useDeleteHoliday) /\ Seen(useCreateAutonomousDay)
      /\ Seen(useDeleteAutonomousDay) /\ Seen(useUpdateTimeGrid)
    BY KeyPrefixes
    DEF Told, OnReturn, Concerns, Refreshes, DashboardTables, Mutation, Query, Swallowing,
        YearMutation, dashboardKeys, schoolKeys, schoolYearKeys, timeGridKeys,
        useActiveTimetableRun, useCreateAutonomousDay, useCreateHoliday, useDashboardStatus,
        useDeleteAutonomousDay, useDeleteHoliday, useFirstSchool, useSchool, useSchoolYears,
        useTimeGrid, useUpdateTimeGrid
<1> HIDE DEF Seen
<1>3. \A a \in SchoolSettings.actions : Seen(a)
    BY <1>1, <1>2 DEF SchoolSettings, Page
<1>4. QED
    BY <1>3 DEF PageTells, Seen, SchoolSettings, Page

(* The page admin/subjects.                                                *)
LEMMA SubjectsPageTells == PageTells(SubjectsPage)
<1> DEFINE Seen(a) == /\ Told(a, useSubjects) /\ Told(a, useSubject) /\ OnReturn(a)
<1>1. /\ Seen(useCreateSubject) /\ Seen(useUpdateSubject) /\ Seen(useDeleteSubject)
    BY KeyPrefixes
    DEF Told, OnReturn, Concerns, Refreshes, DashboardTables, Mutation, Query, dashboardKeys,
        subjectKeys, useCreateSubject, useDashboardStatus, useDeleteSubject, useSubject,
        useSubjects, useUpdateSubject
<1> HIDE DEF Seen
<1>2. \A a \in SubjectsPage.actions : Seen(a)
    BY <1>1 DEF SubjectsPage, SubjectAffectedEntitiesDialog, Page, With, Mounts
<1>3. QED
    BY <1>2 DEF PageTells, Seen, SubjectsPage, SubjectAffectedEntitiesDialog, Page, With,
        Mounts

(* The page admin/classes.                                                 *)
LEMMA ClassesPageTells == PageTells(ClassesPage)
<1> DEFINE Seen(a) == /\ Told(a, useClasses) /\ Told(a, useRooms) /\ Told(a, useSchoolYears)
                      /\ Told(a, useTeacherSearch) /\ OnReturn(a)
<1>1. /\ Seen(useCreateClass) /\ Seen(useDeleteClass)
    BY KeyPrefixes
    DEF Told, OnReturn, Concerns, Refreshes, DashboardTables, Mutation, Query, Swallowing,
        classKeys, dashboardKeys, schoolYearKeys, useClasses, useCreateClass,
        useDashboardStatus, useDeleteClass, useRooms, useSchoolYears, useTeacherSearch
<1> HIDE DEF Seen
<1>2. \A a \in ClassesPage.actions : Seen(a)
    BY <1>1 DEF ClassesPage, TeacherSearchPopover, Page, With, Mounts
<1>3. QED
    BY <1>2 DEF PageTells, Seen, ClassesPage, TeacherSearchPopover, Page, With, Mounts

(* The page admin/classes/id.                                              *)
LEMMA ClassPageTells == PageTells(ClassPage)
<1> DEFINE Seen(a) == /\ Told(a, useClass) /\ Told(a, useClassSubjects)
                      /\ Told(a, useGroupDerivationRules) /\ Told(a, useSubjectsList)
                      /\ Told(a, useClassGroups) /\ Told(a, useStudents) /\ Told(a, useRooms)
                      /\ Told(a, useSchool) /\ Told(a, useTeacherSearch)
                      /\ Told(a, useTeacherOptions) /\ OnReturn(a)
<1>1. /\ Seen(useUpdateClass) /\ Seen(useDeleteClass) /\ Seen(useAddGroupMember)
      /\ Seen(useRemoveGroupMember)
    BY KeyPrefixes
    DEF Told, OnReturn, Concerns, Refreshes, DashboardTables, Mutation, Query, Swallowing,
        classGroupKeys, classKeys, classSubjectKeys, dashboardKeys, ruleKeys, schoolKeys,
        studentKeys, useAddGroupMember, useClass, useClassGroups, useClassSubjects,
        useDashboardStatus, useDeleteClass, useGroupDerivationRules, useRemoveGroupMember,
        useRooms, useSchool, useStudents, useSubjectsList, useTeacherOptions, useTeacherSearch,
        useUpdateClass
<1>2. /\ Seen(useApplyStundentafel) /\ Seen(useUpdateClassSubjects)
      /\ Seen(useResetStundentafel) /\ Seen(useCreateRule)
    BY KeyPrefixes
    DEF Told, OnReturn, Concerns, Refreshes, DashboardTables, Mutation, Query, Swallowing,
        TafelMutation, classGroupKeys, classKeys, classSubjectKeys, dashboardKeys, ruleKeys,
        schoolKeys, studentKeys, useApplyStundentafel, useClass, useClassGroups,
        useClassSubjects, useCreateRule, useDashboardStatus, useGroupDerivationRules,
        useResetStundentafel, useRooms, useSchool, useStudents, useSubjectsList,
        useTeacherOptions, useTeacherSearch, useUpdateClassSubjects
<1>3. /\ Seen(useUpdateRule) /\ Seen(useDeleteRule)
    BY KeyPrefixes
    DEF Told, OnReturn, Concerns, Refreshes, DashboardTables, Mutation, Query, Swallowing,
        classGroupKeys, classKeys, classSubjectKeys, dashboardKeys, ruleKeys, schoolKeys,
        studentKeys, useClass, useClassGroups, useClassSubjects, useDashboardStatus,
        useDeleteRule, useGroupDerivationRules, useRooms, useSchool, useStudents,
        useSubjectsList, useTeacherOptions, useTeacherSearch, useUpdateRule
<1>4. /\ Seen(useApplyRules) /\ Seen(useMoveStudent) /\ Seen(useBulkMoveStudents)
      /\ Seen(useRemoveStudentFromClass)
    BY KeyPrefixes
    DEF Told, OnReturn, Concerns, Refreshes, Overlooked, DashboardTables, Mutation, Query,
        RowByRow, StudentMutation, Swallowing, classGroupKeys, classKeys, classSubjectKeys,
        dashboardKeys, ruleKeys, schoolKeys, studentKeys, useApplyRules, useBulkMoveStudents,
        useClass, useClassGroups, useClassSubjects, useDashboardStatus,
        useGroupDerivationRules, useMoveStudent, useRemoveStudentFromClass, useRooms,
        useSchool, useStudents, useSubjectsList, useTeacherOptions, useTeacherSearch
<1> HIDE DEF Seen
<1>5. \A a \in ClassPage.actions : Seen(a)
    BY <1>1, <1>2, <1>3, <1>4 DEF ClassPage, Page
<1>6. QED
    BY <1>5 DEF PageTells, Seen, ClassPage, Page

(* The dialog that applies group rules.                                    *)
LEMMA ApplyRulesDialogTells == PageTells(ApplyRulesDialog)
<1> DEFINE Seen(a) == /\ Told(a, useClass) /\ Told(a, useApplyRulesPreview) /\ OnReturn(a)
<1>1. /\ Seen(useApplyRules)
    BY KeyPrefixes
    DEF Told, OnReturn, Concerns, Refreshes, Overlooked, DashboardTables, Fresh, Mutation,
        NeverFresh, Query, classKeys, dashboardKeys, ruleKeys, useApplyRules,
        useApplyRulesPreview, useClass, useDashboardStatus
<1> HIDE DEF Seen
<1>2. \A a \in ApplyRulesDialog.actions : Seen(a)
    BY <1>1 DEF ApplyRulesDialog, Page
<1>3. QED
    BY <1>2 DEF PageTells, Seen, ApplyRulesDialog, Page

(* The page admin/students.                                                *)
LEMMA StudentsPageTells == PageTells(StudentsPage)
<1> DEFINE Seen(a) == /\ Told(a, useStudents) /\ Told(a, useClassNames)
                      /\ Told(a, useSchoolYears) /\ OnReturn(a)
<1>1. /\ Seen(useCreateStudent) /\ Seen(useArchiveStudent) /\ Seen(useRestoreStudent)
      /\ Seen(useDeleteStudent)
    BY KeyPrefixes
    DEF Told, OnReturn, Concerns, Refreshes, DashboardTables, Mutation, OneStudentMutation,
        Query, StudentMutation, Swallowing, dashboardKeys, schoolYearKeys, studentKeys,
        useArchiveStudent, useClassNames, useCreateStudent, useDashboardStatus,
        useDeleteStudent, useRestoreStudent, useSchoolYears, useStudents
<1>2. /\ Seen(useMoveStudent) /\ Seen(useBulkMoveStudents)
    BY KeyPrefixes
    DEF Told, OnReturn, Concerns, Refreshes, Overlooked, DashboardTables, Mutation, Query,
        RowByRow, StudentMutation, Swallowing, dashboardKeys, schoolYearKeys, studentKeys,
        useBulkMoveStudents, useClassNames, useDashboardStatus, useMoveStudent, useSchoolYears,
        useStudents
<1> HIDE DEF Seen
<1>3. \A a \in StudentsPage.actions : Seen(a)
    BY <1>1, <1>2 DEF StudentsPage, Page
<1>4. QED
    BY <1>3 DEF PageTells, Seen, StudentsPage, Page

(* The page admin/students/id.                                             *)
LEMMA StudentPageTells == PageTells(StudentPage)
<1> DEFINE Seen(a) == /\ Told(a, useStudent) /\ Told(a, useParentsByEmail)
                      /\ Told(a, useClassNames) /\ OnReturn(a)
<1>1. /\ Seen(useUpdateStudent) /\ Seen(useArchiveStudent) /\ Seen(useRestoreStudent)
      /\ Seen(useDeleteStudent) /\ Seen(useCreateParent) /\ Seen(useLinkParentToStudent)
      /\ Seen(useUnlinkParentFromStudent)
    BY KeyPrefixes
    DEF Told, OnReturn, Concerns, Refreshes, DashboardTables, Mutation, OneStudentMutation,
        Query, StudentMutation, Swallowing, dashboardKeys, parentKeys, studentKeys,
        useArchiveStudent, useClassNames, useCreateParent, useDashboardStatus,
        useDeleteStudent, useLinkParentToStudent, useParentsByEmail, useRestoreStudent,
        useStudent, useUnlinkParentFromStudent, useUpdateStudent
<1>2. /\ Seen(useMoveStudent)
    BY KeyPrefixes
    DEF Told, OnReturn, Concerns, Refreshes, Overlooked, DashboardTables, Mutation, Query,
        StudentMutation, Swallowing, dashboardKeys, parentKeys, studentKeys, useClassNames,
        useDashboardStatus, useMoveStudent, useParentsByEmail, useStudent
<1> HIDE DEF Seen
<1>3. \A a \in StudentPage.actions : Seen(a)
    BY <1>1, <1>2 DEF StudentPage, Page
<1>4. QED
    BY <1>3 DEF PageTells, Seen, StudentPage, Page

(* The page admin/teachers.                                                *)
LEMMA TeachersPageTells == PageTells(TeachersPage)
<1> DEFINE Seen(a) == /\ Told(a, useAdminTeachers) /\ OnReturn(a)
<1>1. /\ Seen(useCreateTeacher) /\ Seen(useDeleteTeacher)
    BY KeyPrefixes
    DEF Told, OnReturn, Concerns, Refreshes, DashboardTables, Mutation, Query, dashboardKeys,
        teacherKeys, useAdminTeachers, useCreateTeacher, useDashboardStatus, useDeleteTeacher
<1> HIDE DEF Seen
<1>2. \A a \in TeachersPage.actions : Seen(a)
    BY <1>1 DEF TeachersPage, Page
<1>3. QED
    BY <1>2 DEF PageTells, Seen, TeachersPage, Page

(* The page admin/teachers/id.                                             *)
LEMMA TeacherPageTells == PageTells(TeacherPage)
<1> DEFINE Seen(a) == /\ Told(a, useTeacher) /\ Told(a, useKeycloakUsers) /\ OnReturn(a)
<1>1. /\ Seen(useUpdateTeacher) /\ Seen(useLinkKeycloak) /\ Seen(useUnlinkKeycloak)
    BY KeyPrefixes
    DEF Told, OnReturn, Concerns, Refreshes, DashboardTables, Mutation, Query, dashboardKeys,
        teacherKeys, useDashboardStatus, useKeycloakUsers, useLinkKeycloak, useTeacher,
        useUnlinkKeycloak, useUpdateTeacher
<1> HIDE DEF Seen
<1>2. \A a \in TeacherPage.actions : Seen(a)
    BY <1>1 DEF TeacherPage, Page
<1>3. QED
    BY <1>2 DEF PageTells, Seen, TeacherPage, Page

(* The page admin/users.                                                   *)
LEMMA UsersPageTells == PageTells(UsersPage)
<1> DEFINE Seen(a) == /\ Told(a, useUsers) /\ Told(a, useRoles) /\ OnReturn(a)
<1>1. /\ Seen(useSetUserEnabled)
    BY KeyPrefixes
    DEF Told, OnReturn, Concerns, Refreshes, DashboardTables, Mutation, Query, dashboardKeys,
        useDashboardStatus, useRoles, useSetUserEnabled, useUsers, usersKeys
<1> HIDE DEF Seen
<1>2. \A a \in UsersPage.actions : Seen(a)
    BY <1>1 DEF UsersPage, UserFilterBar, Page, With, Mounts
<1>3. QED
    BY <1>2 DEF PageTells, Seen, UsersPage, UserFilterBar, Page, With, Mounts

(* The page admin/users/id.                                                *)
LEMMA UserPageTells == PageTells(UserPage)
<1> DEFINE Seen(a) == /\ Told(a, useUser) /\ Told(a, useRoles) /\ Told(a, useUserRoles)
                      /\ Told(a, useEffectivePermissions) /\ Told(a, usePermissionOverrides)
                      /\ Told(a, useTeacherSearch) /\ Told(a, useStudentSearch)
                      /\ Told(a, useParentSearch) /\ OnReturn(a)
<1>1. /\ Seen(useSetUserEnabled) /\ Seen(useUpdateUserRoles) /\ Seen(useLinkPerson)
      /\ Seen(useUnlinkPerson)
    BY KeyPrefixes
    DEF Told, OnReturn, Concerns, Refreshes, DashboardTables, Mutation, Query, Swallowing,
        dashboardKeys, overrideKeys, useDashboardStatus, useEffectivePermissions,
        useLinkPerson, useParentSearch, usePermissionOverrides, useRoles, useSetUserEnabled,
        useStudentSearch, useTeacherSearch, useUnlinkPerson, useUpdateUserRoles, useUser,
        useUserRoles, usersKeys
<1>2. /\ Seen(useCreatePermissionOverride) /\ Seen(useUpdatePermissionOverride)
      /\ Seen(useDeletePermissionOverride)
    BY KeyPrefixes
    DEF Told, OnReturn, Concerns, Refreshes, DashboardTables, Mutation, OverrideMutation,
        Query, Swallowing, dashboardKeys, overrideKeys, useCreatePermissionOverride,
        useDashboardStatus, useDeletePermissionOverride, useEffectivePermissions,
        useParentSearch, usePermissionOverrides, useRoles, useStudentSearch, useTeacherSearch,
        useUpdatePermissionOverride, useUser, useUserRoles, usersKeys
<1> HIDE DEF Seen
<1>3. \A a \in UserPage.actions : Seen(a)
    BY <1>1, <1>2 DEF UserPage, EffectivePermissionsTab, OverridesSection,
        PersonAutocompletePopover, Page, With, Mounts
<1>4. QED
    BY <1>3 DEF PageTells, Seen, UserPage, EffectivePermissionsTab, OverridesSection,
        PersonAutocompletePopover, Page, With, Mounts

(* The page admin/dsgvo.                                                   *)
LEMMA DsgvoPageTells == PageTells(DsgvoPage)
<1> DEFINE Seen(a) == /\ Told(a, useConsentsAdmin) /\ Told(a, useRetentionPolicies)
                      /\ Told(a, useDsfaEntries) /\ Told(a, useVvzEntries)
                      /\ Told(a, useDsgvoDeletionJob) /\ Told(a, useDsgvoExportJob)
                      /\ Told(a, useDsgvoJobs) /\ OnReturn(a)
<1>1. /\ Seen(useWithdrawConsent) /\ Seen(useCreateRetentionPolicy)
      /\ Seen(useUpdateRetentionPolicy) /\ Seen(useDeleteRetentionPolicy)
    BY KeyPrefixes
    DEF Told, OnReturn, Concerns, Refreshes, DashboardTables, Mutation, Query,
        RetentionMutation, consentKeys, dashboardKeys, deletionJobKeys, dsfaKeys,
        dsgvoJobsKeys, exportJobKeys, retentionKeys, useConsentsAdmin,
        useCreateRetentionPolicy, useDashboardStatus, useDeleteRetentionPolicy, useDsfaEntries,
        useDsgvoDeletionJob, useDsgvoExportJob, useDsgvoJobs, useRetentionPolicies,
        useUpdateRetentionPolicy, useVvzEntries, useWithdrawConsent, vvzKeys
<1>2. /\ Seen(useCreateDsfa) /\ Seen(useUpdateDsfa) /\ Seen(useDeleteDsfa)
      /\ Seen(useCreateVvz)
    BY KeyPrefixes
    DEF Told, OnReturn, Concerns, Refreshes, DashboardTables, DsfaMutation, Mutation, Query,
        VvzMutation, consentKeys, dashboardKeys, deletionJobKeys, dsfaKeys, dsgvoJobsKeys,
        exportJobKeys, retentionKeys, useConsentsAdmin, useCreateDsfa, useCreateVvz,
        useDashboardStatus, useDeleteDsfa, useDsfaEntries, useDsgvoDeletionJob,
        useDsgvoExportJob, useDsgvoJobs, useRetentionPolicies, useUpdateDsfa, useVvzEntries,
        vvzKeys
<1>3. /\ Seen(useUpdateVvz) /\ Seen(useDeleteVvz) /\ Seen(useRequestDeletion)
      /\ Seen(useRequestExport)
    BY KeyPrefixes
    DEF Told, OnReturn, Concerns, Refreshes, DashboardTables, Mutation, Query, VvzMutation,
        consentKeys, dashboardKeys, deletionJobKeys, dsfaKeys, dsgvoJobsKeys, exportJobKeys,
        retentionKeys, useConsentsAdmin, useDashboardStatus, useDeleteVvz, useDsfaEntries,
        useDsgvoDeletionJob, useDsgvoExportJob, useDsgvoJobs, useRequestDeletion,
        useRequestExport, useRetentionPolicies, useUpdateVvz, useVvzEntries, vvzKeys
<1> HIDE DEF Seen
<1>4. \A a \in DsgvoPage.actions : Seen(a)
    BY <1>1, <1>2, <1>3 DEF DsgvoPage, JobsTab, Page, With, Mounts
<1>5. QED
    BY <1>4 DEF PageTells, Seen, DsgvoPage, JobsTab, Page, With, Mounts

(* The page admin/audit-log.                                               *)
LEMMA AuditLogPageTells == PageTells(AuditLogPage)
BY DEF PageTells, AuditLogPage, AuditTable, Page, With, Mounts

(* The page admin/solver-tuning.                                           *)
LEMMA SolverTuningPageTells == PageTells(SolverTuningPage)
<1> DEFINE Seen(a) == /\ Told(a, useConstraintTemplates) /\ Told(a, useConstraintCatalog)
                      /\ Told(a, useConstraintWeights) /\ Told(a, useLatestTimetableRun)
                      /\ Told(a, useClasses) /\ Told(a, useSubjects) /\ OnReturn(a)
<1>1. /\ Seen(useUpdateConstraintTemplate) /\ Seen(useSetTemplateActive)
    BY KeyPrefixes
    DEF Told, OnReturn, Concerns, Refreshes, AlwaysFresh, DashboardTables, Fresh, Mutation,
        Query, classKeys, dashboardKeys, subjectKeys, templateKey, useClasses,
        useConstraintCatalog, useConstraintTemplates, useConstraintWeights, useDashboardStatus,
        useLatestTimetableRun, useSetTemplateActive, useSubjects, useUpdateConstraintTemplate,
        weightKey
<1>2. /\ Seen(useUpdateConstraintWeights) /\ Seen(useCreateConstraintTemplate)
      /\ Seen(useDeleteConstraintTemplate)
    BY KeyPrefixes
    DEF Told, OnReturn, Concerns, Refreshes, Overlooked, AlwaysFresh, DashboardTables, Fresh,
        Mutation, Query, classKeys, dashboardKeys, subjectKeys, templateKey, useClasses,
        useConstraintCatalog, useConstraintTemplates, useConstraintWeights,
        useCreateConstraintTemplate, useDashboardStatus, useDeleteConstraintTemplate,
        useLatestTimetableRun, useSubjects, useUpdateConstraintWeights, weightKey
<1> HIDE DEF Seen
<1>3. \A a \in SolverTuningPage.actions : Seen(a)
    BY <1>1, <1>2 DEF SolverTuningPage, ConstraintCatalogTab, DriftBanner, LastRunScoreBadge,
        ClassAutocomplete, SubjectAutocomplete, Page, With, Mounts
<1>4. QED
    BY <1>3 DEF PageTells, Seen, SolverTuningPage, ConstraintCatalogTab, DriftBanner,
        LastRunScoreBadge, ClassAutocomplete, SubjectAutocomplete, Page, With, Mounts

(* The page admin/solver.                                                  *)
LEMMA SolverPageTells == PageTells(SolverPage)
<1> DEFINE Seen(a) == /\ Told(a, useRecentTimetableRuns) /\ Told(a, useConflictSuggestions)
                      /\ Told(a, useFeasibility) /\ Told(a, useSolveReport)
                      /\ Told(a, useTimetableConflicts) /\ Told(a, useConstraintWeights)
                      /\ OnReturn(a)
<1>1. /\ Seen(useResolveConflict) /\ Seen(solveComplete)
    BY KeyPrefixes
    DEF Told, OnReturn, Concerns, Refreshes, Overlooked, DashboardTables, Handler, Mutation,
        OfPage, Query, Swallowing, conflictKey, dashboardKeys, recentKey, solveComplete,
        useConflictSuggestions, useConstraintWeights, useDashboardStatus, useFeasibility,
        useRecentTimetableRuns, useResolveConflict, useSolveReport, useTimetableConflicts,
        weightKey
<1> HIDE DEF Seen
<1>2. \A a \in SolverPage.actions : Seen(a)
    BY <1>1 DEF SolverPage, FeasibilityCard, SolveReportCard, ConflictsCard,
        GeneratorPageWeightsCard, Page, With, Mounts, useSolverSocket
<1>3. QED
    BY <1>2 DEF PageTells, Seen, SolverPage, FeasibilityCard, SolveReportCard, ConflictsCard,
        GeneratorPageWeightsCard, Page, With, Mounts

(* The page admin/import.                                                  *)
LEMMA ImportPageTells == PageTells(ImportPage)
<1> DEFINE Seen(a) == /\ Told(a, useImportHistory) /\ OnReturn(a)
<1>1. /\ Seen(useCommitImport) /\ Seen(importComplete)
    BY KeyPrefixes
    DEF Told, OnReturn, Concerns, Refreshes, DashboardTables, Handler, Mutation, OfPage, Query,
        dashboardKeys, importComplete, importKeys, useCommitImport, useDashboardStatus,
        useImportHistory
<1>2. /\ Seen(useUploadImport) /\ Seen(useDryRun)
    BY KeyPrefixes
    DEF Told, OnReturn, Concerns, Refreshes, Overlooked, DashboardTables, Mutation, Query,
        dashboardKeys, importKeys, useDashboardStatus, useDryRun, useImportHistory,
        useUploadImport
<1> HIDE DEF Seen
<1>3. \A a \in ImportPage.actions : Seen(a)
    BY <1>1, <1>2 DEF ImportPage, Page, useImportSocket
<1>4. QED
    BY <1>3 DEF PageTells, Seen, ImportPage, Page

(* The page admin/resources.                                               *)
LEMMA ResourcesPageTells == PageTells(ResourcesPage)
<1> DEFINE Seen(a) == /\ Told(a, useResources) /\ OnReturn(a)
<1>1. /\ Seen(useCreateResource) /\ Seen(useUpdateResource) /\ Seen(useDeleteResource)
    BY KeyPrefixes
    DEF Told, OnReturn, Concerns, Refreshes, DashboardTables, Mutation, Query, dashboardKeys,
        resourceKeys, useCreateResource, useDashboardStatus, useDeleteResource, useResources,
        useUpdateResource
<1> HIDE DEF Seen
<1>2. \A a \in ResourcesPage.actions : Seen(a)
    BY <1>1 DEF ResourcesPage, Page
<1>3. QED
    BY <1>2 DEF PageTells, Seen, ResourcesPage, Page

(* The page admin/substitutions.                                           *)
LEMMA SubstitutionsPageTells == PageTells(SubstitutionsPage)
<1> DEFINE Seen(a) == /\ Told(a, useAbsences) /\ Told(a, usePendingSubstitutions)
                      /\ Told(a, useRankedCandidates) /\ Told(a, useTeachers)
                      /\ Told(a, useSubstitutionStats) /\ OnReturn(a)
<1>1. /\ Seen(timetableRoomSwap) /\ Seen(notificationNew) /\ Seen(notificationBadge)
      /\ Seen(messageNew) /\ Seen(conversationNew)
    BY KeyPrefixes
    DEF Told, OnReturn, Concerns, Refreshes, DashboardTables, Handler, Query, absenceKeys,
        conversationKeys, conversationNew, dashboardKeys, messageKeys, messageNew,
        notificationBadge, notificationKeys, notificationNew, rankedCandidatesKeys,
        substitutionKeys, timetableKeys, timetableRoomSwap, useAbsences, useDashboardStatus,
        usePendingSubstitutions, useRankedCandidates, useSubstitutionStats, useTeachers
<1>2. /\ Seen(useCreateAbsence) /\ Seen(useCancelAbsence) /\ Seen(useAssignSubstitute)
      /\ Seen(useSetEntfall) /\ Seen(useSetStillarbeit) /\ Seen(timetableCancelled)
      /\ Seen(timetableSubstitution) /\ Seen(timetableConnect) /\ Seen(messageRead)
      /\ Seen(pollVote)
    BY KeyPrefixes
    DEF Told, OnReturn, Concerns, Refreshes, Overlooked, DashboardTables, Handler, Mutation,
        Query, absenceKeys, dashboardKeys, messageKeys, messageRead, pollVote,
        rankedCandidatesKeys, substitutionKeys, timetableCancelled, timetableConnect,
        timetableKeys, timetableSubstitution, useAbsences, useAssignSubstitute,
        useCancelAbsence, useCreateAbsence, useDashboardStatus, usePendingSubstitutions,
        useRankedCandidates, useSetEntfall, useSetStillarbeit, useSubstitutionStats,
        useTeachers
<1> HIDE DEF Seen
<1>3. \A a \in SubstitutionsPage.actions : Seen(a)
    BY <1>1, <1>2 DEF SubstitutionsPage, FairnessStatsPanel, Page, With, Mounts, layoutSockets,
        useTimetableSocket, useNotificationSocket, useMessagingSocket
<1>4. QED
    BY <1>3 DEF PageTells, Seen, SubstitutionsPage, FairnessStatsPanel, Page, With, Mounts

(* The page teacher/substitutions.                                         *)
LEMMA OwnSubstitutionsPageTells == PageTells(OwnSubstitutionsPage)
<1> DEFINE Seen(a) == /\ Told(a, useOfferedSubstitutions) /\ Told(a, useMyAbsenceSubstitutions)
                      /\ Told(a, useHandoverNote) /\ OnReturn(a)
<1>1. /\ Seen(useRespondToOffer) /\ Seen(useCreateOrUpdateHandoverNote)
      /\ Seen(timetableRoomSwap) /\ Seen(notificationNew) /\ Seen(notificationBadge)
      /\ Seen(messageNew) /\ Seen(conversationNew)
    BY KeyPrefixes
    DEF Told, OnReturn, Concerns, Refreshes, DashboardTables, Handler, Mutation, Query,
        conversationKeys, conversationNew, dashboardKeys, handoverKeys, messageKeys,
        messageNew, notificationBadge, notificationKeys, notificationNew, substitutionKeys,
        timetableKeys, timetableRoomSwap, useCreateOrUpdateHandoverNote, useDashboardStatus,
        useHandoverNote, useMyAbsenceSubstitutions, useOfferedSubstitutions, useRespondToOffer
<1>2. /\ Seen(useUploadHandoverAttachment) /\ Seen(timetableCancelled)
      /\ Seen(timetableSubstitution) /\ Seen(timetableConnect) /\ Seen(messageRead)
      /\ Seen(pollVote)
    BY KeyPrefixes
    DEF Told, OnReturn, Concerns, Refreshes, Overlooked, DashboardTables, Handler, Mutation,
        Query, dashboardKeys, handoverKeys, messageKeys, messageRead, pollVote,
        timetableCancelled, timetableConnect, timetableKeys, timetableSubstitution,
        useDashboardStatus, useHandoverNote, useMyAbsenceSubstitutions,
        useOfferedSubstitutions, useUploadHandoverAttachment
<1> HIDE DEF Seen
<1>3. \A a \in OwnSubstitutionsPage.actions : Seen(a)
    BY <1>1, <1>2 DEF OwnSubstitutionsPage, Page, layoutSockets, useTimetableSocket,
        useNotificationSocket, useMessagingSocket
<1>4. QED
    BY <1>3 DEF PageTells, Seen, OwnSubstitutionsPage, Page

(* The page admin/timetable-edit.                                          *)
LEMMA TimetableEditPageTells == PageTells(TimetableEditPage)
<1> DEFINE Seen(a) == /\ Told(a, useTimetableView) /\ Told(a, useEditHistory)
                      /\ Told(a, useTimetableClasses) /\ Told(a, useTeachers)
                      /\ Told(a, useRooms) /\ OnReturn(a)
<1>1. /\ Seen(useMoveLesson) /\ Seen(useRevertEdit) /\ Seen(timetableRoomSwap)
      /\ Seen(notificationNew) /\ Seen(notificationBadge) /\ Seen(messageNew)
      /\ Seen(conversationNew)
    BY KeyPrefixes
    DEF Told, OnReturn, Concerns, Refreshes, DashboardTables, Handler, Mutation, Query,
        conversationKeys, conversationNew, dashboardKeys, messageKeys, messageNew,
        notificationBadge, notificationKeys, notificationNew, timetableKeys, timetableRoomSwap,
        useDashboardStatus, useEditHistory, useMoveLesson, useRevertEdit, useRooms,
        useTeachers, useTimetableClasses, useTimetableView
<1>2. /\ Seen(timetableCancelled) /\ Seen(timetableSubstitution) /\ Seen(timetableConnect)
      /\ Seen(messageRead) /\ Seen(pollVote)
    BY KeyPrefixes
    DEF Told, OnReturn, Concerns, Refreshes, Overlooked, DashboardTables, Handler, Query,
        dashboardKeys, messageKeys, messageRead, pollVote, timetableCancelled,
        timetableConnect, timetableKeys, timetableSubstitution, useDashboardStatus,
        useEditHistory, useRooms, useTeachers, useTimetableClasses, useTimetableView
<1> HIDE DEF Seen
<1>3. \A a \in TimetableEditPage.actions : Seen(a)
    BY <1>1, <1>2 DEF TimetableEditPage, Page, layoutSockets, useTimetableSocket,
        useNotificationSocket, useMessagingSocket
<1>4. QED
    BY <1>3 DEF PageTells, Seen, TimetableEditPage, Page

(* The page admin/timetable-history.                                       *)
LEMMA TimetableHistoryPageTells == PageTells(TimetableHistoryPage)
<1> DEFINE Seen(a) == /\ Told(a, useTimetableView) /\ Told(a, useEditHistory) /\ OnReturn(a)
<1>1. /\ Seen(useRevertEdit) /\ Seen(timetableRoomSwap) /\ Seen(notificationNew)
      /\ Seen(notificationBadge) /\ Seen(messageNew) /\ Seen(conversationNew)
    BY KeyPrefixes
    DEF Told, OnReturn, Concerns, Refreshes, DashboardTables, Handler, Mutation, Query,
        conversationKeys, conversationNew, dashboardKeys, messageKeys, messageNew,
        notificationBadge, notificationKeys, notificationNew, timetableKeys, timetableRoomSwap,
        useDashboardStatus, useEditHistory, useRevertEdit, useTimetableView
<1>2. /\ Seen(timetableCancelled) /\ Seen(timetableSubstitution) /\ Seen(timetableConnect)
      /\ Seen(messageRead) /\ Seen(pollVote)
    BY KeyPrefixes
    DEF Told, OnReturn, Concerns, Refreshes, Overlooked, DashboardTables, Handler, Query,
        dashboardKeys, messageKeys, messageRead, pollVote, timetableCancelled,
        timetableConnect, timetableKeys, timetableSubstitution, useDashboardStatus,
        useEditHistory, useTimetableView
<1> HIDE DEF Seen
<1>3. \A a \in TimetableHistoryPage.actions : Seen(a)
    BY <1>1, <1>2 DEF TimetableHistoryPage, Page, layoutSockets, useTimetableSocket,
        useNotificationSocket, useMessagingSocket
<1>4. QED
    BY <1>3 DEF PageTells, Seen, TimetableHistoryPage, Page

(* The page timetable.                                                     *)
LEMMA TimetablePageTells == PageTells(TimetablePage)
<1> DEFINE Seen(a) == /\ Told(a, useTimetableView) /\ Told(a, useHomework) /\ Told(a, useExams)
                      /\ Told(a, useTimetableClasses) /\ Told(a, useTeachers)
                      /\ Told(a, useRooms) /\ OnReturn(a)
<1>1. /\ Seen(timetableRoomSwap) /\ Seen(notificationNew) /\ Seen(notificationBadge)
      /\ Seen(messageNew) /\ Seen(conversationNew)
    BY KeyPrefixes
    DEF Told, OnReturn, Concerns, Refreshes, DashboardTables, Handler, Query, conversationKeys,
        conversationNew, dashboardKeys, examKeys, homeworkKeys, messageKeys, messageNew,
        notificationBadge, notificationKeys, notificationNew, timetableKeys, timetableRoomSwap,
        useDashboardStatus, useExams, useHomework, useRooms, useTeachers, useTimetableClasses,
        useTimetableView
<1>2. /\ Seen(timetableCancelled) /\ Seen(timetableSubstitution) /\ Seen(timetableConnect)
      /\ Seen(messageRead) /\ Seen(pollVote)
    BY KeyPrefixes
    DEF Told, OnReturn, Concerns, Refreshes, Overlooked, DashboardTables, Handler, Query,
        dashboardKeys, examKeys, homeworkKeys, messageKeys, messageRead, pollVote,
        timetableCancelled, timetableConnect, timetableKeys, timetableSubstitution,
        useDashboardStatus, useExams, useHomework, useRooms, useTeachers, useTimetableClasses,
        useTimetableView
<1> HIDE DEF Seen
<1>3. \A a \in TimetablePage.actions : Seen(a)
    BY <1>1, <1>2 DEF TimetablePage, Page, layoutSockets, useTimetableSocket,
        useNotificationSocket, useMessagingSocket
<1>4. QED
    BY <1>3 DEF PageTells, Seen, TimetablePage, Page

(* The page classbook/lessonId.                                            *)
LEMMA LessonPageTells == PageTells(LessonPage)
<1> DEFINE Seen(a) == /\ Told(a, useClassbookEntryByTimetableLesson) /\ Told(a, useNotes)
                      /\ Told(a, useAttendance) /\ Told(a, useRecentEntries)
                      /\ Told(a, useGradeMatrix) /\ Told(a, useGradeMatrixOfCategory)
                      /\ Told(a, useGradeWeights) /\ Told(a, useHomework) /\ Told(a, useExams)
                      /\ Told(a, useExamCollisionCheck) /\ OnReturn(a)
<1>1. /\ Seen(useCreateNote) /\ Seen(useUpdateNote) /\ Seen(useDeleteNote)
    BY KeyPrefixes
    DEF Told, OnReturn, Concerns, Refreshes, DashboardTables, Mutation, Query, classbookKeys,
        dashboardKeys, examKeys, gradeKeys, homeworkKeys, useAttendance,
        useClassbookEntryByTimetableLesson, useCreateNote, useDashboardStatus, useDeleteNote,
        useExamCollisionCheck, useExams, useGradeMatrix, useGradeMatrixOfCategory,
        useGradeWeights, useHomework, useNotes, useRecentEntries, useUpdateNote
<1>2. /\ Seen(attendanceUpdated) /\ Seen(gradeAdded) /\ Seen(excuseUpdated)
    BY KeyPrefixes
    DEF Told, OnReturn, Concerns, Refreshes, DashboardTables, Handler, OfPage, Query,
        attendanceUpdated, classbookKeys, dashboardKeys, examKeys, excuseKeys, excuseUpdated,
        gradeAdded, gradeKeys, homeworkKeys, useAttendance, useClassbookEntryByTimetableLesson,
        useDashboardStatus, useExamCollisionCheck, useExams, useGradeMatrix,
        useGradeMatrixOfCategory, useGradeWeights, useHomework, useNotes, useRecentEntries
<1>3. /\ Seen(useBulkAttendance) /\ Seen(useSetAllPresent) /\ Seen(useCreateGrade)
    BY KeyPrefixes
    DEF Told, OnReturn, Concerns, Refreshes, DashboardTables, Mutation, Query, classbookKeys,
        dashboardKeys, examKeys, gradeKeys, homeworkKeys, useAttendance, useBulkAttendance,
        useClassbookEntryByTimetableLesson, useCreateGrade, useDashboardStatus,
        useExamCollisionCheck, useExams, useGradeMatrix, useGradeMatrixOfCategory,
        useGradeWeights, useHomework, useNotes, useRecentEntries, useSetAllPresent
<1>4. /\ Seen(useUpdateGrade) /\ Seen(useDeleteGrade) /\ Seen(useCreateHomework)
    BY KeyPrefixes
    DEF Told, OnReturn, Concerns, Refreshes, DashboardTables, Mutation, Query, classbookKeys,
        dashboardKeys, examKeys, gradeKeys, homeworkKeys, useAttendance,
        useClassbookEntryByTimetableLesson, useCreateHomework, useDashboardStatus,
        useDeleteGrade, useExamCollisionCheck, useExams, useGradeMatrix,
        useGradeMatrixOfCategory, useGradeWeights, useHomework, useNotes, useRecentEntries,
        useUpdateGrade
<1>5. /\ Seen(useUpdateHomework) /\ Seen(useDeleteHomework) /\ Seen(useCreateExam)
    BY KeyPrefixes
    DEF Told, OnReturn, Concerns, Refreshes, DashboardTables, Mutation, Query, classbookKeys,
        dashboardKeys, examKeys, gradeKeys, homeworkKeys, useAttendance,
        useClassbookEntryByTimetableLesson, useCreateExam, useDashboardStatus,
        useDeleteHomework, useExamCollisionCheck, useExams, useGradeMatrix,
        useGradeMatrixOfCategory, useGradeWeights, useHomework, useNotes, useRecentEntries,
        useUpdateHomework
<1>6. /\ Seen(entryUpdated) /\ Seen(useUpdateLessonContent) /\ Seen(useUpdateGradeWeights)
      /\ Seen(useUpdateExam) /\ Seen(useDeleteExam)
    BY KeyPrefixes
    DEF Told, OnReturn, Concerns, Refreshes, Overlooked, DashboardTables, Handler, Mutation,
        OfPage, Query, classbookKeys, dashboardKeys, entryUpdated, examKeys, gradeKeys,
        homeworkKeys, useAttendance, useClassbookEntryByTimetableLesson, useDashboardStatus,
        useDeleteExam, useExamCollisionCheck, useExams, useGradeMatrix,
        useGradeMatrixOfCategory, useGradeWeights, useHomework, useNotes, useRecentEntries,
        useUpdateExam, useUpdateGradeWeights, useUpdateLessonContent
<1> HIDE DEF Seen
<1>7. \A a \in LessonPage.actions : Seen(a)
    BY <1>1, <1>2, <1>3, <1>4, <1>5, <1>6 DEF LessonPage, AttendanceGrid, LessonContentForm,
        GradeMatrix, HomeworkAndExams, Page, With, Mounts, useClassbookSocket
<1>8. QED
    BY <1>7 DEF PageTells, Seen, LessonPage, AttendanceGrid, LessonContentForm, GradeMatrix,
        HomeworkAndExams, Page, With, Mounts

(* The page excuses.                                                       *)
LEMMA ExcusesPageTells == PageTells(ExcusesPage)
<1> DEFINE Seen(a) == /\ Told(a, useExcuses) /\ OnReturn(a)
<1>1. /\ Seen(useCreateExcuse) /\ Seen(useReviewExcuse)
    BY KeyPrefixes
    DEF Told, OnReturn, Concerns, Refreshes, DashboardTables, Mutation, Query, dashboardKeys,
        excuseKeys, useCreateExcuse, useDashboardStatus, useExcuses, useReviewExcuse
<1> HIDE DEF Seen
<1>2. \A a \in ExcusesPage.actions : Seen(a)
    BY <1>1 DEF ExcusesPage, Page
<1>3. QED
    BY <1>2 DEF PageTells, Seen, ExcusesPage, Page

(* The page statistics/absence.                                            *)
LEMMA StatisticsPageTells == PageTells(StatisticsPage)
BY DEF PageTells, StatisticsPage, AbsenceStatisticsPanel, Page, With, Mounts

(* The page messages.                                                      *)
LEMMA MessagesPageTells == PageTells(MessagesPage)
<1> DEFINE Seen(a) == /\ Told(a, useConversations) /\ Told(a, useMessages)
                      /\ Told(a, useReadReceipts) /\ OnReturn(a)
<1>1. /\ Seen(useCreateConversation) /\ Seen(useCastVote) /\ Seen(useClosePoll)
      /\ Seen(useSendMessage) /\ Seen(useMarkRead) /\ Seen(timetableRoomSwap)
      /\ Seen(notificationNew) /\ Seen(notificationBadge) /\ Seen(messageNew)
      /\ Seen(conversationNew)
    BY KeyPrefixes
    DEF Told, OnReturn, Concerns, Refreshes, DashboardTables, Handler, Mutation, Query,
        conversationKeys, conversationNew, dashboardKeys, messageKeys, messageNew,
        notificationBadge, notificationKeys, notificationNew, pollKeys, timetableKeys,
        timetableRoomSwap, useCastVote, useClosePoll, useConversations, useCreateConversation,
        useDashboardStatus, useMarkRead, useMessages, useReadReceipts, useSendMessage
<1>2. /\ Seen(timetableCancelled) /\ Seen(timetableSubstitution) /\ Seen(timetableConnect)
      /\ Seen(messageRead) /\ Seen(pollVote)
    BY KeyPrefixes
    DEF Told, OnReturn, Concerns, Refreshes, Overlooked, DashboardTables, Handler, Query,
        conversationKeys, dashboardKeys, messageKeys, messageRead, pollVote,
        timetableCancelled, timetableConnect, timetableKeys, timetableSubstitution,
        useConversations, useDashboardStatus, useMessages, useReadReceipts
<1> HIDE DEF Seen
<1>3. \A a \in MessagesPage.actions : Seen(a)
    BY <1>1, <1>2 DEF MessagesPage, ConversationView, ReadReceiptDetail, Page, With, Mounts,
        layoutSockets, useTimetableSocket, useNotificationSocket, useMessagingSocket
<1>4. QED
    BY <1>3 DEF PageTells, Seen, MessagesPage, ConversationView, ReadReceiptDetail, Page, With,
        Mounts

(* The page rooms.                                                         *)
LEMMA RoomsPageTells == PageTells(RoomsPage)
<1> DEFINE Seen(a) == /\ Told(a, useRoomAvailability) /\ OnReturn(a)
<1>1. /\ Seen(useBookRoom) /\ Seen(useCancelBooking) /\ Seen(timetableRoomSwap)
      /\ Seen(notificationNew) /\ Seen(notificationBadge) /\ Seen(messageNew)
      /\ Seen(conversationNew)
    BY KeyPrefixes
    DEF Told, OnReturn, Concerns, Refreshes, DashboardTables, Handler, Mutation, Query,
        conversationKeys, conversationNew, dashboardKeys, messageKeys, messageNew,
        notificationBadge, notificationKeys, notificationNew, roomKeys, timetableKeys,
        timetableRoomSwap, useBookRoom, useCancelBooking, useDashboardStatus,
        useRoomAvailability
<1>2. /\ Seen(timetableCancelled) /\ Seen(timetableSubstitution) /\ Seen(timetableConnect)
      /\ Seen(messageRead) /\ Seen(pollVote)
    BY KeyPrefixes
    DEF Told, OnReturn, Concerns, Refreshes, Overlooked, DashboardTables, Handler, Query,
        dashboardKeys, messageKeys, messageRead, pollVote, roomKeys, timetableCancelled,
        timetableConnect, timetableKeys, timetableSubstitution, useDashboardStatus,
        useRoomAvailability
<1> HIDE DEF Seen
<1>3. \A a \in RoomsPage.actions : Seen(a)
    BY <1>1, <1>2 DEF RoomsPage, Page, layoutSockets, useTimetableSocket,
        useNotificationSocket, useMessagingSocket
<1>4. QED
    BY <1>3 DEF PageTells, Seen, RoomsPage, Page

(* The page settings.                                                      *)
LEMMA SettingsPageTells == PageTells(SettingsPage)
<1> DEFINE Seen(a) == /\ Told(a, useCalendarToken) /\ OnReturn(a)
<1>1. /\ Seen(useGenerateCalendarToken) /\ Seen(useRevokeCalendarToken)
    BY KeyPrefixes
    DEF Told, OnReturn, Concerns, Refreshes, DashboardTables, Mutation, Query,
        calendarTokenKeys, dashboardKeys, useCalendarToken, useDashboardStatus,
        useGenerateCalendarToken, useRevokeCalendarToken
<1> HIDE DEF Seen
<1>2. \A a \in SettingsPage.actions : Seen(a)
    BY <1>1 DEF SettingsPage, Page
<1>3. QED
    BY <1>2 DEF PageTells, Seen, SettingsPage, Page

(* No page is missing.                                                     *)
LEMMA EveryPageTells == \A p \in Pages : PageTells(p)
    BY ShellTells, SchoolSettingsTells, SubjectsPageTells, ClassesPageTells, ClassPageTells,
       ApplyRulesDialogTells, StudentsPageTells, StudentPageTells, TeachersPageTells,
       TeacherPageTells, UsersPageTells, UserPageTells, DsgvoPageTells, AuditLogPageTells,
       SolverTuningPageTells, SolverPageTells, ImportPageTells, ResourcesPageTells,
       SubstitutionsPageTells, OwnSubstitutionsPageTells, TimetableEditPageTells,
       TimetableHistoryPageTells, TimetablePageTells, LessonPageTells, ExcusesPageTells,
       StatisticsPageTells, MessagesPageTells, RoomsPageTells, SettingsPageTells
    DEF Pages

(* Whatever changes what a query of its page shows, or what the checklist  *)
(* counts, invalidates it or is listed.                                    *)
LEMMA EveryPairIsTold ==
    \A x \in Pairs : Refreshes(x[1], x[2]) \/ <<x[1].name, x[2].name>> \in Overlooked
<1>1. ASSUME NEW p \in Pages, NEW x \in PairsOf(p)
      PROVE  Refreshes(x[1], x[2]) \/ <<x[1].name, x[2].name>> \in Overlooked
    BY <1>1, EveryPageTells DEF PairsOf, PageTells, Told
<1>2. ASSUME NEW p \in Pages, NEW x \in PairsOnReturn(p)
      PROVE  Refreshes(x[1], x[2]) \/ <<x[1].name, x[2].name>> \in Overlooked
  <2>1. x[2] = useDashboardStatus
      BY DEF PairsOnReturn, AdminIndex, DashboardChecklist, Page, With, Mounts
  <2>2. QED
      BY <1>2, <2>1, EveryPageTells DEF PairsOnReturn, PageTells, OnReturn, Told
<1>3. QED
    BY <1>1, <1>2 DEF Pairs

(* Every page of the client shows what its user has been told of: any      *)
(* action of any page and any query of the same page, or the checklist     *)
(* the administrator goes back to, but for the pairs listed as overlooked, *)
(* under any timing of requests, refetches, failures and page changes,     *)
(* unless the change was announced while the page was left and an older    *)
(* answer was on its way to it.                                            *)
THEOREM PagesShowChanges == CacheSpec => []ChangesAreShown
<1>1. CacheInv => ChangesAreShown
  <2> SUFFICES ASSUME CacheInv PROVE ChangesAreShown
      OBVIOUS
  <2>1. Refreshes(action, query) \/ <<action.name, query.name>> \in Overlooked
      BY EveryPairIsTold DEF CacheInv, CacheTypes, action, query
  <2>2. Refreshes(action, query) => ShowsWhatWasTold
      BY DEF CacheInv, CacheTypes, CacheNumbers, WillShow, IsHonest, ShowsWhatWasTold, Nothing, NoFetch, Unserved
  <2>3. QED
      BY <2>1, <2>2 DEF ChangesAreShown
<1>2. QED
    BY <1>1, CacheInvHolds, PTL

(* The cache's versions are ones that were written, and it was told of no  *)
(* other.                                                                  *)
THEOREM CacheIsTyped == CacheSpec => []CacheTypeOK
<1>1. CacheInv => CacheTypeOK
  <2>1. CacheInv => {stale, mounted, failed, aux_overtaken} \subseteq BOOLEAN
      BY DEF CacheInv, CacheTypes, CacheFlags
  <2>2. QED
      BY <2>1 DEF CacheInv, CacheTypes, CacheNumbers, CacheTypeOK
<1>2. QED
    BY <1>1, CacheInvHolds, PTL

-----------------------------------------------------------------------------
(* Conversations, their counters, and polls.                               *)
(* A call names a message that was sent, and a vote is for what the poll   *)
(* allows as long as it is the same poll.                                  *)
Chose(r) == r.op \in {"vote", "replace"}

CallOK(c, r, n, p) ==
    /\ r \in Call
    /\ r.op = "send" => UserOf[c] \notin r.to
    /\ Chose(r) => r.message <= n
    /\ Chose(r) /\ p # Null /\ p.message = r.message /\ p.kind = "SINGLE_CHOICE" =>
          \E o \in Options : r.chosen = {o}
    /\ r.op = "replace" => r.old \subseteq Options \X {UserOf[c]}

CallsOK ==
    /\ call = [c \in Clients |-> call[c]]
    /\ \A c \in Clients : CallOK(c, call[c], sent, poll)

(* A message that is about to be sent has its number kept.                 *)
Writers == {c \in Clients : call[c].op \in {"send", "report", "reportNew"}}
RoomLeft == sent + Cardinality(Writers) <= MaxMessages

RowTypes ==
    /\ conv \in Conversation \cup {Null}
    /\ sent \in 0 .. MaxMessages /\ convs \in 0 .. MaxConvs
    /\ message \in [Messages -> Message \cup {Null}]
    /\ receipt \in [Messages -> [Users -> Receipt \cup {Null}]]
    /\ unread \in [Users -> Nat]
    /\ aux_crossed \in [Users -> BOOLEAN] /\ aux_deleted \in [Users -> BOOLEAN]

RowsMatch ==
    /\ conv = Null => convs < MaxConvs
    /\ \A m \in Messages :
          /\ message[m] # Null => conv # Null /\ m <= sent /\ receipt[m][message[m].sender] = Null
          /\ message[m] = Null => receipt[m] = NoReceipts

RowsInv == RowTypes /\ RowsMatch /\ UnreadMatches

(* A user whose votes did not race has voted for one option at most.       *)
OneEach ==
    poll # Null /\ poll.kind = "SINGLE_CHOICE" =>
        \A u \in Users : ~ aux_raced[u] => \A v, w \in Mine(u) : v = w

(* A final tally belongs to a closed poll that nobody is voting in.        *)
FinalIsFinal ==
    aux_final # Null => poll # Null /\ poll.closed /\ ~ Voting /\ votes = aux_final

PollInv ==
    /\ poll \in Poll \cup {Null} /\ (poll # Null => message[poll.message] # Null)
    /\ votes \subseteq Options \X Users /\ (poll = Null => votes = {} /\ aux_final = Null)
    /\ aux_raced \in [Users -> BOOLEAN]
    /\ OneEach /\ FinalIsFinal

ListInv == 
    list \in [Clients -> [shown : SUBSET Messages, cursor : Messages \cup {Null}, from : 0 .. MaxMessages, end : BOOLEAN]]

MessagingInv ==
    /\ RowsInv /\ PollInv /\ CallsOK /\ RoomLeft /\ ListInv /\ excuses \in 0 .. MaxReports

-----------------------------------------------------------------------------
(* What is in a call of each kind.                                         *)
LEMMA CallFields ==
    ASSUME NEW r \in Call
    PROVE  /\ r.op = "send" => r.type \in {"TEXT", "POLL"} /\ r.conv \in 1 .. MaxConvs /\ r.to \in SUBSET Users
           /\ r.op = "read" => r.seen \in SUBSET Messages
           /\ r.op = "report" => r.conv \in 1 .. MaxConvs
           /\ r.op \in {"vote", "replace"} => r.chosen \in SUBSET Options /\ r.message \in Messages
           /\ r.op = "replace" => r.old \in SUBSET (Options \X Users)
           /\ r.op = "retract" => r.message \in Messages
<1> DEFINE Plain == [op : {"none", "direct", "reportNew"}]
           Sendings == [op : {"send"}, type : {"TEXT", "POLL"}, conv : 1 .. MaxConvs, to : SUBSET Users]
           Reads == [op : {"read"}, seen : SUBSET Messages]
           Reports == [op : {"report"}, conv : 1 .. MaxConvs]
           Votes == [op : {"vote"}, chosen : SUBSET Options, message : Messages]
           Replaces == [op : {"replace"}, chosen : SUBSET Options, message : Messages,
                        old : SUBSET (Options \X Users)]
           Retracts == [op : {"retract"}, message : Messages]
<1>1. r \in Plain \/ r \in Sendings \/ r \in Reads \/ r \in Reports \/ r \in Votes \/ r \in Replaces
      \/ r \in Retracts
    BY DEF Call
<1>2. CASE r \in Plain
    BY <1>2
<1>3. CASE r \in Sendings
    BY <1>3
<1>4. CASE r \in Reads
    BY <1>4
<1>5. CASE r \in Reports
    BY <1>5
<1>6. CASE r \in Votes
    BY <1>6
<1>7. CASE r \in Replaces
    BY <1>7
<1>8. CASE r \in Retracts
    BY <1>8
<1>9. QED
    BY <1>1, <1>2, <1>3, <1>4, <1>5, <1>6, <1>7, <1>8

(* A request that ended is as good as any.                                 *)
LEMMA IdleCall == \A c, n, p : CallOK(c, Idle, n, p)
BY DEF CallOK, Idle, Call, Chose

(* What is checked of a call when it starts stays true of it, whatever is  *)
(* sent and whatever becomes of the poll: a new poll has a new message.    *)
LEMMA CallsOutlivePolls ==
    ASSUME NEW c, NEW r, NEW n \in Nat, NEW k \in Nat, NEW p, NEW q, n <= k, CallOK(c, r, n, p),
           \/ q = Null
           \/ p # Null /\ q.message = p.message /\ q.kind = p.kind
           \/ q.message = n + 1
    PROVE  CallOK(c, r, k, q)
<1>1. Chose(r) => r.message \in Nat
    BY CallFields, MessagingAssumption DEF CallOK, Chose, Messages
<1>2. QED
    BY <1>1 DEF CallOK

(* A step of one call.                                                     *)
LEMMA CallStep ==
    ASSUME CallsOK, NEW c \in Clients, NEW r, call' = [call EXCEPT ![c] = r],
           CallOK(c, r, sent', poll'),
           \A b \in Clients : CallOK(b, call[b], sent, poll) => CallOK(b, call[b], sent', poll')
    PROVE  CallsOK'
<1>1. call' = [b \in Clients |-> call'[b]] /\ call'[c] = r
    BY DEF CallsOK
<1>2. ASSUME NEW b \in Clients PROVE CallOK(b, call'[b], sent', poll')
  <2>1. CASE b = c
      BY <1>1, <2>1
  <2>2. CASE b # c
    <3>1. call'[b] = call[b]
        BY <2>2 DEF CallsOK
    <3>2. QED
        BY <3>1 DEF CallsOK
  <2>3. QED
      BY <2>1, <2>2
<1>3. QED
    BY <1>1, <1>2 DEF CallsOK

(* Messages are finitely many.                                             *)
LEMMA SomeMessages ==
    ASSUME NEW S \in SUBSET Messages
    PROVE  IsFiniteSet(S) /\ Cardinality(S) \in Nat
<1>1. IsFiniteSet(Messages)
    BY FS_Interval, MessagingAssumption DEF Messages
<1>2. QED
    BY <1>1, FS_Subset, FS_CardinalityType

(* The calls about to write a message are finitely many.                   *)
LEMMA SomeWriters == IsFiniteSet(Writers) /\ Cardinality(Writers) \in Nat
BY FS_Subset, FS_CardinalityType, MessagingAssumption DEF Writers

(* Fewer calls about to write leave no less room.                          *)
LEMMA NoMoreWriters ==
    ASSUME NEW W \in SUBSET Clients, NEW V \in SUBSET W, NEW n \in Nat,
           n + Cardinality(W) <= MaxMessages
    PROVE  n + Cardinality(V) <= MaxMessages
<1>1. IsFiniteSet(W)
    BY FS_Subset, MessagingAssumption
<1>2. Cardinality(V) \in Nat /\ Cardinality(W) \in Nat /\ Cardinality(V) <= Cardinality(W)
    BY <1>1, FS_Subset, FS_CardinalityType
<1>3. QED
    BY <1>2, MessagingAssumption

(* A call that is not about to write leaves the others their room.         *)
LEMMA OthersKeepRoom ==
    ASSUME RoomLeft, sent \in Nat, sent' = sent, NEW c \in Clients, NEW r,
           CallsOK, call' = [call EXCEPT ![c] = r],
           r.op \in {"send", "report", "reportNew"} => c \in Writers
    PROVE  RoomLeft'
<1>1. Writers' \subseteq Writers
    BY DEF Writers, CallsOK
<1>2. QED
    BY <1>1, NoMoreWriters DEF RoomLeft, Writers

(* One that is to write takes a number, if there is one left.              *)
LEMMA WriterTakesRoom ==
    ASSUME MayWrite, sent \in Nat, sent' = sent, NEW c \in Clients, NEW r,
           CallsOK, call[c] = Idle, call' = [call EXCEPT ![c] = r]
    PROVE  RoomLeft'
<1>1. Writers' \subseteq Writers \cup {c}
    BY DEF Writers, CallsOK
<1>2. c \notin Writers
    BY DEF Writers, Idle
<1>3. Cardinality(Writers \cup {c}) = Cardinality(Writers) + 1
    BY <1>2, SomeWriters, FS_AddElement
<1>4. sent + Cardinality(Writers) < MaxMessages
    BY DEF MayWrite, Writers
<1>5. sent + Cardinality(Writers \cup {c}) <= MaxMessages
    BY <1>3, <1>4, SomeWriters, MessagingAssumption
<1>6. Writers \cup {c} \in SUBSET Clients
    BY DEF Writers
<1>7. QED
    BY <1>1, <1>5, <1>6, NoMoreWriters DEF RoomLeft

(* One that has written gives it back.                                     *)
LEMMA WriterEnds ==
    ASSUME RoomLeft, sent \in Nat, NEW c \in Writers, CallsOK, call' = [call EXCEPT ![c] = Idle]
    PROVE  /\ sent + 1 <= MaxMessages
           /\ sent' \in {sent, sent + 1} => RoomLeft'
<1>1. Writers' = Writers \ {c}
    BY DEF Writers, CallsOK, Idle
<1>2. Cardinality(Writers \ {c}) = Cardinality(Writers) - 1 /\ Cardinality(Writers \ {c}) \in Nat
  <2>1. IsFiniteSet(Writers \ {c}) /\ Cardinality(Writers \ {c}) = Cardinality(Writers) - 1
      BY SomeWriters, FS_RemoveElement
  <2>2. QED
      BY <2>1, FS_CardinalityType
<1>3. QED
    BY <1>1, <1>2, SomeWriters, MessagingAssumption DEF RoomLeft
-----------------------------------------------------------------------------
(* The rows of a conversation.                                             *)

(* Nobody has an unread row of a message that is not there.                *)
LEMMA UnreadIsThere ==
    ASSUME RowTypes, RowsMatch, NEW u \in Users
    PROVE  /\ Unread(u) \in SUBSET Messages
           /\ \A m \in Unread(u) : message[m] # Null /\ m <= sent
<1>1. "unread" # Null
    BY MessagingAssumption DEF Receipt
<1>2. QED
    BY <1>1 DEF RowsMatch, Unread, NoReceipts

(* A new conversation has no messages, and no counter moves.               *)
LEMMA CreateKeepsRows ==
    ASSUME RowsInv, conv = Null, NEW members \in SUBSET Users, Create(members),
           UNCHANGED <<aux_crossed, aux_deleted>>
    PROVE  RowsInv'
<1>1. convs + 1 \in 1 .. MaxConvs
    BY MessagingAssumption DEF RowsInv, RowTypes, RowsMatch
<1>2. conv' \in Conversation /\ conv' # Null /\ convs' \in 0 .. MaxConvs
    BY <1>1, MessagingAssumption DEF Create, Conversation
<1>3. RowTypes'
    BY <1>2 DEF RowsInv, RowTypes, Create
<1>4. RowsMatch'
    BY <1>2 DEF RowsInv, RowsMatch, Create
<1>5. UnreadMatches'
    BY DEF RowsInv, UnreadMatches, Unread, Create
<1>6. QED
    BY <1>3, <1>4, <1>5 DEF RowsInv

(* A message adds one unread row and one to the counter of every           *)
(* recipient, in one transaction.                                          *)
LEMMA PostKeepsRows ==
    ASSUME RowsInv, conv # Null, sent + 1 <= MaxMessages, NEW s \in Users,
           NEW type \in {"TEXT", "POLL", "SYSTEM"}, NEW to \in SUBSET Users, s \notin to,
           Post(s, type, to), UNCHANGED <<aux_crossed, aux_deleted>>
    PROVE  RowsInv' /\ message' = [message EXCEPT ![sent + 1] = [sender |-> s, type |-> type]]
<1> DEFINE m == sent + 1
           row == [sender |-> s, type |-> type]
           rowOf == [u \in Users |-> IF u \in to THEN "unread" ELSE Null]
<1>1. m \in Messages /\ m \in 0 .. MaxMessages
    BY MessagingAssumption DEF RowsInv, RowTypes, Messages
<1>2. row \in Message /\ row # Null /\ row.sender = s
    BY MessagingAssumption DEF Message
<1>3. rowOf \in [Users -> Receipt \cup {Null}] /\ rowOf[s] = Null
    BY DEF Receipt
<1>4. /\ sent' = m /\ message' = [message EXCEPT ![m] = row] /\ receipt' = [receipt EXCEPT ![m] = rowOf]
      /\ UNCHANGED <<conv, convs>>
    BY DEF Post
<1>5. unread' \in [Users -> Nat] /\ \A u \in Users : unread'[u] = IF u \in to THEN unread[u] + 1 ELSE unread[u]
  <2>1. \A u \in Users : unread[u] + (IF u \in to THEN 1 ELSE 0) \in Nat
      BY DEF RowsInv, RowTypes
  <2>2. unread' = [u \in Users |-> unread[u] + IF u \in to THEN 1 ELSE 0]
      BY DEF Post
  <2>3. QED
      BY <2>1, <2>2 DEF RowsInv, RowTypes
<1> HIDE DEF m, row, rowOf
<1>6. RowTypes'
  <2>1. message' \in [Messages -> Message \cup {Null}]
      BY <1>1, <1>2, <1>4 DEF RowsInv, RowTypes
  <2>2. receipt' \in [Messages -> [Users -> Receipt \cup {Null}]]
      BY <1>1, <1>3, <1>4 DEF RowsInv, RowTypes
  <2>3. QED
      BY <1>1, <1>4, <1>5, <2>1, <2>2 DEF RowsInv, RowTypes
<1>7. message[m] = Null /\ receipt[m] = NoReceipts
  <2>1. ~(m <= sent)
      BY DEF m, RowsInv, RowTypes
  <2>2. QED
      BY <1>1, <2>1 DEF RowsInv, RowsMatch
<1>8. RowsMatch'
  <2>1. conv' = Null => convs' < MaxConvs
      BY <1>4 DEF RowsInv, RowsMatch
  <2>2. ASSUME NEW k \in Messages
        PROVE  /\ message'[k] # Null => conv' # Null /\ k <= sent' /\ receipt'[k][message'[k].sender] = Null
               /\ message'[k] = Null => receipt'[k] = NoReceipts
    <3>1. CASE k = m
      <4>1. message'[k] = row /\ receipt'[k] = rowOf
          BY <1>1, <1>4, <3>1 DEF RowsInv, RowTypes
      <4>2. k <= sent'
          BY <1>1, <1>4, <3>1
      <4>3. QED
          BY <1>2, <1>3, <1>4, <4>1, <4>2
    <3>2. CASE k # m
      <4>1. message'[k] = message[k] /\ receipt'[k] = receipt[k]
          BY <1>4, <3>2 DEF RowsInv, RowTypes
      <4>2. k <= sent => k <= sent'
          BY <1>1, <1>4, MessagingAssumption DEF m, RowsInv, RowTypes, Messages
      <4>3. QED
          BY <1>4, <4>1, <4>2 DEF RowsInv, RowsMatch
    <3>3. QED
        BY <3>1, <3>2
  <2>3. QED
      BY <2>1, <2>2 DEF RowsMatch
<1>9. UnreadMatches'
  <2> SUFFICES ASSUME NEW u \in Users
               PROVE  /\ ~ aux_crossed'[u] => unread'[u] >= Cardinality(Unread(u)')
                      /\ ~ aux_deleted'[u] => unread'[u] <= Cardinality(Unread(u)')
      BY DEF UnreadMatches
  <2>1. "unread" # Null
      BY MessagingAssumption DEF Receipt
  <2>2. m \notin Unread(u)
      BY <1>7, <2>1 DEF Unread, NoReceipts
  <2>3. Unread(u)' = IF u \in to THEN Unread(u) \cup {m} ELSE Unread(u)
    <3>1. \A k \in Messages : receipt'[k][u] = IF k = m THEN rowOf[u] ELSE receipt[k][u]
        BY <1>1, <1>4 DEF RowsInv, RowTypes
    <3>2. rowOf[u] = IF u \in to THEN "unread" ELSE Null
        BY DEF rowOf
    <3>3. CASE u \in to
        BY <1>1, <3>1, <3>2, <3>3 DEF Unread
    <3>4. CASE u \notin to
        BY <1>1, <2>1, <2>2, <3>1, <3>2, <3>4 DEF Unread
    <3>5. QED
        BY <3>3, <3>4
  <2>4. IsFiniteSet(Unread(u)) /\ Cardinality(Unread(u)) \in Nat
      BY SomeMessages DEF Unread
  <2>5. Cardinality(Unread(u) \cup {m}) = Cardinality(Unread(u)) + 1
      BY <2>2, <2>4, FS_AddElement
  <2>6. /\ ~ aux_crossed[u] => unread[u] >= Cardinality(Unread(u))
        /\ ~ aux_deleted[u] => unread[u] <= Cardinality(Unread(u))
      BY DEF RowsInv, UnreadMatches
  <2>7. unread[u] \in Nat
      BY DEF RowsInv, RowTypes
  <2>8. CASE u \in to
    <3>1. unread'[u] = unread[u] + 1 /\ Cardinality(Unread(u)') = Cardinality(Unread(u)) + 1
        BY <1>5, <2>3, <2>5, <2>8
    <3>2. QED
        BY <2>4, <2>6, <2>7, <3>1
  <2>9. CASE u \notin to
    <3>1. unread'[u] = unread[u] /\ Unread(u)' = Unread(u)
        BY <1>5, <2>3, <2>9
    <3>2. QED
        BY <2>6, <3>1
  <2>10. QED
      BY <2>8, <2>9
<1>10. QED
    BY <1>4, <1>6, <1>8, <1>9 DEF RowsInv, row, m

(* Deleting the conversation deletes everything that is counted.           *)
LEMMA DeletionKeepsRows ==
    ASSUME RowsInv, DeleteConversation
    PROVE  RowsInv'
<1>1. RowTypes'
  <2>1. NoReceipts \in [Users -> Receipt \cup {Null}]
      BY DEF NoReceipts
  <2>2. message' \in [Messages -> Message \cup {Null}] /\ receipt' \in [Messages -> [Users -> Receipt \cup {Null}]]
      BY <2>1 DEF DeleteConversation
  <2>3. unread' \in [Users -> Nat]
      BY DEF DeleteConversation
  <2>4. aux_crossed' \in [Users -> BOOLEAN] /\ aux_deleted' \in [Users -> BOOLEAN]
      BY DEF DeleteConversation, NoOne
  <2>5. QED
      BY <2>2, <2>3, <2>4 DEF RowsInv, RowTypes, DeleteConversation
<1>2. RowsMatch'
    BY DEF RowsMatch, DeleteConversation
<1>3. UnreadMatches'
  <2>1. ASSUME NEW u \in Users PROVE Unread(u)' = {} /\ unread'[u] = 0
      BY MessagingAssumption DEF DeleteConversation, Unread, NoReceipts, Receipt
  <2>2. QED
      BY <2>1, FS_EmptySet DEF UnreadMatches
<1>4. QED
    BY <1>1, <1>2, <1>3 DEF RowsInv

(* markRead resets the counter over the rows it has marked: too low if a   *)
(* row came in between, and never too high.                                *)
LEMMA MarkReadKeepsRows ==
    ASSUME RowsInv, NEW c \in Clients, WriteMarkRead(c)
    PROVE  RowsInv'
<1> DEFINE u == UserOf[c]
           seen == call[c].seen
<1>1. u \in Users
    BY MessagingAssumption
<1>2. \A m \in Messages, w \in Users :
          receipt'[m][w] = IF w = u /\ m \in seen /\ receipt[m][w] = "unread" THEN "read" ELSE receipt[m][w]
    BY <1>1 DEF WriteMarkRead, Marked, RowsInv, RowTypes
<1>3. /\ receipt' \in [Messages -> [Users -> Receipt \cup {Null}]]
      /\ receipt' = [m \in Messages |-> receipt'[m]]
      /\ \A m \in Messages : receipt'[m] = [w \in Users |-> receipt'[m][w]]
  <2>1. receipt' = [m \in Messages |-> [receipt[m] EXCEPT ![u] =
                        IF m \in seen /\ receipt[m][u] = "unread" THEN "read" ELSE receipt[m][u]]]
      BY DEF WriteMarkRead, Marked
  <2>2. \A m \in Messages : (IF m \in seen /\ receipt[m][u] = "unread" THEN "read" ELSE receipt[m][u])
                                \in Receipt \cup {Null}
      BY <1>1 DEF RowsInv, RowTypes, Receipt
  <2>3. \A m \in Messages : receipt[m] \in [Users -> Receipt \cup {Null}]
      BY DEF RowsInv, RowTypes
  <2> HIDE DEF u, seen
  <2>4. QED
      BY <2>1, <2>2, <2>3
<1>4. /\ UNCHANGED <<conv, message, sent, convs>>
      /\ unread' = [unread EXCEPT ![u] = 0]
      /\ aux_crossed' = [aux_crossed EXCEPT ![u] = ~ Unread(u) \subseteq seen]
      /\ aux_deleted' = [aux_deleted EXCEPT ![u] = FALSE]
    BY DEF WriteMarkRead
<1> HIDE DEF u, seen
<1>5. RowTypes'
  <2>1. unread' \in [Users -> Nat]
      BY <1>1, <1>4 DEF RowsInv, RowTypes
  <2>2. aux_crossed' \in [Users -> BOOLEAN] /\ aux_deleted' \in [Users -> BOOLEAN]
      BY <1>1, <1>4, Zenon DEF RowsInv, RowTypes
  <2>3. QED
      BY <1>3, <1>4, <2>1, <2>2 DEF RowsInv, RowTypes
<1>6. ASSUME NEW m \in Messages, NEW w \in Users PROVE receipt[m][w] = Null <=> receipt'[m][w] = Null
    BY <1>2, MessagingAssumption DEF Receipt
<1>7. RowsMatch'
  <2> SUFFICES ASSUME NEW m \in Messages
               PROVE  /\ message[m] # Null => receipt'[m][message[m].sender] = Null
                      /\ message[m] = Null => receipt'[m] = NoReceipts
      BY <1>4 DEF RowsInv, RowsMatch
  <2>1. CASE message[m] # Null
    <3>1. message[m].sender \in Users /\ receipt[m][message[m].sender] = Null
        BY <2>1 DEF RowsInv, RowTypes, RowsMatch, Message
    <3>2. QED
        BY <1>6, <2>1, <3>1
  <2>2. CASE message[m] = Null
    <3>1. \A w \in Users : receipt'[m][w] = Null
        BY <1>6, <2>2 DEF RowsInv, RowsMatch, NoReceipts
    <3>2. QED
        BY <1>3, <2>2, <3>1 DEF NoReceipts
  <2>3. QED
      BY <2>1, <2>2
<1>8. UnreadMatches'
  <2> SUFFICES ASSUME NEW w \in Users
               PROVE  /\ ~ aux_crossed'[w] => unread'[w] >= Cardinality(Unread(w)')
                      /\ ~ aux_deleted'[w] => unread'[w] <= Cardinality(Unread(w)')
      BY DEF UnreadMatches
  <2>1. Cardinality(Unread(w)') \in Nat
      BY SomeMessages DEF Unread
  <2>2. CASE w = u
    <3>1. unread'[w] = 0
        BY <1>1, <1>4, <2>2 DEF RowsInv, RowTypes
    <3>2. ASSUME ~ aux_crossed'[w] PROVE Unread(w)' = {}
      <4>1. Unread(w) \subseteq seen
          BY <1>1, <1>4, <2>2, <3>2 DEF RowsInv, RowTypes
      <4>2. QED
          BY <1>2, <2>2, <4>1 DEF Unread
    <3>3. QED
        BY <2>1, <3>1, <3>2, FS_EmptySet
  <2>3. CASE w # u
    <3>1. unread'[w] = unread[w] /\ aux_crossed'[w] = aux_crossed[w] /\ aux_deleted'[w] = aux_deleted[w]
        BY <1>4, <2>3, Zenon DEF RowsInv, RowTypes
    <3>2. Unread(w)' = Unread(w)
        BY <1>2, <2>3 DEF Unread
    <3>3. QED
        BY <3>1, <3>2 DEF RowsInv, UnreadMatches
  <2>4. QED
      BY <2>2, <2>3
<1>9. QED
    BY <1>5, <1>7, <1>8 DEF RowsInv

(* A deleted message takes its rows along and leaves the counters.         *)
LEMMA DeleteMessageKeepsRows ==
    ASSUME RowsInv, NEW c \in Clients, NEW m \in Messages, DeleteMessage(c, m)
    PROVE  RowsInv'
<1>1. /\ UNCHANGED <<conv, sent, convs, unread, aux_crossed>>
      /\ message' = [message EXCEPT ![m] = Null] /\ receipt' = [receipt EXCEPT ![m] = NoReceipts]
      /\ aux_deleted' = [u \in Users |-> aux_deleted[u] \/ receipt[m][u] = "unread"]
    BY DEF DeleteMessage
<1>2. RowTypes'
  <2>1. NoReceipts \in [Users -> Receipt \cup {Null}]
      BY DEF NoReceipts
  <2>2. message' \in [Messages -> Message \cup {Null}] /\ receipt' \in [Messages -> [Users -> Receipt \cup {Null}]]
      BY <1>1, <2>1 DEF RowsInv, RowTypes
  <2>3. aux_deleted' \in [Users -> BOOLEAN]
      BY <1>1
  <2>4. QED
      BY <1>1, <2>2, <2>3 DEF RowsInv, RowTypes
<1>3. RowsMatch'
    BY <1>1 DEF RowsInv, RowTypes, RowsMatch
<1>4. UnreadMatches'
  <2> SUFFICES ASSUME NEW u \in Users
               PROVE  /\ ~ aux_crossed'[u] => unread'[u] >= Cardinality(Unread(u)')
                      /\ ~ aux_deleted'[u] => unread'[u] <= Cardinality(Unread(u)')
      BY DEF UnreadMatches
  <2>1. \A k \in Messages : receipt'[k][u] = IF k = m THEN Null ELSE receipt[k][u]
      BY <1>1 DEF RowsInv, RowTypes, NoReceipts
  <2>2. "unread" # Null
      BY MessagingAssumption DEF Receipt
  <2>3. Unread(u)' \subseteq Unread(u)
      BY <2>1, <2>2 DEF Unread
  <2>4. Unread(u) \in SUBSET Messages
      BY DEF Unread
  <2>5. /\ Cardinality(Unread(u)') \in Nat /\ Cardinality(Unread(u)) \in Nat
        /\ Cardinality(Unread(u)') <= Cardinality(Unread(u))
      BY <2>3, <2>4, SomeMessages, FS_Subset
  <2>6. unread[u] \in Nat
      BY DEF RowsInv, RowTypes
  <2>7. ~ aux_crossed'[u] => unread'[u] >= Cardinality(Unread(u)')
      BY <1>1, <2>5, <2>6 DEF RowsInv, UnreadMatches
  <2>8. ASSUME ~ aux_deleted'[u] PROVE unread'[u] <= Cardinality(Unread(u)')
    <3>1. ~ aux_deleted[u] /\ receipt[m][u] # "unread"
        BY <1>1, <2>8
    <3>2. Unread(u)' = Unread(u)
        BY <2>1, <2>2, <3>1 DEF Unread
    <3>3. QED
        BY <1>1, <3>1, <3>2 DEF RowsInv, UnreadMatches
  <2>9. QED
      BY <2>7, <2>8
<1>5. QED
    BY <1>2, <1>3, <1>4 DEF RowsInv
-----------------------------------------------------------------------------
(* Votes, and the calls that cast them.                                    *)

Voices == {"vote", "retract", "replace"}

(* Who votes after a step of one call voted before, or is that call.       *)
LEMMA WhoVotes ==
    ASSUME CallsOK, NEW c \in Clients, NEW r, call' = [call EXCEPT ![c] = r], Voting'
    PROVE  Voting \/ r.op \in Voices
<1>1. PICK b \in Clients : call'[b].op \in Voices
    BY DEF Voting, Voices
<1>2. CASE b = c
    BY <1>1, <1>2 DEF CallsOK
<1>3. CASE b # c
    BY <1>1, <1>3 DEF CallsOK, Voting, Voices
<1>4. QED
    BY <1>2, <1>3

(* A poll and its votes are left alone, and nobody begins to vote on a     *)
(* final tally.                                                            *)
LEMMA PollsKept ==
    ASSUME PollInv, UNCHANGED <<poll, votes, aux_raced, aux_final>>,
           poll # Null => message'[poll.message] # Null,
           aux_final # Null /\ Voting' => Voting
    PROVE  PollInv'
<1>1. OneEach'
    BY DEF PollInv, OneEach, Mine
<1>2. FinalIsFinal'
    BY DEF PollInv, FinalIsFinal
<1>3. QED
    BY <1>1, <1>2 DEF PollInv

(* A step of the calls that changes no row.                                *)
LEMMA RowsKept ==
    ASSUME RowsInv, UNCHANGED <<rows, aux_crossed, aux_deleted>>
    PROVE  RowsInv'
<1>1. RowTypes' /\ RowsMatch'
    BY DEF rows, RowsInv, RowTypes, RowsMatch
<1>2. UnreadMatches'
    BY DEF rows, RowsInv, UnreadMatches, Unread
<1>3. QED
    BY <1>1, <1>2 DEF RowsInv

(* A call that goes on, and has changed nothing but what it knows.         *)
LEMMA CallKeepsMessaging ==
    ASSUME MessagingInv, NEW c \in Clients, NEW r, call' = [call EXCEPT ![c] = r],
           UNCHANGED <<rows, polls, list, messagingAux>>, excuses' \in 0 .. MaxReports,
           CallOK(c, r, sent, poll),
           r.op \in {"send", "report", "reportNew"} => c \in Writers \/ (MayWrite /\ call[c] = Idle),
           r.op \in Voices => Voting \/ (poll # Null /\ ~ poll.closed)
    PROVE  MessagingInv'
<1> USE DEF rows, polls, messagingAux
<1>1. sent \in Nat
    BY MessagingAssumption DEF MessagingInv, RowsInv, RowTypes
<1>2. RowsInv'
    BY RowsKept DEF MessagingInv
<1>3. PollInv'
  <2>1. aux_final # Null => poll # Null /\ poll.closed
      BY DEF MessagingInv, PollInv, FinalIsFinal
  <2>2. Voting' => Voting \/ r.op \in Voices
      BY WhoVotes DEF MessagingInv
  <2>3. QED
      BY <2>1, <2>2, PollsKept DEF MessagingInv, PollInv
<1>4. CallsOK'
    BY CallStep DEF MessagingInv
<1>5. RoomLeft'
    BY <1>1, OthersKeepRoom, WriterTakesRoom DEF MessagingInv
<1>6. QED
    BY <1>2, <1>3, <1>4, <1>5 DEF MessagingInv, ListInv

(* Each kind of call that begins.                                          *)
LEMMA BeginKeepsMessaging ==
    ASSUME MessagingInv, NEW c \in Clients,
           \/ FindDirect(c) \/ StartMarkRead(c) \/ StartReport(c) \/ StartRetract(c)
           \/ \E type \in {"TEXT", "POLL"} : StartSend(c, type)
           \/ \E chosen \in SUBSET Options : StartVote(c, chosen)
    PROVE  MessagingInv'
<1>1. RowTypes /\ PollInv /\ sent \in Nat
    BY MessagingAssumption DEF MessagingInv, RowsInv, RowTypes
<1>2. UserOf[c] \in Users
    BY MessagingAssumption
<1>3. CASE FindDirect(c)
  <2>1. CallOK(c, [op |-> "direct"], sent, poll)
      BY DEF CallOK, Call, Chose
  <2>2. QED
      BY <1>3, <2>1, CallKeepsMessaging DEF FindDirect, Begin, MessagingInv, Voices
<1>4. CASE StartMarkRead(c)
  <2>1. CallOK(c, [op |-> "read", seen |-> Unread(UserOf[c])], sent, poll)
      BY DEF CallOK, Call, Chose, Unread
  <2>2. QED
      BY <1>4, <2>1, CallKeepsMessaging DEF StartMarkRead, Begin, MessagingInv, Voices
<1>5. CASE StartReport(c)
  <2> DEFINE r == IF conv = Null THEN [op |-> "reportNew"] ELSE [op |-> "report", conv |-> conv.id]
  <2>1. CallOK(c, r, sent, poll)
    <3>1. CASE conv = Null
        BY <3>1 DEF CallOK, Call, Chose
    <3>2. CASE conv # Null
      <4>1. conv.id \in 1 .. MaxConvs
          BY <1>1, <3>2 DEF RowTypes, Conversation
      <4>2. QED
          BY <3>2, <4>1 DEF CallOK, Call, Chose
    <3>3. QED
        BY <3>1, <3>2
  <2>2. r.op \notin Voices
      BY DEF Voices
  <2>3. call[c] = Idle /\ call' = [call EXCEPT ![c] = r] /\ MayWrite
        /\ UNCHANGED <<rows, polls, list, messagingAux>>
      BY <1>5 DEF StartReport, Begin
  <2>4. excuses' \in 0 .. MaxReports
      BY <1>5, MessagingAssumption DEF StartReport, MessagingInv
  <2> HIDE DEF r
  <2>5. QED
      BY <2>1, <2>2, <2>3, <2>4, CallKeepsMessaging
<1>6. CASE StartRetract(c)
  <2>1. CallOK(c, [op |-> "retract", message |-> poll.message], sent, poll)
      BY <1>1, <1>6 DEF StartRetract, PollInv, Poll, CallOK, Call, Chose
  <2>2. QED
      BY <1>6, <2>1, CallKeepsMessaging DEF StartRetract, Begin, MessagingInv
<1>7. ASSUME NEW type \in {"TEXT", "POLL"}, StartSend(c, type) PROVE MessagingInv'
  <2> DEFINE r == [op |-> "send", type |-> type, conv |-> conv.id, to |-> conv.members \ {UserOf[c]}]
  <2>1. conv.id \in 1 .. MaxConvs /\ conv.members \in SUBSET Users
      BY <1>1, <1>7 DEF StartSend, IsMember, RowTypes, Conversation
  <2>2. CallOK(c, r, sent, poll) /\ r.op \notin Voices
      BY <2>1 DEF CallOK, Call, Chose, Voices
  <2>3. call[c] = Idle /\ call' = [call EXCEPT ![c] = r] /\ MayWrite
        /\ UNCHANGED <<rows, polls, excuses, list, messagingAux>>
      BY <1>7 DEF StartSend, Begin
  <2> HIDE DEF r
  <2>4. QED
      BY <2>2, <2>3, CallKeepsMessaging DEF MessagingInv
<1>8. ASSUME NEW chosen \in SUBSET Options, StartVote(c, chosen) PROVE MessagingInv'
  <2> DEFINE r == [op |-> "vote", chosen |-> chosen, message |-> poll.message]
  <2>1. poll \in Poll /\ poll # Null /\ ~ poll.closed
      BY <1>1, <1>8 DEF StartVote, PollInv
  <2>2. poll.message \in Messages /\ poll.message <= sent
      BY <2>1 DEF Poll, MessagingInv, PollInv, RowsInv, RowsMatch
  <2>3. ASSUME poll.kind = "SINGLE_CHOICE" PROVE \E o \in Options : chosen = {o}
    <3>1. IsFiniteSet(chosen)
        BY MessagingAssumption, FS_Subset
    <3>2. Cardinality(chosen) = 1
        BY <1>8, <2>3 DEF StartVote
    <3>3. PICK o : chosen = {o}
        BY <3>1, <3>2, FS_Singleton
    <3>4. QED
        BY <3>3
  <2>4. CallOK(c, r, sent, poll)
    <3>1. r \in Call
        BY <2>2 DEF Call
    <3>2. QED
        BY <2>2, <2>3, <3>1 DEF CallOK, Chose
  <2>5. r.op = "vote"
      OBVIOUS
  <2>6. call' = [call EXCEPT ![c] = r] /\ UNCHANGED <<rows, polls, excuses, list, messagingAux>>
      BY <1>8 DEF StartVote, Begin
  <2> HIDE DEF r
  <2>7. QED
      BY <2>1, <2>4, <2>5, <2>6, CallKeepsMessaging DEF MessagingInv
<1>9. QED
    BY <1>3, <1>4, <1>5, <1>6, <1>7, <1>8

(* A call that ends and has written nothing.                               *)
LEMMA EndKeepsMessaging ==
    ASSUME MessagingInv, NEW c \in Clients, End(c),
           UNCHANGED <<rows, polls, excuses, list, messagingAux>>
    PROVE  MessagingInv'
<1>1. Idle.op \notin {"send", "report", "reportNew"} /\ Idle.op \notin Voices
    BY DEF Idle, Voices
<1>2. QED
    BY <1>1, IdleCall, CallKeepsMessaging DEF End, MessagingInv

(* A conversation begins, and with it the call that found none ends or     *)
(* goes on.                                                                *)
LEMMA CreateKeepsMessaging ==
    ASSUME MessagingInv, conv = Null, NEW members \in SUBSET Users, Create(members),
           UNCHANGED <<polls, excuses, list, messagingAux>>,
           NEW c \in Clients, NEW r, call' = [call EXCEPT ![c] = r], CallOK(c, r, sent, poll),
           r.op \in {"send", "report", "reportNew"} => c \in Writers,
           r.op \in Voices => Voting
    PROVE  MessagingInv'
<1>1. sent \in Nat /\ sent' = sent /\ message' = message
    BY MessagingAssumption DEF MessagingInv, RowsInv, RowTypes, Create
<1>2. RowsInv'
    BY CreateKeepsRows DEF MessagingInv, messagingAux
<1>3. PollInv'
  <2>1. Voting' => Voting
      BY WhoVotes DEF MessagingInv
  <2>2. QED
      BY <1>1, <2>1, PollsKept DEF MessagingInv, PollInv, polls, messagingAux
<1>4. CallsOK'
    BY <1>1, CallStep DEF MessagingInv, polls
<1>5. RoomLeft'
    BY <1>1, OthersKeepRoom DEF MessagingInv
<1>6. QED
    BY <1>2, <1>3, <1>4, <1>5 DEF MessagingInv, ListInv

(* A conversation begins: createConversation for a broadcast, a direct one *)
(* and one made for an absence report.                                     *)
LEMMA ConversingKeepsMessaging ==
    ASSUME MessagingInv, NEW c \in Clients,
           CreateBroadcast(c) \/ CreateDirect(c) \/ CreateForReport(c)
    PROVE  MessagingInv'
<1>1. UserOf[c] \in Users /\ {Parent, KV} \in SUBSET Users /\ ClassMembers \cup {UserOf[c]} \in SUBSET Users
    BY MessagingAssumption
<1>2. Idle.op \notin {"send", "report", "reportNew"} /\ Idle.op \notin Voices
    BY DEF Idle, Voices
<1>3. CASE CreateBroadcast(c)
  <2>1. call' = [call EXCEPT ![c] = Idle] /\ conv = Null
        /\ Create(ClassMembers \cup {UserOf[c]}) /\ UNCHANGED <<polls, excuses, list, messagingAux>>
      BY <1>3 DEF CreateBroadcast, MessagingInv, CallsOK
  <2>2. QED
      BY <1>1, <1>2, <2>1, IdleCall, CreateKeepsMessaging
<1>4. CASE CreateDirect(c)
  <2>1. CASE conv = Null
      BY <1>1, <1>2, <1>4, <2>1, IdleCall, CreateKeepsMessaging DEF CreateDirect, End
  <2>2. CASE conv # Null
      BY <1>4, <2>2, EndKeepsMessaging DEF CreateDirect
  <2>3. QED
      BY <2>1, <2>2
<1>5. CASE CreateForReport(c)
  <2>1. CASE conv = Null
    <3> DEFINE r == [op |-> "report", conv |-> convs + 1]
    <3>1. convs + 1 \in 1 .. MaxConvs
        BY <2>1, MessagingAssumption DEF MessagingInv, RowsInv, RowTypes, RowsMatch
    <3>2. CallOK(c, r, sent, poll) /\ r.op \notin Voices
        BY <3>1 DEF CallOK, Call, Chose, Voices
    <3>3. c \in Writers
        BY <1>5 DEF CreateForReport, Writers
    <3>4. call' = [call EXCEPT ![c] = r] /\ Create({Parent, KV})
          /\ UNCHANGED <<polls, excuses, list, messagingAux>>
        BY <1>5, <2>1 DEF CreateForReport
    <3> HIDE DEF r
    <3>5. QED
        BY <1>1, <2>1, <3>2, <3>3, <3>4, CreateKeepsMessaging
  <2>2. CASE conv # Null
      BY <1>5, <2>2, EndKeepsMessaging DEF CreateForReport
  <2>3. QED
      BY <2>1, <2>2
<1>6. QED
    BY <1>3, <1>4, <1>5
-----------------------------------------------------------------------------
(* Messages are written and deleted.                                       *)

(* The message is written by a call that had kept its number; a new poll   *)
(* comes with its message and has no votes.                                *)
LEMMA PostKeepsMessaging ==
    ASSUME MessagingInv, conv # Null, NEW c \in Writers, End(c), NEW s \in Users,
           NEW type \in {"TEXT", "POLL", "SYSTEM"}, NEW to \in SUBSET Users, s \notin to,
           Post(s, type, to), UNCHANGED <<votes, excuses, list, messagingAux>>,
           NEW kind \in Kind, type = "POLL" => poll = Null, poll' = NewPolls(type, kind)
    PROVE  MessagingInv'
<1> USE DEF messagingAux
<1>1. c \in Clients /\ call' = [call EXCEPT ![c] = Idle]
    BY DEF Writers, End
<1>2. sent \in Nat /\ sent' = sent + 1
    BY MessagingAssumption DEF MessagingInv, RowsInv, RowTypes, Post
<1>3. sent + 1 <= MaxMessages /\ RoomLeft'
    BY <1>1, <1>2, WriterEnds DEF MessagingInv
<1>4. RowsInv' /\ message' = [message EXCEPT ![sent + 1] = [sender |-> s, type |-> type]]
    BY <1>3, PostKeepsRows DEF MessagingInv
<1>5. sent + 1 \in Messages
    BY <1>2, <1>3, MessagingAssumption DEF Messages
<1>6. message'[sent + 1] # Null
  <2>1. [sender |-> s, type |-> type] \in Message
      BY DEF Message
  <2>2. message'[sent + 1] = [sender |-> s, type |-> type]
      BY <1>4, <1>5 DEF MessagingInv, RowsInv, RowTypes
  <2>3. QED
      BY <2>1, <2>2, MessagingAssumption
<1>7. Voting' => Voting
  <2>1. Idle.op \notin Voices
      BY DEF Idle, Voices
  <2>2. QED
      BY <1>1, <2>1, WhoVotes DEF MessagingInv
<1>8. PollInv'
  <2>1. CASE type = "POLL"
    <3>1. poll' = [message |-> sent + 1, kind |-> kind, closed |-> FALSE, past |-> FALSE]
        BY <2>1 DEF NewPolls
    <3>2. poll' \in Poll /\ poll' # Null /\ poll'.message = sent + 1
      <4>1. \A k \in Messages : [message |-> k, kind |-> kind, closed |-> FALSE, past |-> FALSE] \in Poll
          BY DEF Poll
      <4>2. poll' \in Poll
          BY <1>5, <3>1, <4>1
      <4>3. poll'.message = sent + 1
          BY <3>1
      <4>4. Null \notin Poll
          BY MessagingAssumption
      <4>5. QED
          BY <4>2, <4>3, <4>4
    <3>3. votes' = {} /\ aux_final' = Null
        BY <2>1 DEF MessagingInv, PollInv
    <3>4. QED
        BY <1>6, <3>2, <3>3 DEF MessagingInv, PollInv, OneEach, FinalIsFinal, Mine
  <2>2. CASE type # "POLL"
    <3>1. poll' = poll
        BY <2>2 DEF NewPolls
    <3>2. ASSUME poll # Null PROVE message'[poll.message] # Null
      <4>1. poll.message \in Messages /\ message[poll.message] # Null
          BY <3>2 DEF MessagingInv, PollInv, Poll
      <4>2. poll.message \in Messages /\ poll.message <= sent
          BY <4>1 DEF MessagingInv, RowsInv, RowsMatch
      <4>3. message'[poll.message] = message[poll.message]
          BY <1>2, <1>4, <4>2 DEF MessagingInv, RowsInv, RowTypes
      <4>4. QED
          BY <4>1, <4>3
    <3>3. QED
        BY <1>7, <3>1, <3>2, PollsKept DEF MessagingInv
  <2>3. QED
      BY <2>1, <2>2
<1>9. CallsOK'
  <2>1. \/ poll' = poll
        \/ poll'.message = sent + 1
      BY DEF NewPolls
  <2>2. sent <= sent' /\ sent' \in Nat
      BY <1>2
  <2>3. \A b \in Clients : CallOK(b, call[b], sent, poll) => CallOK(b, call[b], sent', poll')
    <3>1. CASE poll = Null /\ poll' = poll
        BY <1>2, <2>2, <3>1, CallsOutlivePolls
    <3>2. CASE poll # Null /\ poll' = poll
        BY <1>2, <2>2, <3>2, CallsOutlivePolls
    <3>3. CASE poll'.message = sent + 1
        BY <1>2, <2>2, <3>3, CallsOutlivePolls
    <3>4. QED
        BY <2>1, <3>1, <3>2, <3>3
  <2>4. QED
      BY <1>1, <2>3, IdleCall, CallStep DEF MessagingInv
<1>10. QED
    BY <1>3, <1>4, <1>8, <1>9 DEF MessagingInv, ListInv

(* sendMessage and the message of an absence report are written.           *)
LEMMA WritingKeepsMessaging ==
    ASSUME MessagingInv, NEW c \in Clients,
           (\E kind \in Kind : WriteMessage(c, kind)) \/ WriteReport(c)
    PROVE  MessagingInv'
<1>1. UserOf[c] \in Users /\ CallOK(c, call[c], sent, poll) /\ call[c] \in Call
    BY MessagingAssumption DEF MessagingInv, CallsOK, CallOK
<1>2. ASSUME NEW kind \in Kind, WriteMessage(c, kind) PROVE MessagingInv'
  <2>1. CASE Open(call[c].conv) /\ (call[c].type = "POLL" => poll = Null)
    <3>1. call[c].op = "send" /\ End(c) /\ UNCHANGED <<votes, excuses, list, messagingAux>>
          /\ Post(UserOf[c], call[c].type, call[c].to) /\ poll' = NewPolls(call[c].type, kind)
        BY <1>2, <2>1 DEF WriteMessage
    <3>2. call[c].type \in {"TEXT", "POLL", "SYSTEM"} /\ call[c].to \in SUBSET Users /\ UserOf[c] \notin call[c].to
        BY <1>1, <3>1, CallFields DEF CallOK
    <3>3. c \in Writers /\ conv # Null
        BY <2>1, <3>1 DEF Writers, Open
    <3>4. QED
        BY <1>1, <2>1, <3>1, <3>2, <3>3, PostKeepsMessaging
  <2>2. CASE ~(Open(call[c].conv) /\ (call[c].type = "POLL" => poll = Null))
    <3>1. End(c) /\ UNCHANGED <<rows, polls, excuses, list, messagingAux>>
        BY <1>2, <2>2 DEF WriteMessage
    <3>2. QED
        BY <3>1, EndKeepsMessaging
  <2>3. QED
      BY <2>1, <2>2
<1>3. CASE WriteReport(c)
  <2>1. CASE Open(call[c].conv)
    <3>1. call[c].op = "report" /\ End(c) /\ Post(Parent, "SYSTEM", {KV})
          /\ UNCHANGED <<polls, excuses, list, messagingAux>>
        BY <1>3, <2>1 DEF WriteReport
    <3>2. c \in Writers /\ conv # Null /\ Parent \in Users /\ {KV} \in SUBSET Users /\ Parent \notin {KV}
        BY <2>1, <3>1, MessagingAssumption DEF Writers, Open
    <3>3. "SYSTEM" # "POLL" /\ UNCHANGED votes /\ poll' = NewPolls("SYSTEM", "SINGLE_CHOICE")
        BY <3>1 DEF NewPolls, polls
    <3>4. "SINGLE_CHOICE" \in Kind
        BY DEF Kind
    <3>5. QED
        BY <3>1, <3>2, <3>3, <3>4, PostKeepsMessaging
  <2>2. CASE ~Open(call[c].conv)
      BY <1>3, <2>2, EndKeepsMessaging DEF WriteReport
  <2>3. QED
      BY <2>1, <2>2
<1>4. QED
    BY <1>2, <1>3

(* Without a call moving, what was checked of the calls stays true if      *)
(* nothing is sent and no new poll appears.                                *)
LEMMA CallsRest ==
    ASSUME CallsOK, UNCHANGED <<call, sent>>, sent \in Nat,
           \/ poll' = poll \/ poll' = Null
           \/ poll # Null /\ poll'.message = poll.message /\ poll'.kind = poll.kind
    PROVE  CallsOK'
<1>1. \A b \in Clients : CallOK(b, call[b], sent, poll')
  <2>1. CASE poll' = poll
      BY <2>1 DEF CallsOK
  <2>2. CASE poll' = Null \/ (poll # Null /\ poll'.message = poll.message /\ poll'.kind = poll.kind)
      BY <2>2, CallsOutlivePolls DEF CallsOK
  <2>3. QED
      BY <2>1, <2>2
<1>2. QED
    BY <1>1 DEF CallsOK

(* The poll goes with its votes.                                           *)
LEMMA PollGone ==
    ASSUME PollInv, poll' = Null, votes' = {}, aux_raced' = NoOne, aux_final' = Null
    PROVE  PollInv'
BY DEF PollInv, OneEach, FinalIsFinal, NoOne

(* A conversation is deleted with its messages, receipts, poll and votes.  *)
LEMMA DeletionKeepsMessaging ==
    ASSUME MessagingInv, DeleteConversation
    PROVE  MessagingInv'
<1>1. sent \in Nat
    BY MessagingAssumption DEF MessagingInv, RowsInv, RowTypes
<1>2. UNCHANGED <<call, sent, excuses, list>> /\ poll' = Null
    BY DEF DeleteConversation
<1>3. PollInv'
    BY PollGone DEF MessagingInv, DeleteConversation
<1>4. RoomLeft'
    BY <1>2 DEF MessagingInv, RoomLeft, Writers
<1>5. QED
    BY <1>1, <1>2, <1>3, <1>4, DeletionKeepsRows, CallsRest DEF MessagingInv, ListInv

(* A sender deletes a message, and the poll in it.                         *)
LEMMA DeleteMessageKeepsMessaging ==
    ASSUME MessagingInv, NEW c \in Clients, NEW m \in Messages, DeleteMessage(c, m)
    PROVE  MessagingInv'
<1>1. sent \in Nat
    BY MessagingAssumption DEF MessagingInv, RowsInv, RowTypes
<1>2. UNCHANGED <<call, sent, excuses, list>> /\ message' = [message EXCEPT ![m] = Null]
    BY DEF DeleteMessage
<1>3. PollInv' /\ poll' \in {poll, Null}
  <2>1. CASE poll # Null /\ poll.message = m
    <3>1. poll' = Null /\ votes' = {} /\ aux_raced' = NoOne /\ aux_final' = Null
        BY <2>1 DEF DeleteMessage
    <3>2. QED
        BY <3>1, PollGone DEF MessagingInv
  <2>2. CASE ~(poll # Null /\ poll.message = m)
    <3>1. UNCHANGED <<poll, votes, aux_raced, aux_final>>
        BY <2>2 DEF DeleteMessage, polls
    <3>2. poll # Null => message'[poll.message] # Null
        BY <1>2, <2>2 DEF MessagingInv, PollInv, RowsInv, RowTypes, Poll
    <3>3. Voting' => Voting
        BY <1>2 DEF Voting
    <3>4. QED
        BY <3>1, <3>2, <3>3, PollsKept DEF MessagingInv
  <2>3. QED
      BY <2>1, <2>2
<1>4. RoomLeft'
    BY <1>2 DEF MessagingInv, RoomLeft, Writers
<1>5. QED
    BY <1>1, <1>2, <1>3, <1>4, DeleteMessageKeepsRows, CallsRest DEF MessagingInv, ListInv

(* The transaction of markRead.                                            *)
LEMMA MarkReadKeepsMessaging ==
    ASSUME MessagingInv, NEW c \in Clients, WriteMarkRead(c)
    PROVE  MessagingInv'
<1>1. sent \in Nat
    BY MessagingAssumption DEF MessagingInv, RowsInv, RowTypes
<1>2. call' = [call EXCEPT ![c] = Idle]
      /\ UNCHANGED <<sent, message, poll, votes, excuses, list, aux_raced, aux_final>>
    BY DEF WriteMarkRead, End, polls
<1>3. Idle.op \notin {"send", "report", "reportNew"} /\ Idle.op \notin Voices
    BY DEF Idle, Voices
<1>4. PollInv'
    BY <1>2, <1>3, WhoVotes, PollsKept DEF MessagingInv, PollInv
<1>5. RoomLeft'
    BY <1>1, <1>2, <1>3, OthersKeepRoom DEF MessagingInv
<1>6. CallsOK'
    BY <1>2, IdleCall, CallStep DEF MessagingInv
<1>7. QED
    BY <1>2, <1>4, <1>5, <1>6, MarkReadKeepsRows DEF MessagingInv, ListInv
-----------------------------------------------------------------------------
(* The poll.                                                               *)

LEMMA DeleteVotesKeepsMessaging ==
    ASSUME MessagingInv, NEW c \in Clients, DeleteVotes(c)
    PROVE  MessagingInv'
<1> DEFINE mine == Mine(UserOf[c])
           r == [op |-> "replace", chosen |-> call[c].chosen, message |-> call[c].message, old |-> mine]
<1>1. call[c] \in Call /\ call[c].op = "vote" /\ CallOK(c, call[c], sent, poll)
    BY DEF MessagingInv, CallsOK, CallOK, DeleteVotes
<1>2. call[c].chosen \in SUBSET Options /\ call[c].message \in Messages
    BY <1>1, CallFields
<1>3. mine \in SUBSET (Options \X Users) /\ mine \subseteq Options \X {UserOf[c]}
  <2>1. \A v \in mine : v \in Options \X Users /\ v[2] = UserOf[c]
      BY DEF Mine, MessagingInv, PollInv
  <2>2. \A v \in Options \X Users : v = <<v[1], v[2]>> /\ v[1] \in Options
      OBVIOUS
  <2> HIDE DEF mine
  <2>3. QED
      BY <2>1, <2>2
<1>4. call' = [call EXCEPT ![c] = r] /\ UNCHANGED <<rows, polls, excuses, list, messagingAux>>
    BY DEF DeleteVotes
<1> HIDE DEF mine
<1>5. r \in Call
    BY <1>2, <1>3 DEF Call
<1>6. CallOK(c, r, sent, poll)
    BY <1>1, <1>3, <1>5 DEF CallOK, Chose
<1>7. r.op = "replace" /\ Voting
    BY <1>1 DEF Voting
<1> HIDE DEF r
<1>8. QED
    BY <1>4, <1>6, <1>7, CallKeepsMessaging DEF MessagingInv

(* The votes of a user who did not race are the ones just chosen.          *)
LEMMA VotesReplaced ==
    ASSUME PollInv, NEW u \in Users, NEW chosen \in SUBSET Options, NEW old \in SUBSET (Options \X {u}),
           poll # Null, poll.kind = "SINGLE_CHOICE" => \E o \in Options : chosen = {o},
           votes' = (votes \ old) \cup (chosen \X {u}),
           aux_raced' = [aux_raced EXCEPT ![u] = Mine(u) \cap (votes \ old) # {}],
           poll' = poll
    PROVE  OneEach'
<1> SUFFICES ASSUME poll.kind = "SINGLE_CHOICE", NEW w \in Users, ~ aux_raced'[w],
                    NEW v \in votes', NEW x \in votes', v[2] = w, x[2] = w
             PROVE  v = x
    BY DEF OneEach, Mine
<1>1. CASE w = u
  <2>1. Mine(u) \cap (votes \ old) = {}
      BY <1>1 DEF PollInv
  <2>2. v \in chosen \X {u} /\ x \in chosen \X {u}
      BY <1>1, <2>1 DEF Mine
  <2>3. PICK o \in Options : chosen = {o}
      OBVIOUS
  <2>4. QED
      BY <2>2, <2>3
<1>2. CASE w # u
  <2>1. v \in votes /\ x \in votes
      BY <1>2
  <2>2. ~ aux_raced[w]
      BY <1>2 DEF PollInv
  <2>3. QED
      BY <2>1, <2>2 DEF PollInv, OneEach, Mine
<1>3. QED
    BY <1>1, <1>2

(* castVote inserts the options chosen after it has deleted the old ones   *)
(* it had read.                                                            *)
LEMMA InsertVotesKeepsMessaging ==
    ASSUME MessagingInv, NEW c \in Clients, InsertVotes(c)
    PROVE  MessagingInv'
<1> DEFINE u == UserOf[c]
           new == call[c].chosen \X {u}
           kept == votes \ call[c].old
<1>1. u \in Users
    BY MessagingAssumption
<1>2. CallOK(c, call[c], sent, poll) /\ call[c].op = "replace" /\ call[c] \in Call
    BY DEF MessagingInv, CallsOK, CallOK, InsertVotes
<1>3. call[c].chosen \in SUBSET Options /\ call[c].old \in SUBSET (Options \X {u})
    BY <1>2, CallFields DEF CallOK
<1>4. End(c) /\ UNCHANGED <<rows, poll, excuses, list, aux_crossed, aux_deleted, aux_final>>
    BY DEF InsertVotes
<1>5. CASE poll # Null /\ poll.message = call[c].message /\ new \cap kept = {}
  <2>1. votes' = (votes \ call[c].old) \cup (call[c].chosen \X {u})
        /\ aux_raced' = [aux_raced EXCEPT ![u] = Mine(u) \cap (votes \ call[c].old) # {}]
      BY <1>5 DEF InsertVotes
  <2>2. poll.kind = "SINGLE_CHOICE" => \E o \in Options : call[c].chosen = {o}
      BY <1>2, <1>5 DEF CallOK, Chose
  <2>3. OneEach'
      BY <1>1, <1>3, <1>4, <1>5, <2>1, <2>2, VotesReplaced DEF MessagingInv
  <2>4. Voting
      BY <1>2 DEF Voting
  <2>5. aux_final' = Null
      BY <1>4, <2>4 DEF MessagingInv, PollInv, FinalIsFinal
  <2>6. votes' \subseteq Options \X Users
      BY <1>1, <1>3, <2>1 DEF MessagingInv, PollInv
  <2>7. aux_raced' \in [Users -> BOOLEAN]
      BY <2>1 DEF MessagingInv, PollInv
  <2>8. PollInv'
      BY <1>4, <1>5, <2>3, <2>5, <2>6, <2>7 DEF MessagingInv, PollInv, FinalIsFinal, rows
  <2>9. sent \in Nat /\ call' = [call EXCEPT ![c] = Idle] /\ sent' = sent /\ poll' = poll
      BY <1>4, MessagingAssumption DEF End, rows, MessagingInv, RowsInv, RowTypes
  <2>10. CallsOK'
      BY <2>9, IdleCall, CallStep DEF MessagingInv
  <2>11. RoomLeft'
      BY <2>9, OthersKeepRoom DEF MessagingInv, Idle
  <2>12. QED
      BY <1>4, <2>8, <2>10, <2>11, RowsKept DEF MessagingInv, ListInv
<1>6. CASE ~(poll # Null /\ poll.message = call[c].message /\ new \cap kept = {})
  <2>1. UNCHANGED <<votes, aux_raced>>
      BY <1>6 DEF InsertVotes
  <2>2. QED
      BY <1>4, <2>1, EndKeepsMessaging DEF polls, messagingAux
<1>7. QED
    BY <1>5, <1>6

(* A vote is retracted.                                                    *)
LEMMA RetractKeepsMessaging ==
    ASSUME MessagingInv, NEW c \in Clients, Retract(c)
    PROVE  MessagingInv'
<1>1. /\ call' = [call EXCEPT ![c] = Idle] /\ UNCHANGED <<rows, poll, excuses, list, messagingAux>>
      /\ votes' \subseteq votes /\ call[c].op = "retract"
    BY DEF Retract, End
<1>2. Voting
    BY <1>1 DEF Voting
<1>3. sent \in Nat /\ sent' = sent
    BY <1>1, MessagingAssumption DEF MessagingInv, RowsInv, RowTypes, rows
<1>4. PollInv'
  <2>1. OneEach'
      BY <1>1 DEF MessagingInv, PollInv, OneEach, Mine, messagingAux
  <2>2. aux_final' = Null
      BY <1>1, <1>2 DEF MessagingInv, PollInv, FinalIsFinal, messagingAux
  <2>3. QED
      BY <1>1, <2>1, <2>2 DEF MessagingInv, PollInv, FinalIsFinal, rows, messagingAux
<1>5. CallsOK'
    BY <1>1, <1>3, IdleCall, CallStep DEF MessagingInv
<1>6. RoomLeft'
    BY <1>1, <1>3, OthersKeepRoom DEF MessagingInv, Idle
<1>7. QED
    BY <1>1, <1>4, <1>5, <1>6, RowsKept DEF MessagingInv, ListInv, messagingAux

(* A poll that closes, or whose deadline passes, is the same poll; who     *)
(* closes it while nobody votes sees the final tally.                      *)
LEMMA PollStateKeepsMessaging ==
    ASSUME MessagingInv,
           DeadlinePasses \/ \E c \in Clients : VoteTooLate(c) \/ ClosePoll(c)
    PROVE  MessagingInv'
<1>1. poll \in Poll /\ poll # Null
    BY DEF MessagingInv, PollInv, DeadlinePasses, VoteTooLate, ClosePoll
<1>2. /\ UNCHANGED <<rows, votes, excuses, call, list, aux_crossed, aux_deleted, aux_raced>>
      /\ \/ poll' = [poll EXCEPT !.past = TRUE] /\ aux_final' = aux_final
         \/ poll' = [poll EXCEPT !.closed = TRUE] /\ aux_final' = Final
    BY DEF DeadlinePasses, VoteTooLate, ClosePoll, messagingAux
<1>3. /\ poll' \in Poll /\ poll'.message = poll.message /\ poll'.kind = poll.kind
      /\ poll.closed => poll'.closed
      /\ aux_final' = aux_final \/ (poll'.closed /\ aux_final' = Final)
    BY <1>1, <1>2 DEF Poll
<1>4. poll' # Null
    BY <1>3, MessagingAssumption
<1>5. Voting' = Voting
    BY <1>2 DEF Voting
<1>6. PollInv'
  <2>1. OneEach'
      BY <1>1, <1>2, <1>3 DEF MessagingInv, PollInv, OneEach, Mine
  <2>2. FinalIsFinal'
    <3>1. CASE aux_final' = aux_final
        BY <1>2, <1>3, <1>4, <1>5, <3>1 DEF MessagingInv, PollInv, FinalIsFinal
    <3>2. CASE poll'.closed /\ aux_final' = Final
        BY <1>2, <1>4, <1>5, <3>2 DEF MessagingInv, PollInv, FinalIsFinal, Final
    <3>3. QED
        BY <1>3, <3>1, <3>2
  <2>3. QED
      BY <1>1, <1>2, <1>3, <1>4, <2>1, <2>2 DEF MessagingInv, PollInv, rows
<1>7. sent \in Nat /\ sent' = sent
    BY <1>2, MessagingAssumption DEF MessagingInv, RowsInv, RowTypes, rows
<1>8. CallsOK'
    BY <1>1, <1>2, <1>3, <1>7, CallsRest DEF MessagingInv
<1>9. RoomLeft'
    BY <1>2, <1>7 DEF MessagingInv, RoomLeft, Writers
<1>10. QED
    BY <1>2, <1>6, <1>8, <1>9, RowsKept DEF MessagingInv, ListInv
-----------------------------------------------------------------------------
(* The list of a client.                                                   *)

(* The least of some numbers.                                              *)
LEMMA LeastNumber ==
    ASSUME NEW T \in SUBSET Nat, T # {}
    PROVE  \E x \in T : \A y \in T : x <= y
<1>1. PICK x \in T : \A y \in T : ~(<<y, x>> \in OpToRel(<, Nat))
    BY NatLessThanWellFounded, WFMin
<1>2. \A y \in T : ~(y < x)
    BY <1>1 DEF OpToRel
<1>3. QED
    BY <1>2

(* The newest of some messages.                                            *)
LEMMA NewestIs ==
    ASSUME NEW S \in SUBSET Messages, S # {}
    PROVE  Max(S) \in S
<1> DEFINE T == {x \in Nat : \E m \in S : x = MaxMessages - m}
<1>1. T \in SUBSET Nat /\ T # {} /\ \A m \in S : MaxMessages - m \in T
  <2>1. \A m \in S : MaxMessages - m \in Nat
      BY MessagingAssumption DEF Messages
  <2>2. QED
      BY <2>1
<1>2. \A x \in T : \E m \in S : x = MaxMessages - m
    OBVIOUS
<1> HIDE DEF T
<1>3. PICK x \in T : \A y \in T : x <= y
    BY <1>1, LeastNumber
<1>4. PICK m \in S : x = MaxMessages - m
    BY <1>2
<1>5. \A k \in S : m >= k
    BY <1>1, <1>3, <1>4, MessagingAssumption DEF Messages
<1>6. QED
    BY <1>5 DEF Max

(* A page of the message list is fetched and appended.                     *)
LEMMA LoadPageKeepsMessaging ==
    ASSUME MessagingInv, NEW c \in Clients, NEW again \in BOOLEAN, LoadPage(c, again)
    PROVE  MessagingInv'
<1> DEFINE before == IF again THEN [Unloaded EXCEPT !.from = sent] ELSE list[c]
           older == Older(before.cursor)
           page == Newest(older, PageSize)
           loaded == [before EXCEPT !.shown = @ \cup page,
                                    !.end = older = page,
                                    !.cursor = IF older = page THEN Null ELSE Max(older \ page)]
           Loaded == [shown : SUBSET Messages, cursor : Messages \cup {Null}, from : 0 .. MaxMessages, end : BOOLEAN]
<1>1. UNCHANGED <<rows, polls, excuses, call, messagingAux>> /\ list' = [list EXCEPT ![c] = loaded]
    BY DEF LoadPage
<1>2. before \in Loaded
  <2>1. Unloaded \in Loaded /\ sent \in 0 .. MaxMessages
      BY MessagingAssumption DEF Unloaded, MessagingInv, RowsInv, RowTypes
  <2>2. QED
      BY <2>1 DEF MessagingInv, ListInv
<1>3. older \in SUBSET Messages /\ page \subseteq older
    BY DEF Older, Newest
<1>4. older # page => Max(older \ page) \in Messages
  <2> SUFFICES ASSUME older # page PROVE Max(older \ page) \in Messages
      OBVIOUS
  <2>1. older \ page \in SUBSET Messages /\ older \ page # {}
      BY <1>3
  <2>2. QED
      BY <2>1, NewestIs
<1> HIDE DEF before, older, page
<1>5. loaded \in Loaded
    BY <1>2, <1>3, <1>4
<1>6. ListInv'
    BY <1>1, <1>5 DEF MessagingInv, ListInv
<1>7. sent \in Nat /\ UNCHANGED <<call, sent, poll, votes, message, aux_raced, aux_final>>
    BY <1>1, MessagingAssumption DEF rows, polls, messagingAux, MessagingInv, RowsInv, RowTypes
<1>8. CallsOK' /\ RoomLeft' /\ Voting' = Voting
    BY <1>7, CallsRest DEF MessagingInv, RoomLeft, Writers, Voting
<1>9. PollInv'
    BY <1>7, <1>8, PollsKept DEF MessagingInv, PollInv
<1>10. QED
    BY <1>1, <1>6, <1>8, <1>9, RowsKept DEF MessagingInv, messagingAux
-----------------------------------------------------------------------------
(* No conversation, no messages, no poll.                                  *)
LEMMA MessagingInitInv == MessagingInit => MessagingInv
<1> SUFFICES ASSUME MessagingInit PROVE MessagingInv
    OBVIOUS
<1>1. RowsInv
  <2>1. NoReceipts \in [Users -> Receipt \cup {Null}] /\ NoOne \in [Users -> BOOLEAN]
      BY DEF NoReceipts, NoOne
  <2>2. RowTypes
      BY <2>1, MessagingAssumption DEF MessagingInit, RowTypes
  <2>3. RowsMatch
      BY MessagingAssumption DEF MessagingInit, RowsMatch
  <2>4. \A u \in Users : Unread(u) = {} /\ unread[u] = 0
      BY MessagingAssumption DEF MessagingInit, Unread, NoReceipts, Receipt
  <2>5. UnreadMatches
      BY <2>4, FS_EmptySet DEF UnreadMatches
  <2>6. QED
      BY <2>2, <2>3, <2>5 DEF RowsInv
<1>2. PollInv
    BY DEF MessagingInit, PollInv, OneEach, FinalIsFinal, NoOne
<1>3. CallsOK
    BY IdleCall DEF MessagingInit, CallsOK
<1>4. RoomLeft
  <2>1. Writers = {}
      BY DEF MessagingInit, Writers, Idle
  <2>2. QED
      BY <2>1, FS_EmptySet, MessagingAssumption DEF MessagingInit, RoomLeft
<1>5. ListInv /\ excuses \in 0 .. MaxReports
    BY MessagingAssumption DEF MessagingInit, ListInv, Unloaded
<1>6. QED
    BY <1>1, <1>2, <1>3, <1>4, <1>5 DEF MessagingInv

(* Every step of messaging keeps the invariant.                            *)
LEMMA MessagingStep == MessagingInv /\ [MessagingNext]_messagingVars => MessagingInv'
<1> SUFFICES ASSUME MessagingInv, [MessagingNext]_messagingVars PROVE MessagingInv'
    OBVIOUS
<1>1. CASE Conversing
    BY <1>1, DeletionKeepsMessaging, ConversingKeepsMessaging, BeginKeepsMessaging DEF Conversing
<1>2. CASE Writing
    BY <1>2, BeginKeepsMessaging, WritingKeepsMessaging, ConversingKeepsMessaging, DeleteMessageKeepsMessaging
    DEF Writing
<1>3. CASE Reading
    BY <1>3, BeginKeepsMessaging, MarkReadKeepsMessaging, LoadPageKeepsMessaging DEF Reading
<1>4. CASE Polling
    BY <1>4, PollStateKeepsMessaging, BeginKeepsMessaging, DeleteVotesKeepsMessaging,
       InsertVotesKeepsMessaging, RetractKeepsMessaging DEF Polling
<1>5. CASE UNCHANGED messagingVars
  <2>1. UNCHANGED <<rows, polls, excuses, call, list, messagingAux>>
      BY <1>5 DEF messagingVars
  <2>2. sent \in Nat /\ UNCHANGED <<call, sent, poll, votes, message, aux_raced, aux_final>>
      BY <2>1, MessagingAssumption DEF rows, polls, messagingAux, MessagingInv, RowsInv, RowTypes
  <2>3. CallsOK' /\ RoomLeft' /\ Voting' = Voting
      BY <2>2, CallsRest DEF MessagingInv, RoomLeft, Writers, Voting
  <2>4. PollInv'
      BY <2>2, <2>3, PollsKept DEF MessagingInv, PollInv
  <2>5. QED
      BY <2>1, <2>3, <2>4, RowsKept DEF MessagingInv, ListInv, messagingAux
<1>6. QED
    BY <1>1, <1>2, <1>3, <1>4, <1>5 DEF MessagingNext

(* Every state of messaging satisfies the invariant.                       *)
LEMMA MessagingInvHolds == MessagingSpec => []MessagingInv
BY MessagingInitInv, MessagingStep, PTL DEF MessagingSpec

(* The state of messaging has its type: conversations, rows, receipts,     *)
(* counters, polls, votes, calls and lists are what the schema and the     *)
(* handlers make them.                                                     *)
THEOREM MessagingIsTyped == MessagingSpec => []MessagingTypeOK
<1>1. MessagingInv => MessagingTypeOK
  <2> SUFFICES ASSUME MessagingInv PROVE MessagingTypeOK
      OBVIOUS
  <2>1. call \in [Clients -> Call]
      BY DEF MessagingInv, CallsOK, CallOK
  <2>2. \A c \in Clients : list[c].shown \subseteq Messages /\ list[c].cursor \in Messages \cup {Null}
      BY DEF MessagingInv, ListInv
  <2>3. QED
      BY <2>1, <2>2 DEF MessagingInv, RowsInv, RowTypes, RowsMatch, PollInv, MessagingTypeOK
<1>2. QED
    BY <1>1, MessagingInvHolds, PTL

(* For any users, clients and number of messages: the unread counter of a  *)
(* member is not below the number of unread receipts unless a markRead     *)
(* crossed a new message, and not above it unless an unread message was    *)
(* deleted (message.service.ts, conversation.service.ts).                  *)
THEOREM BadgesMatch == MessagingSpec => []UnreadMatches
<1>1. MessagingInv => UnreadMatches
    BY DEF MessagingInv, RowsInv
<1>2. QED
    BY <1>1, MessagingInvHolds, PTL

(* For any users and options, and any interleaving of votes, retractions,  *)
(* closings and deletions: a single choice poll holds one vote of each     *)
(* user at most, unless two votes of the user raced, and the result of a   *)
(* poll that closed while nobody was voting stands (poll.service.ts).      *)
THEOREM PollsAreFair == MessagingSpec => []PollIsFair
<1>1. MessagingInv => PollIsFair
  <2> SUFFICES ASSUME MessagingInv PROVE PollIsFair
      OBVIOUS
  <2>1. ASSUME poll # Null, poll.kind = "SINGLE_CHOICE", NEW u \in Users, ~ aux_raced[u]
        PROVE  Cardinality(Mine(u)) <= 1
    <3>1. \A v, w \in Mine(u) : v = w
        BY <2>1 DEF MessagingInv, PollInv, OneEach
    <3>2. CASE Mine(u) = {}
        BY <3>2, FS_EmptySet
    <3>3. ASSUME NEW v \in Mine(u) PROVE Cardinality(Mine(u)) <= 1
      <4>1. Mine(u) = {v}
          BY <3>1, <3>3
      <4>2. QED
          BY <4>1, FS_Singleton
    <3>4. QED
        BY <3>2, <3>3
  <2>2. QED
      BY <2>1 DEF MessagingInv, PollInv, FinalIsFinal, PollIsFair, OneVoteEach, FinalTally
<1>2. QED
    BY <1>1, MessagingInvHolds, PTL

-----------------------------------------------------------------------------
(* The class book.                                                         *)
GridRow ==
    [lesson : Lessons \cup {None}, cache : Register \cup {None}, local : Register \cup {None},
     dirty : BOOLEAN, timer : Register \cup {None}, query : {"idle", "sent", "creating", "answered"},
     answer : Register \cup {None}, last : Nat]

SaveRow ==
    [from : Teachers, no : Nat, kind : {"bulk", "all"}, lesson : Lessons, rows : Register,
     at : {"sent", "done"}]

ReviewRow ==
    [excuse : {NoExcuse} \cup Excuses, verdict : {"PENDING", "ACCEPTED", "REJECTED"},
     lessons : SUBSET Lessons]

(* A register is whole, and belongs to a lesson that was opened.           *)
RegistersOK ==
    /\ record \in [Lessons -> [Students -> Row]]
    /\ opened \subseteq Lessons
    /\ \A l \in Lessons : Has(l) => l \in opened /\ \A s \in Students : record[l][s] # None

(* A grid shows, keeps and sends only what its lesson has.                 *)
Blank(g) == g.cache = None /\ g.local = None /\ g.timer = None /\ g.answer = None

GridOK(g, some) ==
    /\ g \in GridRow
    /\ g.lesson = None => g.query = "idle" /\ Blank(g)
    /\ g.lesson # None => g.lesson \in some /\ (Has(g.lesson) \/ Blank(g))

SaveOK(m) ==
    /\ m \in SaveRow
    /\ m.lesson \in opened /\ Has(m.lesson)
    /\ m.no <= grid[m.from].last
    /\ m.at = "sent" => m.no # aux_newest[m.from]

SavesOK ==
    /\ \A m \in saves : SaveOK(m)
    /\ \A m, n \in saves : m.from = n.from /\ m.no = n.no => m = n

(* What a reviewer has read still holds, but for the absences recorded     *)
(* since.                                                                  *)
ReviewOK(v) ==
    review[v].excuse # NoExcuse =>
        LET x == review[v].excuse
        IN  /\ x \in DOMAIN excuse /\ review[v].verdict \in {"ACCEPTED", "REJECTED"}
            /\ \A l \in review[v].lessons : DateOf[l] \in excuse[x].from .. excuse[x].to
            /\ \A l \in Lessons, s \in Students :
                  Covers(x, l, s) /\ record[l][s] # None /\ record[l][s].status = "ABSENT"
                  => <<l, s>> \in aux_late \/ l \in review[v].lessons

Linked(l, s) ==
    record[l][s] # None /\ record[l][s].excuse # NoExcuse =>
        LET x == record[l][s].excuse
        IN  /\ x \in DOMAIN excuse /\ Covers(x, l, s)
            /\ excuse[x].status = "ACCEPTED" \/ x \in aux_twice

ExcusesOK ==
    /\ excuse \in Seq(Excuse) /\ Len(excuse) <= MaxExcuses
    /\ review \in [Reviewers -> ReviewRow]
    /\ \A v \in Reviewers : ReviewOK(v)
    /\ \A l \in Lessons, s \in Students : Linked(l, s)
    /\ AbsencesAreExcused

(* What a teacher set waits in the timer, is on its way in the latest      *)
(* save, or was stored by it.                                              *)
OnItsWay(t, s) ==
    \E m \in saves : /\ m.from = t /\ m.no = grid[t].last /\ m.at = "sent"
                     /\ m.lesson = grid[t].lesson /\ m.rows[s] = aux_meant[t][s]

IsStored(t, s) ==
    aux_newest[t] = grid[t].last /\ record[grid[t].lesson][s].status = aux_meant[t][s]

Meant(t, s) ==
    /\ grid[t].lesson # None /\ Has(grid[t].lesson)
    /\ aux_doubt[t] = {} =>
          IF grid[t].timer # None THEN grid[t].timer[s] = aux_meant[t][s]
          ELSE OnItsWay(t, s) \/ IsStored(t, s)

MeantOK(t) == \A s \in Students : aux_meant[t][s] # None => Meant(t, s)

GridsOK ==
    /\ grid \in [Teachers -> GridRow]
    /\ aux_meant \in [Teachers -> [Students -> Status \cup {None}]]
    /\ aux_doubt = [t \in Teachers |-> aux_doubt[t]]
    /\ aux_newest \in [Teachers -> Nat]
    /\ \A t \in Teachers : GridOK(grid[t], opened) /\ aux_newest[t] <= grid[t].last /\ MeantOK(t)

ClassBookInv ==
    /\ RegistersOK /\ ExcusesOK /\ GridsOK /\ SavesOK /\ taps \in 0 .. MaxTaps
-----------------------------------------------------------------------------
(* None is no record, no register and no lesson.                           *)
LEMMA RowShape ==
    /\ None \notin Record /\ None \notin Register /\ None \notin Lessons
    /\ \A r \in Row : r # None => r \in Record
    /\ \A r \in Record : r.status \in Status /\ r.excuse \in {NoExcuse} \cup Excuses
BY ClassBookAssumption DEF Row, Record

(* A lesson that has a register has a record of every student.             *)
LEMMA ShownIs ==
    ASSUME RegistersOK, NEW l \in Lessons, Has(l)
    PROVE  Shown(l) \in Register /\ \A s \in Students : record[l][s] \in Record
<1>1. \A s \in Students : record[l][s] \in Record
    BY RowShape DEF RegistersOK
<1>2. QED
    BY <1>1, RowShape DEF Shown, Register

(* Excuses are numbered from one.                                          *)
LEMMA ExcuseNumbers ==
    ASSUME ExcusesOK
    PROVE  /\ DOMAIN excuse \subseteq Excuses /\ NoExcuse \notin Excuses /\ DOMAIN excuse = 1 .. Len(excuse)
           /\ \A x \in DOMAIN excuse : excuse[x] \in Excuse
BY ClassBookAssumption DEF ExcusesOK, Excuses, NoExcuse

-----------------------------------------------------------------------------
(* The grids.  A step of one teacher's grid that writes no record.         *)

(* Reviews and links do not look at the grids.                             *)
LEMMA ExcusesKept ==
    ASSUME ExcusesOK, UNCHANGED <<record, excuse, review, aux_late, aux_twice>>
    PROVE  ExcusesOK'
<1>1. \A x, l, s : Covers(x, l, s)' = Covers(x, l, s)
    BY DEF Covers
<1>2. \A v \in Reviewers : ReviewOK(v)'
    BY <1>1 DEF ExcusesOK, ReviewOK
<1>3. (\A l \in Lessons, s \in Students : Linked(l, s)') /\ AbsencesAreExcused'
    BY <1>1 DEF ExcusesOK, Linked, AbsencesAreExcused
<1>4. QED
    BY <1>2, <1>3 DEF ExcusesOK

(* Whichever request a new save of the grid is, it is the only one that is *)
(* new, and its number is the grid's latest.                               *)
NewSave(m, t, g) ==
    /\ m \in SaveRow /\ m.from = t /\ m.no = g.last /\ g.last = grid[t].last + 1
    /\ m.lesson \in opened /\ Has(m.lesson)

(* A step of one teacher's grid that keeps what the teacher meant on its   *)
(* way keeps the invariant.                                                *)
LEMMA GridStep ==
    ASSUME ClassBookInv, NEW t \in Teachers, NEW g, grid' = [grid EXCEPT ![t] = g],
           UNCHANGED <<record, excuse, review, aux_newest, aux_late, aux_twice>>,
           opened \subseteq opened', opened' \subseteq Lessons, taps' \in 0 .. MaxTaps,
           GridOK(g, opened'), grid[t].last <= g.last,
           \A m \in saves' : m \in saves \/ NewSave(m, t, g),
           \A m, n \in saves' : m \notin saves /\ n \notin saves => m = n,
           \A m \in saves : m.from # t => m \in saves',
           NEW set \in [Students -> Status \cup {None}], aux_meant' = [aux_meant EXCEPT ![t] = set],
           NEW doubt, aux_doubt' = [aux_doubt EXCEPT ![t] = doubt],
           MeantOK(t)'
    PROVE  ClassBookInv'
<1>1. \A l : Has(l)' = Has(l)
    BY DEF Has
<1>2. RegistersOK'
    BY <1>1 DEF ClassBookInv, RegistersOK
<1>3. ExcusesOK'
    BY ExcusesKept DEF ClassBookInv
<1>4. grid'[t] = g /\ g \in GridRow /\ \A u \in Teachers : u # t => grid'[u] = grid[u]
    BY DEF ClassBookInv, GridsOK, GridOK
<1>5. SavesOK'
  <2>1. ASSUME NEW m \in saves' PROVE SaveOK(m)'
    <3>1. CASE m \in saves
      <4>1. SaveOK(m) /\ m.from \in Teachers /\ m.no \in Nat
          BY <3>1 DEF ClassBookInv, SavesOK, SaveOK, SaveRow
      <4>2. grid[m.from].last <= grid'[m.from].last
          BY <1>4, <4>1 DEF ClassBookInv, GridsOK, GridRow
      <4>3. m.no <= grid'[m.from].last
          BY <1>4, <4>1, <4>2 DEF SaveOK, ClassBookInv, GridsOK, GridRow
      <4>4. QED
          BY <1>1, <4>1, <4>3 DEF SaveOK
    <3>2. CASE NewSave(m, t, g)
      <4>1. aux_newest[t] <= grid[t].last /\ aux_newest[t] \in Nat /\ grid[t].last \in Nat
          BY DEF ClassBookInv, GridsOK, GridRow
      <4>2. m.no # aux_newest[m.from] /\ m.no <= grid'[m.from].last
          BY <1>4, <3>2, <4>1 DEF NewSave
      <4>3. QED
          BY <1>1, <3>2, <4>2 DEF NewSave, SaveOK
    <3>3. QED
        BY <3>1, <3>2
  <2>2. ASSUME NEW m \in saves', NEW n \in saves', m.from = n.from, m.no = n.no PROVE m = n
    <3>1. ASSUME NEW j \in saves, NEW k, NewSave(k, t, g), j.from = k.from, j.no = k.no PROVE FALSE
      <4>1. j.no <= grid[t].last /\ j.no = grid[t].last + 1 /\ grid[t].last \in Nat
          BY <3>1 DEF NewSave, ClassBookInv, SavesOK, SaveOK, GridsOK, GridRow
      <4>2. QED
          BY <4>1
    <3>2. QED
        BY <2>2, <3>1 DEF ClassBookInv, SavesOK
  <2>3. QED
      BY <2>1, <2>2 DEF SavesOK
<1>6. GridsOK'
  <2>1. grid' \in [Teachers -> GridRow] /\ aux_meant' \in [Teachers -> [Students -> Status \cup {None}]]
        /\ aux_doubt' = [u \in Teachers |-> aux_doubt'[u]] /\ aux_newest' \in [Teachers -> Nat]
      BY <1>4 DEF ClassBookInv, GridsOK
  <2>2. ASSUME NEW u \in Teachers
        PROVE  GridOK(grid[u], opened)' /\ aux_newest'[u] <= grid'[u].last /\ MeantOK(u)'
    <3>1. CASE u = t
      <4>1. aux_newest[t] <= grid[t].last /\ aux_newest[t] \in Nat /\ grid[t].last \in Nat /\ g.last \in Nat
          BY <1>4 DEF ClassBookInv, GridsOK, GridRow
      <4>2. aux_newest'[u] <= grid'[u].last
          BY <1>4, <3>1, <4>1
      <4>3. GridOK(grid[u], opened)'
          BY <1>1, <1>4, <3>1 DEF GridOK
      <4>4. QED
          BY <3>1, <4>2, <4>3
    <3>2. CASE u # t
      <4>1. grid'[u] = grid[u] /\ aux_meant'[u] = aux_meant[u] /\ aux_doubt'[u] = aux_doubt[u]
          BY <1>4, <3>2 DEF ClassBookInv, GridsOK
      <4>2. GridOK(grid[u], opened)'
          BY <1>1, <4>1 DEF ClassBookInv, GridsOK, GridOK
      <4>3. MeantOK(u)'
        <5>1. \A s \in Students : OnItsWay(u, s) => OnItsWay(u, s)'
            BY <3>2, <4>1 DEF OnItsWay
        <5>2. \A s \in Students : IsStored(u, s) => IsStored(u, s)'
            BY <4>1 DEF IsStored
        <5>3. QED
            BY <1>1, <4>1, <5>1, <5>2 DEF ClassBookInv, GridsOK, MeantOK, Meant
      <4>4. QED
          BY <4>1, <4>2, <4>3 DEF ClassBookInv, GridsOK
    <3>3. QED
        BY <3>1, <3>2
  <2>3. QED
      BY <2>1, <2>2 DEF GridsOK
<1>7. QED
    BY <1>2, <1>3, <1>5, <1>6 DEF ClassBookInv

(* A grid that only shows something else, with its timer and its saves as  *)
(* they were.                                                              *)
LEMMA ShowingStep ==
    ASSUME ClassBookInv, NEW t \in Teachers, NEW g, grid' = [grid EXCEPT ![t] = g],
           UNCHANGED <<registers, taps, aux_meant, aux_newest, aux_late, aux_twice>>,
           GridOK(g, opened), g.lesson = grid[t].lesson, g.timer = grid[t].timer, g.last = grid[t].last,
           saves' \subseteq saves, \A m \in saves : m.from # t \/ m.at = "sent" => m \in saves',
           UNCHANGED aux_doubt
    PROVE  ClassBookInv'
<1>1. \A l : Has(l)' = Has(l)
    BY DEF Has, registers
<1>2. grid'[t] = g
    BY DEF ClassBookInv, GridsOK
<1>3. MeantOK(t)'
  <2>1. \A s \in Students : OnItsWay(t, s) => OnItsWay(t, s)'
      BY <1>2 DEF OnItsWay
  <2>2. \A s \in Students : IsStored(t, s) => IsStored(t, s)'
      BY <1>2 DEF IsStored, registers
  <2>3. QED
      BY <1>1, <1>2, <2>1, <2>2 DEF ClassBookInv, GridsOK, MeantOK, Meant
<1>4. /\ aux_meant[t] \in [Students -> Status \cup {None}]
      /\ aux_meant' = [aux_meant EXCEPT ![t] = aux_meant[t]]
      /\ aux_doubt' = [aux_doubt EXCEPT ![t] = aux_doubt[t]]
    BY DEF ClassBookInv, GridsOK
<1>5. GridOK(g, opened')
    BY <1>1 DEF GridOK, registers
<1>6. opened \subseteq opened' /\ opened' \subseteq Lessons /\ taps' \in 0 .. MaxTaps /\ grid[t].last <= g.last
    BY DEF registers, ClassBookInv, RegistersOK, GridsOK, GridRow
<1>7. QED
    BY <1>3, <1>4, <1>5, <1>6, GridStep DEF registers

(* What is known of a teacher's grid.                                      *)
LEMMA GridIs ==
    ASSUME ClassBookInv, NEW t \in Teachers
    PROVE  /\ grid[t] \in GridRow /\ GridOK(grid[t], opened) /\ MeantOK(t)
           /\ grid[t].query # "idle" => grid[t].lesson \in Lessons /\ grid[t].lesson \in opened
           /\ grid[t].local # None \/ grid[t].timer # None =>
                grid[t].lesson \in opened /\ grid[t].lesson # None /\ Has(grid[t].lesson)
           /\ None \notin Lessons
<1>1. grid[t] \in GridRow /\ GridOK(grid[t], opened) /\ MeantOK(t)
    BY DEF ClassBookInv, GridsOK
<1>2. QED
    BY <1>1, ClassBookAssumption DEF GridOK, Blank, GridRow

(* useAttendance asks again.                                               *)
LEMMA RefetchKeeps ==
    ASSUME ClassBookInv, NEW t \in Teachers, Refetch(t)
    PROVE  ClassBookInv'
<1> DEFINE g == Refetching(grid[t])
<1>1. GridOK(g, opened) /\ g.lesson = grid[t].lesson /\ g.timer = grid[t].timer /\ g.last = grid[t].last
    BY GridIs DEF Refetch, Refetching, GridOK, GridRow, Blank
<1>2. grid' = [grid EXCEPT ![t] = g]
      /\ UNCHANGED <<registers, taps, aux_meant, aux_newest, aux_late, aux_twice, aux_doubt, saves>>
    BY DEF Refetch, classBookAux
<1> HIDE DEF g
<1>3. QED
    BY <1>1, <1>2, ShowingStep

(* The register is read, or found missing and about to be created.         *)
LEMMA ReadRegisterKeeps ==
    ASSUME ClassBookInv, NEW t \in Teachers, ReadRegister(t)
    PROVE  ClassBookInv'
<1> DEFINE l == grid[t].lesson
           g == [grid[t] EXCEPT !.query = IF Has(l) THEN "answered" ELSE "creating",
                                !.answer = IF Has(l) THEN Shown(l) ELSE None]
<1>1. grid[t] \in GridRow /\ GridOK(grid[t], opened) /\ l \in Lessons /\ l \in opened /\ l # None
    BY GridIs DEF ReadRegister
<1>2. grid' = [grid EXCEPT ![t] = g]
      /\ UNCHANGED <<registers, taps, aux_meant, aux_newest, aux_late, aux_twice, aux_doubt, saves>>
  <2>1. grid' = [grid EXCEPT ![t].query = IF Has(l) THEN "answered" ELSE "creating",
                             ![t].answer = IF Has(l) THEN Shown(l) ELSE None]
      BY DEF ReadRegister
  <2>2. QED
      BY <2>1 DEF ReadRegister, classBookAux, ClassBookInv, GridsOK, GridRow
<1>3. GridOK(g, opened) /\ g.lesson = grid[t].lesson /\ g.timer = grid[t].timer /\ g.last = grid[t].last
  <2>1. CASE Has(l)
    <3>1. Shown(l) \in Register
        BY <1>1, <2>1, ShownIs DEF ClassBookInv
    <3>2. g = [grid[t] EXCEPT !.query = "answered", !.answer = Shown(l)]
        BY <2>1
    <3> HIDE DEF g
    <3>3. QED
        BY <1>1, <2>1, <3>1, <3>2 DEF GridOK, GridRow
  <2>2. CASE ~Has(l)
    <3>1. g = [grid[t] EXCEPT !.query = "creating", !.answer = None]
        BY <2>2
    <3> HIDE DEF g
    <3>2. QED
        BY <1>1, <2>2, <3>1 DEF GridOK, GridRow, Blank
  <2>3. QED
      BY <2>1, <2>2
<1> HIDE DEF g
<1>4. QED
    BY <1>2, <1>3, ShowingStep

(* The answer reaches the grid, which takes it over unless it is dirty.    *)
LEMMA ReceiveRegisterKeeps ==
    ASSUME ClassBookInv, NEW t \in Teachers, ReceiveRegister(t)
    PROVE  ClassBookInv'
<1> DEFINE o == grid[t]
           visible == IF o.answer # o.cache /\ ~o.dirty THEN o.answer ELSE o.local
           g == [o EXCEPT !.query = "idle", !.answer = None, !.cache = o.answer, !.local = visible]
<1>1. o \in GridRow /\ GridOK(o, opened)
    BY GridIs
<1>2. grid' = [grid EXCEPT ![t] = g]
      /\ UNCHANGED <<registers, taps, aux_meant, aux_newest, aux_late, aux_twice, aux_doubt, saves>>
    BY DEF ReceiveRegister, classBookAux
<1>3. visible \in {o.answer, o.local}
    OBVIOUS
<1> HIDE DEF o, visible
<1>4. GridOK(g, opened) /\ g.lesson = o.lesson /\ g.timer = o.timer /\ g.last = o.last
    BY <1>1, <1>3 DEF GridOK, GridRow, Blank
<1> HIDE DEF g
<1>5. QED
    BY <1>2, <1>4, ShowingStep DEF o
(* The answer of a save reaches the hook.                                  *)
LEMMA SaveAnsweredKeeps ==
    ASSUME ClassBookInv, NEW m \in saves, SaveAnswered(m)
    PROVE  ClassBookInv'
<1> DEFINE t == m.from
<1>1. t \in Teachers /\ m.at = "done" /\ m.lesson \in Lessons
    BY DEF SaveAnswered, ClassBookInv, SavesOK, SaveOK, SaveRow
<1>2. grid[t] \in GridRow /\ GridOK(grid[t], opened) /\ None \notin Lessons
    BY <1>1, GridIs
<1>3. \A n \in saves : n.from # t \/ n.at = "sent" => n \in saves'
    BY <1>1 DEF SaveAnswered
<1>4. saves' \subseteq saves
      /\ UNCHANGED <<registers, taps, aux_meant, aux_newest, aux_late, aux_twice, aux_doubt>>
    BY DEF SaveAnswered, classBookAux
<1>5. PICK g : /\ grid' = [grid EXCEPT ![t] = g]
               /\ g = grid[t] \/ (grid[t].lesson = m.lesson /\ g \in {Refetching(grid[t]), Clean(Refetching(grid[t]))})
  <2>1. CASE grid[t].lesson # m.lesson
    <3>1. grid' = [grid EXCEPT ![t] = grid[t]]
        BY <1>1, <2>1 DEF SaveAnswered, ClassBookInv, GridsOK
    <3>2. QED
        BY <3>1
  <2>2. CASE grid[t].lesson = m.lesson
    <3>1. \/ grid' = [grid EXCEPT ![t] = Refetching(grid[t])]
          \/ grid' = [grid EXCEPT ![t] = Clean(Refetching(grid[t]))]
        BY <2>2 DEF SaveAnswered
    <3>2. QED
        BY <2>2, <3>1
  <2>3. QED
      BY <2>1, <2>2
<1>6. GridOK(g, opened) /\ g.lesson = grid[t].lesson /\ g.timer = grid[t].timer /\ g.last = grid[t].last
  <2> DEFINE r == Refetching(grid[t])
  <2>1. CASE g = grid[t]
      BY <1>2, <2>1
  <2>2. CASE g # grid[t]
    <3>1. GridOK(r, opened) /\ r.lesson = grid[t].lesson /\ r.timer = grid[t].timer /\ r.last = grid[t].last /\ r \in GridRow
        BY <1>1, <1>2, <1>5, <2>2 DEF Refetching, GridOK, GridRow, Blank
    <3> HIDE DEF r
    <3>2. GridOK(Clean(r), opened) /\ Clean(r).lesson = r.lesson /\ Clean(r).timer = r.timer /\ Clean(r).last = r.last
      <4>1. CASE r.dirty
        <5>1. Clean(r) = [r EXCEPT !.dirty = FALSE, !.local = r.cache]
            BY <4>1 DEF Clean
        <5>2. QED
            BY <3>1, <5>1 DEF GridOK, GridRow, Blank
      <4>2. CASE ~r.dirty
          BY <3>1, <4>2 DEF Clean
      <4>3. QED
          BY <4>1, <4>2
    <3>3. QED
        BY <1>5, <2>2, <3>1, <3>2 DEF r
  <2>3. QED
      BY <2>1, <2>2
<1> HIDE DEF t
<1>7. QED
    BY <1>1, <1>3, <1>4, <1>5, <1>6, ShowingStep

(* After a loss the grid promises nothing.                                 *)
LEMMA SaveLostKeeps ==
    ASSUME ClassBookInv, NEW m \in saves, SaveLost(m)
    PROVE  ClassBookInv'
<1> DEFINE t == m.from
           doubt == aux_doubt[t] \cup {"lost"}
<1>1. t \in Teachers
    BY DEF ClassBookInv, SavesOK, SaveOK, SaveRow
<1>2. grid[t] \in GridRow /\ GridOK(grid[t], opened) /\ MeantOK(t)
    BY <1>1, GridIs
<1>3. /\ grid' = [grid EXCEPT ![t] = grid[t]] /\ aux_meant' = [aux_meant EXCEPT ![t] = aux_meant[t]]
      /\ aux_meant[t] \in [Students -> Status \cup {None}]
      /\ aux_doubt' = [aux_doubt EXCEPT ![t] = doubt] /\ aux_doubt'[t] # {}
      /\ UNCHANGED <<registers, taps, grid, aux_meant, aux_newest, aux_late, aux_twice>>
      /\ saves' \subseteq saves /\ \A n \in saves : n.from # t => n \in saves'
    BY <1>1 DEF SaveLost, ClassBookInv, GridsOK
<1>4. \A l : Has(l)' = Has(l)
    BY <1>3 DEF Has, registers
<1>5. MeantOK(t)'
    BY <1>2, <1>3, <1>4 DEF MeantOK, Meant
<1>6. GridOK(grid[t], opened')
    BY <1>2, <1>3 DEF registers
<1>7. opened \subseteq opened' /\ opened' \subseteq Lessons /\ taps' \in 0 .. MaxTaps /\ grid[t].last <= grid[t].last
    BY <1>2, <1>3 DEF registers, ClassBookInv, RegistersOK, GridRow
<1> HIDE DEF t, doubt
<1>8. QED
    BY <1>1, <1>3, <1>5, <1>6, <1>7, GridStep DEF registers

(* A grid that is mounted or unmounted has set nothing yet.                *)
LEMMA MountKeeps ==
    ASSUME ClassBookInv, NEW t \in Teachers,
           Leave(t) \/ \E l \in Lessons : OpenLesson(t, l)
    PROVE  ClassBookInv'
<1>1. grid[t] \in GridRow /\ grid[t].last \in Nat
    BY GridIs DEF GridRow
<1>2. PICK g : /\ grid' = [grid EXCEPT ![t] = g] /\ g.last = grid[t].last /\ g \in GridRow /\ Blank(g)
               /\ g.lesson = None => g.query = "idle"
               /\ g.lesson # None => g.lesson \in opened'
               /\ opened \subseteq opened' /\ opened' \subseteq Lessons
  <2>1. CASE Leave(t)
    <3> DEFINE g == [Closed EXCEPT !.last = grid[t].last]
    <3>1. g.last = grid[t].last /\ g \in GridRow /\ Blank(g) /\ g.lesson = None /\ g.query = "idle"
        BY <1>1 DEF Closed, GridRow, Blank
    <3>2. QED
        BY <2>1, <3>1 DEF Leave, registers, ClassBookInv, RegistersOK
  <2>2. ASSUME NEW l \in Lessons, OpenLesson(t, l)
        PROVE  \E g : /\ grid' = [grid EXCEPT ![t] = g] /\ g.last = grid[t].last /\ g \in GridRow /\ Blank(g)
                      /\ g.lesson = None => g.query = "idle"
                      /\ g.lesson # None => g.lesson \in opened'
                      /\ opened \subseteq opened' /\ opened' \subseteq Lessons
    <3> DEFINE g == [Closed EXCEPT !.lesson = l, !.query = "sent", !.last = grid[t].last]
    <3>1. g.last = grid[t].last /\ g \in GridRow /\ Blank(g) /\ g.lesson = l
        BY <1>1 DEF Closed, GridRow, Blank
    <3>2. l # None /\ opened' = opened \cup {l} /\ opened \subseteq Lessons
        BY <2>2, ClassBookAssumption DEF OpenLesson, ClassBookInv, RegistersOK
    <3>3. QED
        BY <2>2, <3>1, <3>2 DEF OpenLesson
  <2>3. QED
      BY <2>1, <2>2
<1>3. /\ aux_meant' = [aux_meant EXCEPT ![t] = NothingMeant]
      /\ UNCHANGED <<record, excuse, review, saves, taps, aux_doubt, aux_newest, aux_late, aux_twice>>
    BY DEF Leave, OpenLesson, registers
<1>4. NothingMeant \in [Students -> Status \cup {None}] /\ aux_doubt' = [aux_doubt EXCEPT ![t] = aux_doubt[t]]
    BY <1>3 DEF NothingMeant, ClassBookInv, GridsOK
<1>5. MeantOK(t)'
    BY <1>3 DEF MeantOK, NothingMeant, ClassBookInv, GridsOK
<1>6. GridOK(g, opened')
    BY <1>2 DEF GridOK
<1>7. /\ taps' \in 0 .. MaxTaps /\ grid[t].last <= g.last
      /\ UNCHANGED <<record, excuse, review, aux_newest, aux_late, aux_twice>> /\ saves' = saves
    BY <1>1, <1>2, <1>3 DEF ClassBookInv
<1>8. /\ \A m \in saves' : m \in saves \/ NewSave(m, t, g)
      /\ \A m, n \in saves' : m \notin saves /\ n \notin saves => m = n
      /\ \A m \in saves : m.from # t => m \in saves'
    BY <1>7
<1>9. PICK set : set = NothingMeant
    OBVIOUS
<1>10. PICK doubt : doubt = aux_doubt[t]
    OBVIOUS
<1>11. set \in [Students -> Status \cup {None}] /\ aux_meant' = [aux_meant EXCEPT ![t] = set]
       /\ aux_doubt' = [aux_doubt EXCEPT ![t] = doubt]
    BY <1>3, <1>4, <1>9, <1>10
<1>12. QED
    BY <1>2, <1>5, <1>6, <1>7, <1>8, <1>11, GridStep

(* A tap changes one status of what the grid shows and starts the timer    *)
(* with all of it: an earlier tap is still in it, unless what the grid     *)
(* shows has lost it meanwhile.                                            *)
LEMMA TapKeeps ==
    ASSUME ClassBookInv, NEW t \in Teachers, NEW s \in Students, Tap(t, s)
    PROVE  ClassBookInv'
<1> DEFINE o == grid[t]
           visible == [o.local EXCEPT ![s] = NextStatus[@]]
           set == [aux_meant[t] EXCEPT ![s] = visible[s]]
           doubt == IF \E u \in Students \ {s} : aux_meant[t][u] \notin {None, visible[u]}
                    THEN aux_doubt[t] \cup {"reverted"} ELSE aux_doubt[t]
<1> PICK g : g = [o EXCEPT !.local = visible, !.dirty = TRUE, !.timer = visible]
    OBVIOUS
<1>1. o.local # None /\ taps < MaxTaps /\ taps' = taps + 1 /\ grid' = [grid EXCEPT ![t] = g]
      /\ UNCHANGED <<registers, saves, aux_newest, aux_late, aux_twice>>
    BY DEF Tap
<1>2. o \in GridRow /\ GridOK(o, opened) /\ o.local \in Register /\ o.lesson \in opened /\ o.lesson # None /\ Has(o.lesson)
    BY <1>1, GridIs DEF GridRow
<1>3. visible \in Register /\ visible # None
  <2>1. \A r \in Status : NextStatus[r] \in Status
      BY DEF Status, NextStatus
  <2>2. visible \in Register
      BY <1>2, <2>1 DEF Register
  <2>3. QED
      BY <2>2, ClassBookAssumption
<1>4. aux_meant' = [aux_meant EXCEPT ![t] = set] /\ aux_doubt' = [aux_doubt EXCEPT ![t] = doubt]
  <2>1. aux_meant' = [aux_meant EXCEPT ![t][s] = visible[s]]
      BY DEF Tap
  <2>2. aux_doubt' = [aux_doubt EXCEPT ![t] =
              IF \E u \in Students \ {s} : aux_meant[t][u] \notin {None, visible[u]}
              THEN @ \cup {"reverted"} ELSE @]
      BY DEF Tap
  <2> HIDE DEF visible
  <2>3. QED
      BY <2>1, <2>2 DEF ClassBookInv, GridsOK
<1>5. set \in [Students -> Status \cup {None}]
    BY <1>3 DEF ClassBookInv, GridsOK, Register
<1>6. aux_doubt[t] # {} \/ doubt = {} => \A u \in Students \ {s} : aux_meant[t][u] \in {None, visible[u]} \/ doubt # {}
    OBVIOUS
<1>7. doubt = {} => \A u \in Students : set[u] \in {None, visible[u]}
  <2> HIDE DEF visible
  <2>1. doubt = {} => \A u \in Students \ {s} : aux_meant[t][u] \in {None, visible[u]}
      OBVIOUS
  <2>2. \A u \in Students : set[u] = IF u = s THEN visible[s] ELSE aux_meant[t][u]
      BY DEF ClassBookInv, GridsOK
  <2> HIDE DEF doubt, set
  <2>3. QED
      BY <2>1, <2>2
<1> HIDE DEF o, visible, set, doubt
<1>8. g \in GridRow /\ g.timer = visible /\ g.lesson = o.lesson /\ g.last = o.last /\ o.last \in Nat
    BY <1>2, <1>3 DEF GridRow
<1>9. \A l : Has(l)' = Has(l)
    BY <1>1 DEF Has, registers
<1>10. GridOK(g, opened')
    BY <1>1, <1>2, <1>8, <1>9 DEF GridOK, registers
<1>11. grid'[t] = g /\ aux_meant'[t] = set /\ aux_doubt'[t] = doubt
    BY <1>1, <1>4 DEF ClassBookInv, GridsOK
<1>12. MeantOK(t)'
  <2> SUFFICES ASSUME NEW u \in Students, set[u] # None PROVE Meant(t, u)'
      BY <1>11 DEF MeantOK
  <2>1. g.lesson # None /\ Has(g.lesson)'
      BY <1>2, <1>8, <1>9
  <2>2. doubt = {} => g.timer[u] = set[u] /\ g.timer # None
      BY <1>3, <1>7, <1>8
  <2>3. QED
      BY <1>11, <2>1, <2>2 DEF Meant
<1>13. opened \subseteq opened' /\ opened' \subseteq Lessons /\ taps' \in 0 .. MaxTaps /\ grid[t].last <= g.last
    BY <1>1, <1>8, ClassBookAssumption DEF registers, ClassBookInv, RegistersOK, o
<1>14. QED
    BY <1>1, <1>4, <1>5, <1>10, <1>12, <1>13, GridStep DEF registers

(* A grid whose timer was cleared and whose save has a new number.         *)
LEMMA TimerOut ==
    ASSUME NEW o \in GridRow, NEW g, g = [o EXCEPT !.timer = None, !.last = o.last + 1]
    PROVE  g \in GridRow /\ g.timer = None /\ g.lesson = o.lesson /\ g.last = o.last + 1
<1> DEFINE n == o.last + 1
<1>1. n \in Nat
    BY DEF GridRow
<1>2. g = [o EXCEPT !.timer = None, !.last = n]
    OBVIOUS
<1> HIDE DEF n
<1>3. g \in GridRow /\ g.timer = None /\ g.lesson = o.lesson /\ g.last = n
    BY <1>1, <1>2 DEF GridRow
<1>4. QED
    BY <1>3 DEF n

(* What the timer holds goes out as the latest save.                       *)
LEMMA TimerFiresKeeps ==
    ASSUME ClassBookInv, NEW t \in Teachers, TimerFires(t)
    PROVE  ClassBookInv'
<1> DEFINE o == grid[t]
           m == Save(t, "bulk", o.timer)
<1> PICK g : g = [o EXCEPT !.timer = None, !.last = o.last + 1]
    OBVIOUS
<1>1. o.timer # None /\ saves' = saves \cup {m} /\ UNCHANGED <<registers, taps, classBookAux>>
    BY DEF TimerFires
<1>2. o \in GridRow /\ GridOK(o, opened) /\ o.timer \in Register /\ o.lesson \in opened /\ o.lesson # None /\ Has(o.lesson)
      /\ o.lesson \in Lessons /\ o.last \in Nat
    BY <1>1, GridIs DEF GridRow, ClassBookInv, RegistersOK
<1>3. grid' = [grid EXCEPT ![t] = g]
    BY <1>2 DEF TimerFires, ClassBookInv, GridsOK
<1>4. m \in SaveRow /\ m.from = t /\ m.no = o.last + 1 /\ m.lesson = o.lesson /\ m.rows = o.timer /\ m.at = "sent"
    BY <1>2 DEF Save, SaveRow
<1> HIDE DEF m
<1>5. g \in GridRow /\ g.timer = None /\ g.lesson = o.lesson /\ g.last = o.last + 1 /\ GridOK(g, opened)
  <2> HIDE DEF o
  <2>1. g \in GridRow /\ g.timer = None /\ g.lesson = o.lesson /\ g.last = o.last + 1
      BY <1>2, TimerOut
  <2>2. QED
      BY <1>2, <2>1 DEF GridOK
<1>6. NewSave(m, t, g)
    BY <1>2, <1>4, <1>5 DEF NewSave
<1>7. \A l : Has(l)' = Has(l)
    BY <1>1 DEF Has, registers
<1>8. GridOK(g, opened')
    BY <1>1, <1>5, <1>7 DEF GridOK, registers
<1>9. grid'[t] = g
    BY <1>3 DEF ClassBookInv, GridsOK
<1>10. MeantOK(t)'
  <2> SUFFICES ASSUME NEW s \in Students, aux_meant[t][s] # None PROVE Meant(t, s)'
      BY <1>1 DEF MeantOK, classBookAux
  <2>1. aux_doubt[t] = {} => o.timer[s] = aux_meant[t][s]
      BY <1>1, GridIs DEF MeantOK, Meant
  <2>2. aux_doubt[t] = {} => OnItsWay(t, s)'
      BY <1>1, <1>4, <1>5, <1>9, <2>1 DEF OnItsWay, classBookAux
  <2>3. QED
      BY <1>1, <1>2, <1>5, <1>7, <1>9, <2>2 DEF Meant, classBookAux
<1>11. /\ aux_meant[t] \in [Students -> Status \cup {None}]
       /\ aux_meant' = [aux_meant EXCEPT ![t] = aux_meant[t]]
       /\ aux_doubt' = [aux_doubt EXCEPT ![t] = aux_doubt[t]]
    BY <1>1 DEF ClassBookInv, GridsOK, classBookAux
<1>12. opened \subseteq opened' /\ opened' \subseteq Lessons /\ taps' \in 0 .. MaxTaps /\ grid[t].last <= g.last
    BY <1>1, <1>2, <1>5 DEF registers, ClassBookInv, RegistersOK
<1>13. QED
    BY <1>1, <1>3, <1>6, <1>8, <1>10, <1>11, <1>12, GridStep DEF registers, classBookAux

(* All present is a tap on every student that is sent at once.             *)
LEMMA SetAllPresentKeeps ==
    ASSUME ClassBookInv, NEW t \in Teachers, SetAllPresent(t)
    PROVE  ClassBookInv'
<1> DEFINE o == grid[t]
           m == Save(t, "all", AllPresent)
           all == [o EXCEPT !.local = AllPresent]
           clean == Clean(all)
<1> PICK g : g = [clean EXCEPT !.timer = None, !.last = clean.last + 1]
    OBVIOUS
<1>1. o.local # None /\ taps < MaxTaps /\ taps' = taps + 1 /\ saves' = saves \cup {m}
      /\ aux_meant' = [aux_meant EXCEPT ![t] = AllPresent]
      /\ UNCHANGED <<registers, aux_doubt, aux_newest, aux_late, aux_twice>>
    BY DEF SetAllPresent
<1>2. o \in GridRow /\ GridOK(o, opened) /\ o.lesson \in opened /\ o.lesson # None /\ Has(o.lesson)
      /\ o.lesson \in Lessons /\ o.last \in Nat
    BY <1>1, GridIs DEF GridRow, ClassBookInv, RegistersOK
<1>3. grid' = [grid EXCEPT ![t] = g]
    BY DEF SetAllPresent
<1>4. AllPresent \in Register /\ \A s \in Students : AllPresent[s] = "PRESENT"
    BY DEF AllPresent, Register, Status
<1>5. m \in SaveRow /\ m.from = t /\ m.no = o.last + 1 /\ m.lesson = o.lesson /\ m.rows = AllPresent /\ m.at = "sent"
    BY <1>2, <1>4 DEF Save, SaveRow
<1> HIDE DEF m
<1>6. all \in GridRow /\ all.lesson = o.lesson /\ all.last = o.last
    BY <1>2, <1>4 DEF GridRow
<1> HIDE DEF all
<1>7. clean \in GridRow /\ clean.lesson = o.lesson /\ clean.last = o.last
  <2>1. CASE all.dirty
    <3>1. clean = [all EXCEPT !.dirty = FALSE, !.local = all.cache]
        BY <2>1 DEF Clean
    <3> HIDE DEF clean
    <3>2. QED
        BY <1>6, <3>1 DEF GridRow
  <2>2. CASE ~all.dirty
      BY <1>6, <2>2 DEF Clean
  <2>3. QED
      BY <2>1, <2>2
<1> HIDE DEF clean
<1>8. g \in GridRow /\ g.timer = None /\ g.lesson = o.lesson /\ g.last = o.last + 1
    BY <1>2, <1>7, TimerOut
<1>9. NewSave(m, t, g)
    BY <1>2, <1>5, <1>8 DEF NewSave
<1>10. \A l : Has(l)' = Has(l)
    BY <1>1 DEF Has, registers
<1>11. GridOK(g, opened')
    BY <1>1, <1>2, <1>8, <1>10 DEF GridOK, registers
<1>12. grid'[t] = g /\ aux_meant'[t] = AllPresent
    BY <1>1, <1>3 DEF ClassBookInv, GridsOK
<1>13. MeantOK(t)'
  <2> SUFFICES ASSUME NEW s \in Students PROVE Meant(t, s)'
      BY DEF MeantOK
  <2>1. OnItsWay(t, s)'
      BY <1>1, <1>5, <1>8, <1>12 DEF OnItsWay
  <2>2. QED
      BY <1>2, <1>8, <1>10, <1>12, <2>1 DEF Meant
<1>14. AllPresent \in [Students -> Status \cup {None}] /\ aux_doubt' = [aux_doubt EXCEPT ![t] = aux_doubt[t]]
    BY <1>1, <1>4 DEF ClassBookInv, GridsOK, Register
<1>15. opened \subseteq opened' /\ opened' \subseteq Lessons /\ taps' \in 0 .. MaxTaps /\ grid[t].last <= g.last
    BY <1>1, <1>2, <1>8, ClassBookAssumption DEF registers, ClassBookInv, RegistersOK
<1>16. QED
    BY <1>1, <1>3, <1>9, <1>11, <1>13, <1>14, <1>15, GridStep DEF registers
-----------------------------------------------------------------------------
(* Records are written.                                                    *)

(* What a step that writes records does: it loses none, and what a teacher *)
(* meant of a record that it changes is not expected any more.             *)
Lossless == \A l \in Lessons, s \in Students : record[l][s] # None => record'[l][s] # None

(* A register does not go away.                                            *)
LEMMA HasStays ==
    ASSUME Lossless, NEW l \in Lessons, Has(l)
    PROVE  Has(l)'
BY DEF Lossless, Has

(* What a teacher meant is forgotten of the records that changed.          *)
LEMMA KeptIs ==
    ASSUME ClassBookInv, NEW t \in Teachers, NEW s \in Students
    PROVE  /\ Kept(t)[s] \in Status \cup {None}
           /\ Kept(t)[s] # None => /\ Kept(t)[s] = aux_meant[t][s] /\ aux_meant[t][s] # None
                                   /\ grid[t].lesson # None
                                   /\ record'[grid[t].lesson][s] = record[grid[t].lesson][s]
  <1>1. Kept(t)[s] = IF grid[t].lesson # None /\ record'[grid[t].lesson][s] # record[grid[t].lesson][s]
                     THEN None ELSE aux_meant[t][s]
      BY DEF Kept
  <1>2. aux_meant[t][s] # None => grid[t].lesson # None
      BY DEF ClassBookInv, GridsOK, MeantOK, Meant
  <1>3. aux_meant[t][s] \in Status \cup {None}
      BY DEF ClassBookInv, GridsOK
  <1>4. QED
      BY <1>1, <1>2, <1>3

(* The grids of those who meant nothing of the records that changed.       *)
LEMMA GridKept ==
    ASSUME ClassBookInv, Lossless, NEW t \in Teachers, grid'[t] = grid[t],
           UNCHANGED opened, aux_doubt'[t] = aux_doubt[t], aux_newest'[t] = aux_newest[t],
           \A m \in saves : m.from = t => m \in saves',
           \A s \in Students : aux_meant'[t][s] # None =>
                /\ aux_meant'[t][s] = aux_meant[t][s]
                /\ record'[grid[t].lesson][s] = record[grid[t].lesson][s]
    PROVE  GridOK(grid[t], opened)' /\ aux_newest'[t] <= grid'[t].last /\ MeantOK(t)'
<1>1. grid[t] \in GridRow /\ GridOK(grid[t], opened) /\ MeantOK(t) /\ aux_newest[t] <= grid[t].last
    BY GridIs DEF ClassBookInv, GridsOK
<1>2. grid[t].lesson # None => grid[t].lesson \in Lessons
    BY <1>1 DEF GridRow
<1>3. grid[t].lesson # None /\ Has(grid[t].lesson) => Has(grid[t].lesson)'
    BY <1>2, HasStays
<1>4. GridOK(grid[t], opened)'
    BY <1>1, <1>3 DEF GridOK
<1>5. MeantOK(t)'
  <2> SUFFICES ASSUME NEW s \in Students, aux_meant'[t][s] # None PROVE Meant(t, s)'
      BY DEF MeantOK
  <2>1. aux_meant'[t][s] = aux_meant[t][s] /\ Meant(t, s)
      BY <1>1 DEF MeantOK
  <2>2. OnItsWay(t, s) => OnItsWay(t, s)'
      BY <2>1 DEF OnItsWay
  <2>3. IsStored(t, s) => IsStored(t, s)'
      BY <2>1 DEF IsStored
  <2>4. QED
      BY <1>3, <2>1, <2>2, <2>3 DEF Meant
<1>6. QED
    BY <1>1, <1>4, <1>5

(* The requests under way, when no grid and no lesson has gone.            *)
LEMMA SavesKept ==
    ASSUME ClassBookInv, Lossless, UNCHANGED <<opened, saves, aux_newest>>,
           \A t \in Teachers : grid'[t].last = grid[t].last
    PROVE  SavesOK'
<1>1. ASSUME NEW m \in saves PROVE SaveOK(m)'
  <2>1. SaveOK(m) /\ m.from \in Teachers /\ m.lesson \in Lessons
      BY DEF ClassBookInv, SavesOK, SaveOK, SaveRow
  <2>2. Has(m.lesson)'
      BY <2>1, HasStays DEF SaveOK
  <2>3. QED
      BY <2>1, <2>2 DEF SaveOK
<1>2. QED
    BY <1>1 DEF ClassBookInv, SavesOK

(* The first look at a register creates all of it.                         *)
LEMMA CreateRegisterKeeps ==
    ASSUME ClassBookInv, NEW t \in Teachers, CreateRegister(t)
    PROVE  ClassBookInv'
<1> DEFINE l == grid[t].lesson
<1>1. grid[t] \in GridRow /\ GridOK(grid[t], opened) /\ l \in Lessons /\ l \in opened /\ l # None
    BY GridIs DEF CreateRegister
<1>2. CASE Has(l)
  <2>1. PICK g : g = [grid[t] EXCEPT !.query = "idle"]
      OBVIOUS
  <2>2. grid' = [grid EXCEPT ![t] = g] /\ UNCHANGED <<registers, saves, taps, classBookAux>>
      BY <1>2, <2>1 DEF CreateRegister, registers, ClassBookInv, GridsOK
  <2>3. GridOK(g, opened) /\ g.lesson = grid[t].lesson /\ g.timer = grid[t].timer /\ g.last = grid[t].last
      BY <1>1, <2>1 DEF GridOK, GridRow, Blank
  <2>4. QED
      BY <2>2, <2>3, ShowingStep DEF classBookAux
<1>3. CASE ~Has(l)
  <2> DEFINE fresh == [s \in Students |-> [status |-> "PRESENT", excuse |-> NoExcuse]]
             g == [grid[t] EXCEPT !.query = "sent"]
  <2>1. /\ grid' = [grid EXCEPT ![t] = g] /\ record' = [record EXCEPT ![l] = fresh]
        /\ UNCHANGED <<opened, excuse, review, saves, taps, classBookAux>>
    <3>1. grid' = [grid EXCEPT ![t].query = "sent"]
        BY <1>3 DEF CreateRegister
    <3>2. QED
        BY <1>3, <3>1 DEF CreateRegister, ClassBookInv, GridsOK
  <2>2. \A s \in Students : record[l][s] = None
      BY <1>3 DEF Has
  <2>3. \A s \in Students : fresh[s] \in Record /\ fresh[s] # None
                            /\ fresh[s].status = "PRESENT" /\ fresh[s].excuse = NoExcuse
      BY RowShape DEF Record, Status
  <2>4. g \in GridRow /\ g.lesson = l /\ g.timer = grid[t].timer /\ g.last = grid[t].last
        /\ (Blank(grid[t]) => Blank(g))
      BY <1>1 DEF GridRow, Blank
  <2> HIDE DEF fresh, g
  <2>5. /\ \A k \in Lessons : k # l => record'[k] = record[k]
        /\ \A s \in Students : record'[l][s] = fresh[s]
      BY <1>1, <2>1 DEF ClassBookInv, RegistersOK
  <2>6. Lossless
      BY <2>2, <2>5 DEF Lossless
  <2>7. RegistersOK'
    <3>1. record' \in [Lessons -> [Students -> Row]]
      <4>1. fresh \in [Students -> Row]
          BY <2>3 DEF fresh, Row
      <4>2. QED
          BY <1>1, <2>1, <4>1 DEF ClassBookInv, RegistersOK
    <3>2. ASSUME NEW k \in Lessons, Has(k)' PROVE k \in opened' /\ \A s \in Students : record'[k][s] # None
      <4>1. CASE k = l
          BY <1>1, <2>1, <2>3, <2>5, <4>1
      <4>2. CASE k # l
          BY <2>1, <2>5, <3>2, <4>2 DEF Has, ClassBookInv, RegistersOK
      <4>3. QED
          BY <4>1, <4>2
    <3>3. QED
        BY <2>1, <3>1, <3>2 DEF ClassBookInv, RegistersOK
  <2>8. ExcusesOK'
    <3>1. \A x, k, s : Covers(x, k, s)' = Covers(x, k, s)
        BY <2>1 DEF Covers
    <3>2. UNCHANGED <<excuse, review, aux_late, aux_twice>>
        BY <2>1 DEF classBookAux
    <3>3. ASSUME NEW k \in Lessons, NEW s \in Students, record'[k][s] # None
          PROVE  \/ record'[k][s] = record[k][s]
                 \/ record'[k][s].status = "PRESENT" /\ record'[k][s].excuse = NoExcuse
        BY <2>3, <2>5
    <3>4. "PRESENT" # "ABSENT"
        OBVIOUS
    <3>5. \A v \in Reviewers : ReviewOK(v)'
        BY <3>1, <3>2, <3>3, <3>4 DEF ClassBookInv, ExcusesOK, ReviewOK
    <3>6. \A k \in Lessons, s \in Students : Linked(k, s)'
        BY <3>1, <3>2, <3>3 DEF ClassBookInv, ExcusesOK, Linked
    <3>7. AbsencesAreExcused'
        BY <3>1, <3>2, <3>3, <3>4 DEF ClassBookInv, ExcusesOK, AbsencesAreExcused
    <3>8. QED
        BY <3>2, <3>5, <3>6, <3>7 DEF ClassBookInv, ExcusesOK
  <2>9. /\ grid'[t] = g /\ \A u \in Teachers : u # t => grid'[u] = grid[u]
        /\ UNCHANGED <<aux_meant, aux_doubt, aux_newest>>
      BY <2>1 DEF ClassBookInv, GridsOK, classBookAux
  <2>10. SavesOK'
      BY <2>1, <2>4, <2>6, <2>9, SavesKept
  <2>11. ASSUME NEW u \in Teachers, NEW s \in Students, aux_meant[u][s] # None
         PROVE  /\ grid[u].lesson \in Lessons /\ grid[u].lesson # l
                /\ record'[grid[u].lesson][s] = record[grid[u].lesson][s]
    <3>1. grid[u].lesson # None /\ Has(grid[u].lesson) /\ grid[u] \in GridRow
        BY <2>11 DEF ClassBookInv, GridsOK, MeantOK, Meant
    <3>2. grid[u].lesson \in Lessons
        BY <3>1 DEF GridRow
    <3>3. QED
        BY <1>3, <2>5, <3>1, <3>2
  <2>12. ASSUME NEW u \in Teachers
         PROVE  GridOK(grid[u], opened)' /\ aux_newest'[u] <= grid'[u].last /\ MeantOK(u)'
    <3>1. CASE u # t
        BY <2>1, <2>6, <2>9, <2>11, <3>1, GridKept
    <3>2. CASE u = t
      <4>1. g.lesson \in opened /\ Blank(g) /\ g.lesson # None
          BY <1>1, <1>3, <2>4 DEF GridOK
      <4>2. GridOK(grid[u], opened)'
          BY <2>1, <2>4, <2>9, <3>2, <4>1 DEF GridOK
      <4>3. MeantOK(u)'
        <5>1. \A s \in Students : aux_meant[u][s] = None
            BY <2>11, <3>2
        <5>2. QED
            BY <2>9, <5>1 DEF MeantOK
      <4>4. aux_newest'[u] <= grid'[u].last
          BY <2>4, <2>9, <3>2 DEF ClassBookInv, GridsOK
      <4>5. QED
          BY <4>2, <4>3, <4>4
    <3>3. QED
        BY <3>1, <3>2
  <2>13. GridsOK'
    <3>1. grid' \in [Teachers -> GridRow]
        BY <2>1, <2>4 DEF ClassBookInv, GridsOK
    <3>2. QED
        BY <2>9, <2>12, <3>1 DEF ClassBookInv, GridsOK
  <2>14. QED
      BY <2>1, <2>7, <2>8, <2>10, <2>13 DEF ClassBookInv
<1>4. QED
    BY <1>2, <1>3
(* What a save writes keeps the links to excuses; an absence it records    *)
(* under review, or after it, is late.                                     *)
LEMMA SaveArrivesExcuses ==
    ASSUME ClassBookInv, NEW m \in saves, SaveArrives(m)
    PROVE  RegistersOK' /\ ExcusesOK' /\ Lossless
<1> DEFINE l == m.lesson
           new == Written(l, m.rows)
<1>1. m \in SaveRow /\ l \in Lessons /\ l \in opened /\ Has(l) /\ m.rows \in Register
    BY DEF ClassBookInv, SavesOK, SaveOK, SaveRow
<1>2. /\ record' = [record EXCEPT ![l] = new]
      /\ aux_late' = aux_late \cup {<<l, s>> : s \in {u \in Students : UnderReview(l, u)}}
      /\ UNCHANGED <<opened, excuse, review, aux_twice>>
    BY DEF SaveArrives
<1>3. \A s \in Students : record[l][s] \in Record
    BY <1>1, ShownIs DEF ClassBookInv
<1>4. \A s \in Students : /\ new[s] \in Record /\ new[s] # None
                          /\ new[s].status = m.rows[s] /\ new[s].excuse = record[l][s].excuse
  <2> SUFFICES ASSUME NEW s \in Students
               PROVE  /\ new[s] \in Record /\ new[s] # None
                      /\ new[s].status = m.rows[s] /\ new[s].excuse = record[l][s].excuse
      OBVIOUS
  <2>1. record[l][s] # None /\ record[l][s].excuse \in {NoExcuse} \cup Excuses /\ m.rows[s] \in Status
      BY <1>1, <1>3, RowShape DEF Register
  <2>2. new[s] = [status |-> m.rows[s], excuse |-> record[l][s].excuse]
      BY <2>1 DEF Written
  <2> HIDE DEF new
  <2>3. new[s] \in Record
      BY <2>1, <2>2 DEF Record
  <2>4. QED
      BY <2>2, <2>3, RowShape
<1>5. new \in [Students -> Row]
  <2>1. new = [s \in Students |-> new[s]]
      BY DEF Written
  <2> HIDE DEF new
  <2>2. QED
      BY <1>4, <2>1 DEF Row
<1> HIDE DEF new
<1>6. /\ \A k \in Lessons : k # l => record'[k] = record[k]
      /\ record'[l] = new
    BY <1>1, <1>2 DEF ClassBookInv, RegistersOK
<1>7. Lossless
    BY <1>4, <1>6 DEF Lossless
<1>8. RegistersOK'
  <2>1. record' \in [Lessons -> [Students -> Row]]
      BY <1>1, <1>2, <1>5 DEF ClassBookInv, RegistersOK
  <2>2. ASSUME NEW k \in Lessons, Has(k)' PROVE k \in opened' /\ \A s \in Students : record'[k][s] # None
    <3>1. CASE k = l
        BY <1>1, <1>2, <1>4, <1>6, <3>1
    <3>2. CASE k # l
        BY <1>2, <1>6, <2>2, <3>2 DEF Has, ClassBookInv, RegistersOK
    <3>3. QED
        BY <3>1, <3>2
  <2>3. QED
      BY <1>2, <2>1, <2>2 DEF ClassBookInv, RegistersOK
<1>9. \A x, k, s : Covers(x, k, s)' = Covers(x, k, s)
    BY <1>2 DEF Covers
<1>10. aux_late \subseteq aux_late'
    BY <1>2
<1>11. ASSUME NEW x \in DOMAIN excuse, NEW s \in Students, Covers(x, l, s),
              excuse[x].status = "ACCEPTED" \/ \E v \in Reviewers : review[v].excuse = x
       PROVE  <<l, s>> \in aux_late'
  <2>1. UnderReview(l, s)
      BY <1>11 DEF UnderReview
  <2>2. QED
      BY <1>2, <2>1
<1>12. ASSUME NEW v \in Reviewers PROVE ReviewOK(v)'
  <2> SUFFICES ASSUME review[v].excuse # NoExcuse,
                      NEW k \in Lessons, NEW s \in Students, Covers(review[v].excuse, k, s),
                      record'[k][s] # None, record'[k][s].status = "ABSENT"
               PROVE  <<k, s>> \in aux_late' \/ k \in review[v].lessons
      BY <1>2, <1>9 DEF ReviewOK, ClassBookInv, ExcusesOK
  <2>1. review[v].excuse \in DOMAIN excuse
      BY DEF ReviewOK, ClassBookInv, ExcusesOK
  <2>2. CASE k = l
      BY <1>11, <2>1, <2>2
  <2>3. CASE k # l
    <3>1. record[k][s] # None /\ record[k][s].status = "ABSENT"
        BY <1>6, <2>3
    <3>2. <<k, s>> \in aux_late \/ k \in review[v].lessons
        BY <3>1 DEF ReviewOK, ClassBookInv, ExcusesOK
    <3>3. QED
        BY <1>10, <3>2
  <2>4. QED
      BY <2>2, <2>3
<1>13. ASSUME NEW k \in Lessons, NEW s \in Students PROVE Linked(k, s)'
  <2>1. CASE k = l
    <3>1. record[k][s] # None /\ record'[k][s].excuse = record[k][s].excuse
        BY <1>3, <1>4, <1>6, <2>1, RowShape
    <3>2. QED
        BY <1>2, <1>9, <3>1 DEF Linked, ClassBookInv, ExcusesOK
  <2>2. CASE k # l
    <3>1. record'[k][s] = record[k][s]
        BY <1>6, <2>2
    <3>2. QED
        BY <1>2, <1>9, <3>1 DEF Linked, ClassBookInv, ExcusesOK
  <2>3. QED
      BY <2>1, <2>2
<1>14. AbsencesAreExcused'
  <2> SUFFICES ASSUME NEW x \in DOMAIN excuse, NEW k \in Lessons, NEW s \in Students,
                      excuse[x].status = "ACCEPTED", Covers(x, k, s),
                      record'[k][s] # None, record'[k][s].status = "ABSENT"
               PROVE  <<k, s>> \in aux_late'
      BY <1>2, <1>9 DEF AbsencesAreExcused
  <2>1. CASE k = l
      BY <1>11, <2>1
  <2>2. CASE k # l
    <3>1. record[k][s] # None /\ record[k][s].status = "ABSENT"
        BY <1>6, <2>2
    <3>2. QED
        BY <1>10, <3>1 DEF ClassBookInv, ExcusesOK, AbsencesAreExcused
  <2>3. QED
      BY <2>1, <2>2
<1>15. ExcusesOK'
    BY <1>2, <1>12, <1>13, <1>14 DEF ClassBookInv, ExcusesOK
<1>16. QED
    BY <1>7, <1>8, <1>15

(* The save of a teacher that arrives as the newest stores what its        *)
(* teacher meant; nobody else expects what it has changed.                 *)
LEMMA SaveArrivesGrids ==
    ASSUME ClassBookInv, NEW m \in saves, SaveArrives(m), Lossless
    PROVE  GridsOK' /\ SavesOK'
<1> DEFINE t == m.from
           l == m.lesson
           done == [m EXCEPT !.at = "done"]
<1>1. /\ m \in SaveRow /\ t \in Teachers /\ l \in Lessons /\ Has(l) /\ m.rows \in Register /\ m.no \in Nat
      /\ m.at = "sent" /\ m.no <= grid[t].last /\ m.no # aux_newest[t] /\ l \in opened
    BY DEF ClassBookInv, SavesOK, SaveOK, SaveRow, SaveArrives
<1>2. done \in SaveRow /\ done.from = t /\ done.no = m.no /\ done.lesson = l /\ done.at = "done"
    BY <1>1 DEF SaveRow
<1> HIDE DEF done
<1>3. saves' = (saves \ {m}) \cup {done} /\ UNCHANGED <<opened, grid>>
    BY DEF SaveArrives, done
<1>4. /\ aux_meant' = [u \in Teachers |-> IF u = t THEN aux_meant[u] ELSE Kept(u)]
      /\ aux_doubt' = [aux_doubt EXCEPT ![t] =
            IF m.no < aux_newest[t] THEN aux_doubt[t] \cup {"overtaken"} ELSE aux_doubt[t]]
      /\ aux_newest' = [aux_newest EXCEPT ![t] = IF m.no > aux_newest[t] THEN m.no ELSE aux_newest[t]]
    BY DEF SaveArrives
<1>5. aux_newest \in [Teachers -> Nat] /\ aux_newest[t] \in Nat /\ grid[t].last \in Nat /\ aux_newest[t] <= grid[t].last
    BY <1>1 DEF ClassBookInv, GridsOK, GridRow
<1>6. /\ aux_newest'[t] = IF m.no > aux_newest[t] THEN m.no ELSE aux_newest[t]
      /\ aux_doubt'[t] = IF m.no < aux_newest[t] THEN aux_doubt[t] \cup {"overtaken"} ELSE aux_doubt[t]
      /\ \A u \in Teachers : u # t => aux_newest'[u] = aux_newest[u] /\ aux_doubt'[u] = aux_doubt[u]
      /\ aux_newest' \in [Teachers -> Nat] /\ aux_doubt' = [u \in Teachers |-> aux_doubt'[u]]
  <2>1. aux_doubt = [u \in Teachers |-> aux_doubt[u]]
      BY DEF ClassBookInv, GridsOK
  <2>2. QED
      BY <1>1, <1>4, <1>5, <2>1
<1>7. aux_newest'[t] <= grid'[t].last
    BY <1>1, <1>3, <1>5, <1>6
<1>8. SavesOK'
  <2>1. ASSUME NEW n \in saves' PROVE SaveOK(n)'
    <3>1. CASE n = done
      <4>1. Has(l)'
          BY <1>1, HasStays
      <4>2. QED
          BY <1>1, <1>2, <1>3, <3>1, <4>1 DEF SaveOK
    <3>2. CASE n # done
      <4>1. n \in saves /\ n # m
          BY <1>3, <3>2
      <4>2. SaveOK(n) /\ n.lesson \in Lessons /\ n.from \in Teachers /\ n.no \in Nat
          BY <4>1 DEF ClassBookInv, SavesOK, SaveOK, SaveRow
      <4>3. Has(n.lesson)'
          BY <4>2, HasStays DEF SaveOK
      <4>4. n.at = "sent" => n.no # aux_newest'[n.from]
        <5>1. n.from = t => n.no # m.no
            BY <4>1 DEF ClassBookInv, SavesOK
        <5>2. n.at = "sent" => n.no # aux_newest[n.from]
            BY <4>2 DEF SaveOK
        <5>3. QED
            BY <1>6, <4>2, <5>1, <5>2
      <4>5. QED
          BY <1>3, <4>2, <4>3, <4>4 DEF SaveOK
    <3>3. QED
        BY <3>1, <3>2
  <2>2. ASSUME NEW j \in saves', NEW k \in saves', j.from = k.from, j.no = k.no PROVE j = k
    <3>1. ASSUME NEW n \in saves \ {m} PROVE ~(n.from = done.from /\ n.no = done.no)
        BY <1>2, <3>1 DEF ClassBookInv, SavesOK
    <3>2. QED
        BY <1>3, <2>2, <3>1 DEF ClassBookInv, SavesOK
  <2>3. QED
      BY <2>1, <2>2 DEF SavesOK
<1>9. aux_meant' \in [Teachers -> [Students -> Status \cup {None}]]
  <2>1. ASSUME NEW u \in Teachers PROVE Kept(u) \in [Students -> Status \cup {None}]
    <3>1. Kept(u) = [s \in Students |-> Kept(u)[s]]
        BY DEF Kept
    <3>2. QED
        BY <3>1, KeptIs
  <2>2. \A u \in Teachers : aux_meant[u] \in [Students -> Status \cup {None}]
      BY DEF ClassBookInv, GridsOK
  <2>3. QED
      BY <1>4, <2>1, <2>2
<1>10. ASSUME NEW u \in Teachers, u # t
       PROVE  GridOK(grid[u], opened)' /\ aux_newest'[u] <= grid'[u].last /\ MeantOK(u)'
  <2>1. aux_meant'[u] = Kept(u)
      BY <1>4, <1>10
  <2>2. \A s \in Students : aux_meant'[u][s] # None =>
             /\ aux_meant'[u][s] = aux_meant[u][s]
             /\ record'[grid[u].lesson][s] = record[grid[u].lesson][s]
      BY <2>1, KeptIs
  <2>3. \A n \in saves : n.from = u => n \in saves'
      BY <1>3, <1>10
  <2>4. grid'[u] = grid[u] /\ aux_doubt'[u] = aux_doubt[u] /\ aux_newest'[u] = aux_newest[u] /\ UNCHANGED opened
      BY <1>3, <1>6, <1>10
  <2>5. QED
      BY <2>2, <2>3, <2>4, GridKept
<1>11. GridOK(grid[t], opened)' /\ MeantOK(t)'
  <2>1. grid[t] \in GridRow /\ GridOK(grid[t], opened) /\ MeantOK(t)
      BY <1>1, GridIs
  <2>2. grid[t].lesson # None /\ Has(grid[t].lesson) => Has(grid[t].lesson)'
    <3>1. grid[t].lesson # None => grid[t].lesson \in Lessons
        BY <2>1 DEF GridRow
    <3>2. QED
        BY <1>3, <3>1, HasStays
  <2>3. GridOK(grid[t], opened)'
      BY <1>3, <2>1, <2>2 DEF GridOK
  <2>4. ASSUME NEW s \in Students, aux_meant'[t][s] # None PROVE Meant(t, s)'
    <3>1. aux_meant'[t] = aux_meant[t] /\ Meant(t, s)
        BY <1>1, <1>4, <2>1, <2>4 DEF MeantOK
    <3>2. ASSUME aux_doubt'[t] = {}, grid[t].timer = None
          PROVE  OnItsWay(t, s)' \/ IsStored(t, s)'
      <4>1. aux_doubt[t] = {} /\ ~(m.no < aux_newest[t])
          BY <1>6, <3>2
      <4>2. m.no > aux_newest[t] /\ aux_newest'[t] = m.no
          BY <1>1, <1>5, <1>6, <4>1
      <4>3. ~ IsStored(t, s)
          BY <1>1, <1>5, <4>2 DEF IsStored
      <4>4. OnItsWay(t, s)
          BY <3>1, <3>2, <4>1, <4>3 DEF Meant
      <4>5. PICK n \in saves : /\ n.from = t /\ n.no = grid[t].last /\ n.at = "sent"
                               /\ n.lesson = grid[t].lesson /\ n.rows[s] = aux_meant[t][s]
          BY <4>4 DEF OnItsWay
      <4>6. CASE n = m
        <5>1. record'[l][s] = Written(l, m.rows)[s]
            BY <1>1 DEF SaveArrives, ClassBookInv, RegistersOK
        <5>2. Written(l, m.rows)[s].status = m.rows[s]
            BY DEF Written
        <5>3. IsStored(t, s)'
            BY <1>3, <3>1, <4>2, <4>5, <4>6, <5>1, <5>2 DEF IsStored
        <5>4. QED
            BY <5>3
      <4>7. CASE n # m
        <5>1. n \in saves'
            BY <1>3, <4>7
        <5>2. OnItsWay(t, s)'
            BY <1>3, <3>1, <4>5, <5>1 DEF OnItsWay
        <5>3. QED
            BY <5>2
      <4>8. QED
          BY <4>6, <4>7
    <3>3. aux_doubt'[t] = {} /\ grid[t].timer # None => grid[t].timer[s] = aux_meant'[t][s]
        BY <1>6, <3>1 DEF Meant
    <3>4. QED
        BY <1>3, <2>2, <3>1, <3>2, <3>3 DEF Meant
  <2>5. QED
      BY <2>3, <2>4 DEF MeantOK
<1>12. ASSUME NEW u \in Teachers
       PROVE  GridOK(grid[u], opened)' /\ aux_newest'[u] <= grid'[u].last /\ MeantOK(u)'
    BY <1>7, <1>10, <1>11
<1>13. GridsOK'
    BY <1>3, <1>6, <1>9, <1>12 DEF ClassBookInv, GridsOK
<1>14. QED
    BY <1>8, <1>13

(* bulkUpdateAttendance and setAllPresent, as they arrive.                 *)
LEMMA SaveArrivesKeeps ==
    ASSUME ClassBookInv, NEW m \in saves, SaveArrives(m)
    PROVE  ClassBookInv'
<1>1. UNCHANGED taps
    BY DEF SaveArrives
<1>2. QED
    BY <1>1, SaveArrivesExcuses, SaveArrivesGrids DEF ClassBookInv
-----------------------------------------------------------------------------
(* Excuses are handed in and reviewed.                                     *)

(* The grids, the saves and the registers do not look at the excuses.      *)
LEMMA GridsKept ==
    ASSUME ClassBookInv, UNCHANGED <<record, opened, grid, saves, taps, aux_meant, aux_doubt, aux_newest>>
    PROVE  RegistersOK' /\ GridsOK' /\ SavesOK' /\ taps' \in 0 .. MaxTaps
<1>1. \A l : Has(l)' = Has(l)
    BY DEF Has
<1>2. RegistersOK'
    BY <1>1 DEF ClassBookInv, RegistersOK
<1>3. \A t \in Teachers : GridOK(grid[t], opened)'
    BY <1>1 DEF ClassBookInv, GridsOK, GridOK
<1>4. \A t \in Teachers : MeantOK(t)'
    BY <1>1 DEF ClassBookInv, GridsOK, MeantOK, Meant, OnItsWay, IsStored
<1>5. SavesOK'
    BY <1>1 DEF ClassBookInv, SavesOK, SaveOK
<1>6. QED
    BY <1>2, <1>3, <1>4, <1>5 DEF ClassBookInv, GridsOK

(* A new excuse is pending: it covers nothing yet.                         *)
LEMMA CreateExcuseKeeps ==
    ASSUME ClassBookInv, NEW s \in Students, NEW from \in Days, NEW to \in Days, CreateExcuse(s, from, to)
    PROVE  ClassBookInv'
<1> DEFINE row == [student |-> s, from |-> from, to |-> to, status |-> "PENDING"]
<1>1. /\ Len(excuse) < MaxExcuses /\ excuse' = Append(excuse, row)
      /\ UNCHANGED <<record, opened, review, grid, saves, taps, classBookAux>>
    BY DEF CreateExcuse
<1>2. row \in Excuse /\ row.status = "PENDING"
    BY DEF Excuse
<1> HIDE DEF row
<1>3. excuse \in Seq(Excuse) /\ Len(excuse) \in Nat
    BY DEF ClassBookInv, ExcusesOK
<1>4. /\ excuse' \in Seq(Excuse) /\ Len(excuse') = Len(excuse) + 1
      /\ DOMAIN excuse' = DOMAIN excuse \cup {Len(excuse) + 1}
      /\ \A x \in DOMAIN excuse : excuse'[x] = excuse[x]
      /\ excuse'[Len(excuse) + 1] = row
    BY <1>1, <1>2, <1>3
<1>5. \A x \in DOMAIN excuse : \A l, u : Covers(x, l, u)' = Covers(x, l, u)
    BY <1>4 DEF Covers
<1>6. UNCHANGED <<review, record, aux_late, aux_twice>>
    BY <1>1 DEF classBookAux
<1>7. \A v \in Reviewers : ReviewOK(v)'
    BY <1>4, <1>5, <1>6 DEF ClassBookInv, ExcusesOK, ReviewOK
<1>8. \A l \in Lessons, u \in Students : Linked(l, u)'
    BY <1>4, <1>5, <1>6 DEF ClassBookInv, ExcusesOK, Linked
<1>9. AbsencesAreExcused'
  <2>1. excuse'[Len(excuse) + 1].status # "ACCEPTED"
      BY <1>2, <1>4
  <2>2. QED
      BY <1>4, <1>5, <1>6, <2>1 DEF ClassBookInv, ExcusesOK, AbsencesAreExcused
<1>10. Len(excuse') <= MaxExcuses
    BY <1>1, <1>3, <1>4, ClassBookAssumption
<1>11. ExcusesOK'
    BY <1>4, <1>6, <1>7, <1>8, <1>9, <1>10 DEF ClassBookInv, ExcusesOK
<1>12. QED
    BY <1>1, <1>11, GridsKept DEF ClassBookInv, classBookAux

(* A reviewer reads all the lessons of the days that have a register.      *)
LEMMA StartReviewKeeps ==
    ASSUME ClassBookInv, NEW v \in Reviewers, NEW x \in DOMAIN excuse,
           NEW d \in {"ACCEPTED", "REJECTED"}, StartReview(v, x, d)
    PROVE  ClassBookInv'
<1> DEFINE read == {l \in opened : DateOf[l] \in excuse[x].from .. excuse[x].to}
           row == [excuse |-> x, verdict |-> d, lessons |-> read]
<1>1. review' = [review EXCEPT ![v] = row]
      /\ UNCHANGED <<record, opened, excuse, grid, saves, taps, classBookAux>>
    BY DEF StartReview
<1>2. x \in Excuses /\ opened \subseteq Lessons
    BY ExcuseNumbers DEF ClassBookInv, RegistersOK
<1>3. read \in SUBSET Lessons
    BY <1>2
<1> HIDE DEF read
<1>4. row \in ReviewRow /\ row.excuse = x /\ row.verdict = d /\ row.lessons = read
    BY <1>2, <1>3 DEF ReviewRow
<1> HIDE DEF row
<1>5. review' \in [Reviewers -> ReviewRow] /\ review'[v] = row
      /\ \A w \in Reviewers : w # v => review'[w] = review[w]
    BY <1>1, <1>4 DEF ClassBookInv, ExcusesOK
<1>6. \A y, l, s : Covers(y, l, s)' = Covers(y, l, s)
    BY <1>1 DEF Covers
<1>7. UNCHANGED <<record, excuse, aux_late, aux_twice>>
    BY <1>1 DEF classBookAux
<1>8. ASSUME NEW w \in Reviewers PROVE ReviewOK(w)'
  <2>1. CASE w = v
    <3>1. \A l \in read : DateOf[l] \in excuse[x].from .. excuse[x].to
        BY DEF read
    <3>2. ASSUME NEW l \in Lessons, NEW s \in Students, Covers(x, l, s), record[l][s] # None PROVE l \in read
      <4>1. l \in opened
          BY <3>2 DEF ClassBookInv, RegistersOK, Has
      <4>2. QED
          BY <3>2, <4>1 DEF read, Covers
    <3>3. QED
        BY <1>4, <1>5, <1>6, <1>7, <2>1, <3>1, <3>2 DEF ReviewOK
  <2>2. CASE w # v
      BY <1>5, <1>6, <1>7, <2>2 DEF ClassBookInv, ExcusesOK, ReviewOK
  <2>3. QED
      BY <2>1, <2>2
<1>9. (\A l \in Lessons, s \in Students : Linked(l, s)') /\ AbsencesAreExcused'
    BY <1>6, <1>7 DEF ClassBookInv, ExcusesOK, Linked, AbsencesAreExcused
<1>10. ExcusesOK'
    BY <1>5, <1>7, <1>8, <1>9 DEF ClassBookInv, ExcusesOK
<1>11. QED
    BY <1>1, <1>10, GridsKept DEF ClassBookInv, classBookAux

(* What an accepted excuse excuses: the absences of its student in the     *)
(* lessons that were read.                                                 *)
LEMMA ExcusedIs ==
    ASSUME ClassBookInv, NEW x \in DOMAIN excuse, NEW lessons
    PROVE  LET after == Excused(x, lessons)
           IN  /\ after \in [Lessons -> [Students -> Row]]
               /\ \A l \in Lessons, s \in Students :
                     /\ after[l][s] = None <=> record[l][s] = None
                     /\ IF /\ l \in lessons /\ s = excuse[x].student
                           /\ record[l][s] # None /\ record[l][s].status = "ABSENT"
                        THEN after[l][s].status = "EXCUSED" /\ after[l][s].excuse = x
                        ELSE after[l][s] = record[l][s]
<1> DEFINE after == Excused(x, lessons)
           hit(l, s) == l \in lessons /\ s = excuse[x].student /\ record[l][s] # None /\ record[l][s].status = "ABSENT"
           excused == [status |-> "EXCUSED", excuse |-> x]
<1>1. excused \in Record /\ excused # None
  <2>1. x \in Excuses
      BY ExcuseNumbers DEF ClassBookInv
  <2>2. excused \in Record
      BY <2>1 DEF Record, Status
  <2>3. QED
      BY <2>2, RowShape
<1>2. after = [l \in Lessons |-> [s \in Students |-> IF hit(l, s) THEN excused ELSE record[l][s]]]
    BY DEF Excused
<1>3. record \in [Lessons -> [Students -> Row]]
    BY DEF ClassBookInv, RegistersOK
<1>4. ASSUME NEW l \in Lessons, NEW s \in Students
      PROVE  /\ after[l][s] = IF hit(l, s) THEN excused ELSE record[l][s]
             /\ after[l][s] \in Row /\ (after[l][s] = None <=> record[l][s] = None)
  <2>1. after[l][s] = IF hit(l, s) THEN excused ELSE record[l][s]
      BY <1>2
  <2>2. record[l][s] \in Row /\ excused \in Row /\ (hit(l, s) => record[l][s] # None)
      BY <1>1, <1>3 DEF Row
  <2> HIDE DEF after, hit, excused
  <2>3. QED
      BY <1>1, <2>1, <2>2 DEF excused
<1>5. after \in [Lessons -> [Students -> Row]]
  <2>1. after = [l \in Lessons |-> [s \in Students |-> after[l][s]]]
      BY DEF Excused
  <2> HIDE DEF after, hit, excused
  <2>2. QED
      BY <1>4, <2>1
<1>6. \A l \in Lessons, s \in Students :
          IF hit(l, s) THEN after[l][s].status = "EXCUSED" /\ after[l][s].excuse = x
          ELSE after[l][s] = record[l][s]
  <2> HIDE DEF after, hit
  <2>1. QED
      BY <1>4
<1>7. QED
    BY <1>4, <1>5, <1>6
(* The review is written.  A rejection after an acceptance leaves links    *)
(* behind only where two reviewers decided; an acceptance excuses every    *)
(* absence that was recorded before the lessons were read.                 *)
LEMMA WriteReviewKeeps ==
    ASSUME ClassBookInv, NEW v \in Reviewers, WriteReview(v)
    PROVE  ClassBookInv'
<1> DEFINE x == review[v].excuse
           lessons == review[v].lessons
           verdict == review[v].verdict
           hit(l, s) == verdict = "ACCEPTED" /\ l \in lessons /\ s = excuse[x].student
                        /\ record[l][s] # None /\ record[l][s].status = "ABSENT"
<1>1. /\ x # NoExcuse /\ x \in DOMAIN excuse /\ verdict \in {"ACCEPTED", "REJECTED"} /\ ReviewOK(v)
      /\ \A l \in lessons : DateOf[l] \in excuse[x].from .. excuse[x].to
    BY DEF WriteReview, ClassBookInv, ExcusesOK, ReviewOK
<1>2. /\ excuse' = [excuse EXCEPT ![x].status = verdict]
      /\ record' = IF verdict = "ACCEPTED" THEN Excused(x, lessons) ELSE record
      /\ review' = [review EXCEPT ![v] = NotReviewing]
      /\ aux_twice' = IF excuse[x].status # "PENDING" THEN aux_twice \cup {x} ELSE aux_twice
      /\ aux_meant' = [t \in Teachers |-> Kept(t)]
      /\ UNCHANGED <<opened, grid, saves, taps, aux_doubt, aux_newest, aux_late>>
    BY DEF WriteReview
<1>3. /\ record' \in [Lessons -> [Students -> Row]]
      /\ \A l \in Lessons, s \in Students :
            /\ record'[l][s] = None <=> record[l][s] = None
            /\ hit(l, s) => record'[l][s].status = "EXCUSED" /\ record'[l][s].excuse = x
            /\ ~hit(l, s) => record'[l][s] = record[l][s]
  <2>1. CASE verdict = "ACCEPTED"
    <3>1. record' = Excused(x, lessons)
        BY <1>2, <2>1
    <3> HIDE DEF x, lessons
    <3>2. QED
        BY <1>1, <2>1, <3>1, ExcusedIs
  <2>2. CASE verdict # "ACCEPTED"
      BY <1>2, <2>2 DEF ClassBookInv, RegistersOK
  <2>3. QED
      BY <2>1, <2>2
<1>4. /\ excuse \in Seq(Excuse) /\ excuse[x] \in Excuse
      /\ excuse' \in Seq(Excuse) /\ Len(excuse') = Len(excuse) /\ DOMAIN excuse' = DOMAIN excuse
      /\ excuse'[x].status = verdict
      /\ \A y \in DOMAIN excuse : y # x => excuse'[y] = excuse[y]
      /\ \A y \in DOMAIN excuse : /\ excuse'[y].student = excuse[y].student
                                  /\ excuse'[y].from = excuse[y].from /\ excuse'[y].to = excuse[y].to
  <2>1. excuse \in Seq(Excuse) /\ excuse[x] \in Excuse
      BY <1>1 DEF ClassBookInv, ExcusesOK
  <2> HIDE DEF x, verdict
  <2>2. [excuse[x] EXCEPT !.status = verdict] \in Excuse
      BY <1>1, <2>1 DEF Excuse
  <2>3. excuse' = [excuse EXCEPT ![x] = [excuse[x] EXCEPT !.status = verdict]]
      BY <1>1, <1>2, <2>1
  <2>4. QED
      BY <1>1, <2>1, <2>2, <2>3 DEF Excuse
<1>5. \A y \in DOMAIN excuse : \A l, s : Covers(y, l, s)' = Covers(y, l, s)
    BY <1>4 DEF Covers
<1>6. /\ NotReviewing \in ReviewRow /\ NotReviewing.excuse = NoExcuse
      /\ review' \in [Reviewers -> ReviewRow] /\ review'[v] = NotReviewing
      /\ \A w \in Reviewers : w # v => review'[w] = review[w]
  <2>1. NotReviewing \in ReviewRow /\ NotReviewing.excuse = NoExcuse
      BY DEF NotReviewing, ReviewRow
  <2>2. QED
      BY <1>2, <2>1 DEF ClassBookInv, ExcusesOK
<1>7. Lossless
    BY <1>3 DEF Lossless
<1>8. aux_twice \subseteq aux_twice' /\ (excuse[x].status # "PENDING" => x \in aux_twice')
    BY <1>2
<1>9. ASSUME NEW l \in Lessons, NEW s \in Students, record'[l][s] # None, record'[l][s].status = "ABSENT"
      PROVE  record[l][s] # None /\ record[l][s].status = "ABSENT" /\ ~hit(l, s)
  <2>1. "EXCUSED" # "ABSENT"
      OBVIOUS
  <2> HIDE DEF hit
  <2>2. QED
      BY <1>3, <1>9, <2>1
<1>10. RegistersOK'
  <2>1. \A l \in Lessons : Has(l)' => Has(l)
      BY <1>3 DEF Has
  <2>2. QED
      BY <1>2, <1>3, <2>1 DEF ClassBookInv, RegistersOK
<1>11. ASSUME NEW w \in Reviewers PROVE ReviewOK(w)'
  <2>1. CASE w = v
      BY <1>6, <2>1 DEF ReviewOK
  <2>2. CASE w # v
    <3>1. review'[w] = review[w] /\ ReviewOK(w) /\ aux_late' = aux_late
        BY <1>2, <1>6, <2>2 DEF ClassBookInv, ExcusesOK
    <3> HIDE DEF hit
    <3>2. QED
        BY <1>4, <1>5, <1>9, <3>1 DEF ReviewOK
  <2>3. QED
      BY <2>1, <2>2
<1>12. ASSUME NEW l \in Lessons, NEW s \in Students PROVE Linked(l, s)'
  <2>1. CASE hit(l, s)
    <3>1. record'[l][s].excuse = x /\ excuse'[x].status = "ACCEPTED" /\ Covers(x, l, s)
        BY <1>1, <1>3, <1>4, <2>1 DEF Covers
    <3>2. QED
        BY <1>1, <1>4, <1>5, <3>1 DEF Linked
  <2>2. CASE ~hit(l, s)
    <3>1. record'[l][s] = record[l][s] /\ Linked(l, s)
        BY <1>3, <2>2 DEF ClassBookInv, ExcusesOK
    <3> HIDE DEF hit, x, verdict
    <3>2. \A y \in DOMAIN excuse : excuse[y].status = "ACCEPTED" \/ y \in aux_twice =>
                                       excuse'[y].status = "ACCEPTED" \/ y \in aux_twice'
      <4>1. "ACCEPTED" # "PENDING"
          OBVIOUS
      <4>2. QED
          BY <1>4, <1>8, <4>1
    <3>3. QED
        BY <1>4, <1>5, <3>1, <3>2 DEF Linked
  <2>3. QED
      BY <2>1, <2>2
<1>13. AbsencesAreExcused'
  <2> SUFFICES ASSUME NEW y \in DOMAIN excuse, NEW l \in Lessons, NEW s \in Students,
                      excuse'[y].status = "ACCEPTED", Covers(y, l, s),
                      record'[l][s] # None, record'[l][s].status = "ABSENT"
               PROVE  <<l, s>> \in aux_late
      BY <1>2, <1>4, <1>5 DEF AbsencesAreExcused
  <2>1. record[l][s] # None /\ record[l][s].status = "ABSENT" /\ ~hit(l, s)
      BY <1>9
  <2>2. CASE y = x
    <3>1. s = excuse[x].student /\ verdict = "ACCEPTED"
        BY <1>4, <2>2 DEF Covers
    <3>2. l \notin lessons
        BY <2>1, <3>1
    <3>3. QED
        BY <1>1, <2>1, <2>2, <3>2 DEF ReviewOK
  <2>3. CASE y # x
      BY <1>4, <2>1, <2>3 DEF ClassBookInv, ExcusesOK, AbsencesAreExcused
  <2>4. QED
      BY <2>2, <2>3
<1>14. ExcusesOK'
    BY <1>4, <1>6, <1>11, <1>12, <1>13 DEF ClassBookInv, ExcusesOK
<1> HIDE DEF x, lessons, verdict, hit
<1>15. SavesOK'
    BY <1>2, <1>7, SavesKept
<1>16. GridsOK'
  <2>1. ASSUME NEW t \in Teachers
        PROVE  GridOK(grid[t], opened)' /\ aux_newest'[t] <= grid'[t].last /\ MeantOK(t)'
    <3>1. aux_meant'[t] = Kept(t)
        BY <1>2
    <3>2. \A s \in Students : aux_meant'[t][s] # None =>
               /\ aux_meant'[t][s] = aux_meant[t][s]
               /\ record'[grid[t].lesson][s] = record[grid[t].lesson][s]
        BY <3>1, KeptIs
    <3>3. QED
        BY <1>2, <1>7, <3>2, GridKept
  <2>2. aux_meant' \in [Teachers -> [Students -> Status \cup {None}]]
    <3>1. ASSUME NEW t \in Teachers PROVE Kept(t) \in [Students -> Status \cup {None}]
      <4>1. Kept(t) = [s \in Students |-> Kept(t)[s]]
          BY DEF Kept
      <4>2. QED
          BY <4>1, KeptIs
    <3>2. QED
        BY <1>2, <3>1
  <2>3. QED
      BY <1>2, <2>1, <2>2 DEF ClassBookInv, GridsOK
<1>17. QED
    BY <1>2, <1>10, <1>14, <1>15, <1>16 DEF ClassBookInv
-----------------------------------------------------------------------------
(* No register, no excuse, and grids that show nothing.                    *)
LEMMA ClassBookInitInv == ClassBookInit => ClassBookInv
<1> SUFFICES ASSUME ClassBookInit PROVE ClassBookInv
    OBVIOUS
<1>1. \A l \in Lessons : ~Has(l)
    BY DEF ClassBookInit, Has
<1>2. RegistersOK
    BY <1>1 DEF ClassBookInit, RegistersOK, Row
<1>3. ExcusesOK
  <2>1. NotReviewing \in ReviewRow /\ NotReviewing.excuse = NoExcuse
      BY DEF NotReviewing, ReviewRow
  <2>2. excuse \in Seq(Excuse) /\ Len(excuse) = 0 /\ DOMAIN excuse = {}
      BY DEF ClassBookInit
  <2>3. QED
      BY <2>1, <2>2, ClassBookAssumption
      DEF ClassBookInit, ExcusesOK, ReviewOK, Linked, AbsencesAreExcused
<1>4. GridsOK
  <2>1. Closed \in GridRow /\ Closed.lesson = None /\ Closed.query = "idle" /\ Blank(Closed) /\ Closed.last = 0
      BY DEF Closed, GridRow, Blank
  <2>2. NothingMeant \in [Students -> Status \cup {None}] /\ \A s \in Students : NothingMeant[s] = None
      BY DEF NothingMeant
  <2>3. \A t \in Teachers : GridOK(grid[t], opened) /\ MeantOK(t)
      BY <2>1, <2>2 DEF ClassBookInit, GridOK, MeantOK
  <2>4. QED
      BY <2>1, <2>2, <2>3 DEF ClassBookInit, GridsOK
<1>5. SavesOK /\ taps \in 0 .. MaxTaps
    BY ClassBookAssumption DEF ClassBookInit, SavesOK
<1>6. QED
    BY <1>2, <1>3, <1>4, <1>5 DEF ClassBookInv

(* Every step of the class book keeps the invariant.                       *)
LEMMA ClassBookStep == ClassBookInv /\ [ClassBookNext]_classBookVars => ClassBookInv'
<1> SUFFICES ASSUME ClassBookInv, [ClassBookNext]_classBookVars PROVE ClassBookInv'
    OBVIOUS
<1>1. CASE Excusing
    BY <1>1, CreateExcuseKeeps, StartReviewKeeps, WriteReviewKeeps DEF Excusing
<1>2. CASE Recording
    BY <1>2, MountKeeps, RefetchKeeps, ReadRegisterKeeps, CreateRegisterKeeps, ReceiveRegisterKeeps,
       TimerFiresKeeps, SetAllPresentKeeps, TapKeeps, SaveArrivesKeeps, SaveAnsweredKeeps, SaveLostKeeps
    DEF Recording
<1>3. CASE UNCHANGED classBookVars
  <2>1. UNCHANGED <<record, opened, grid, saves, taps, aux_meant, aux_doubt, aux_newest>>
        /\ UNCHANGED <<excuse, review, aux_late, aux_twice>>
      BY <1>3 DEF classBookVars, registers, classBookAux
  <2>2. ExcusesOK'
      BY <2>1, ExcusesKept DEF ClassBookInv
  <2>3. QED
      BY <2>1, <2>2, GridsKept DEF ClassBookInv
<1>4. QED
    BY <1>1, <1>2, <1>3 DEF ClassBookNext

(* Every state of the class book satisfies the invariant.                  *)
LEMMA ClassBookInvHolds == ClassBookSpec => []ClassBookInv
BY ClassBookInitInv, ClassBookStep, PTL DEF ClassBookSpec

(* The state of the class book has its type: the registers, the excuses,   *)
(* the grids with their timers and queries, and the saves under way.       *)
THEOREM ClassBookIsTyped == ClassBookSpec => []ClassBookTypeOK
<1>1. ClassBookInv => ClassBookTypeOK
  <2> SUFFICES ASSUME ClassBookInv PROVE ClassBookTypeOK
      OBVIOUS
  <2>1. \A v \in Reviewers : review[v].excuse \in {NoExcuse} \cup DOMAIN excuse
      BY DEF ClassBookInv, ExcusesOK, ReviewOK
  <2>2. \A t \in Teachers : grid[t] \in GridRow
      BY DEF ClassBookInv, GridsOK
  <2>3. \A m \in saves : m.rows \in Register /\ m.lesson \in opened /\ m.from \in Teachers
      BY DEF ClassBookInv, SavesOK, SaveOK, SaveRow
  <2>4. ASSUME NEW t \in Teachers
        PROVE  /\ grid[t].lesson \in Lessons \cup {None}
               /\ {grid[t].cache, grid[t].local, grid[t].timer, grid[t].answer} \subseteq Register \cup {None}
               /\ grid[t].query \in {"idle", "sent", "creating", "answered"}
               /\ grid[t].dirty \in BOOLEAN
      BY <2>2 DEF GridRow
  <2>5. QED
      BY <2>1, <2>3, <2>4 DEF ClassBookInv, RegistersOK, ExcusesOK, ClassBookTypeOK
<1>2. QED
    BY <1>1, ClassBookInvHolds, PTL

(* For any lessons, students and teachers: a lesson that has one           *)
(* attendance record has one of every student of the class                 *)
(* (attendance.service.ts creates them together, and no save creates or    *)
(* loses one).                                                             *)
THEOREM RegistersAreWhole == ClassBookSpec => []RegisterWhole
<1>1. ClassBookInv => RegisterWhole
  <2> SUFFICES ASSUME ClassBookInv PROVE RegisterWhole
      OBVIOUS
  <2>1. ASSUME NEW l \in Lessons, NEW t \in Teachers, grid[t].lesson = l, grid[t].local # None PROVE Has(l)
      BY <2>1, GridIs
  <2>2. QED
      BY <2>1 DEF ClassBookInv, RegistersOK, RegisterWhole
<1>2. QED
    BY <1>1, ClassBookInvHolds, PTL

(* For any number of excuses and reviewers: an absence that an accepted    *)
(* excuse covers is excused, unless it was recorded while the excuse was   *)
(* reviewed or later; and a record is linked only to an excuse that covers *)
(* it and was accepted, unless two reviewers decided on it                 *)
(* (excuse.service.ts).                                                    *)
THEOREM ExcusesAreApplied == ClassBookSpec => []ExcusesApply
<1>1. ClassBookInv => ExcusesApply
    BY DEF ClassBookInv, ExcusesOK, Linked, ExcusesApply, LinkedToAccepted
<1>2. QED
    BY <1>1, ClassBookInvHolds, PTL

(* For any teachers and taps: once a grid has no timer and no save on its  *)
(* way, what its teacher set is stored, unless somebody else changed it    *)
(* since, a request was lost, one save overtook another, or the teacher    *)
(* went on from a list that showed an older state (AttendanceGrid.tsx,     *)
(* useAttendance).                                                         *)
THEOREM GridsAreStored == ClassBookSpec => []GridIsStored
<1>1. ClassBookInv => GridIsStored
  <2> SUFFICES ASSUME ClassBookInv, NEW t \in Teachers, AtRest(t), aux_doubt[t] = {},
                      NEW s \in Students, aux_meant[t][s] # None
               PROVE  record[grid[t].lesson][s].status = aux_meant[t][s]
      BY DEF GridIsStored, MeantIsStored
  <2>1. Meant(t, s)
      BY DEF ClassBookInv, GridsOK, MeantOK
  <2>2. ~OnItsWay(t, s)
      BY DEF AtRest, OnItsWay
  <2>3. QED
      BY <2>1, <2>2 DEF AtRest, Meant, IsStored
<1>2. QED
    BY <1>1, ClassBookInvHolds, PTL

-----------------------------------------------------------------------------
(* The forms of the web client: what is typed stays until it is given up   *)
(* or stored.                                                              *)
(* A form is a dialog, a tab or a new row; and what it loses, and what it  *)
(* sends where it does not belong, is known of its name.                   *)
ListedRight(f) ==
    /\ f.name \in Forgetful \/ KeepsDraft(f)
    /\ f.name \in Misdirected \/ SendsItsOwn(f)
    /\ f.lives \in {"dialog", "tab", "entry"}

(* Buttons and confirmations that lose nothing and send it only once.      *)
LEMMA SafeCommands ==
    ASSUME NEW n
    PROVE  /\ ListedRight(Command(n)) /\ ListedRight(Lone(Command(n)))
           /\ ListedRight(Lone(Held(TwoParts(Command(n)))))
           /\ ListedRight(EmptiedAnyway(Command(n))) /\ ListedRight(EmptiedAtOnce(Command(n)))
           /\ ListedRight(Held(EmptiedAnyway(Command(n))))
           /\ ListedRight(ClosedByConflict(Command(n)))
BY DEF ListedRight, KeepsDraft, SendsItsOwn, Command, Form, Lone, Held, TwoParts,
   EmptiedAnyway, EmptiedAtOnce, ClosedByConflict

(* Dialogs that do.                                                        *)
LEMMA SafeDialogs ==
    ASSUME NEW n
    PROVE  /\ ListedRight(EditDialog(n)) /\ ListedRight(CreateDialog(n))
           /\ ListedRight(Held(EditDialog(n))) /\ ListedRight(Locked(Held(EditDialog(n))))
           /\ ListedRight(Held(CreateDialog(n)))
           /\ ListedRight(Held(EachOne(CreateDialog(n))))
           /\ ListedRight(EachOne(CreateDialog(n))) /\ ListedRight(SeededOnce(CreateDialog(n)))
           /\ ListedRight(NeverEmptied(SeededOnce(CreateDialog(n))))
           /\ ListedRight(NeverEmptied(Lone(SeededOnce(EditDialog(n)))))
           /\ ListedRight(Lone(SeededOnce(CreateDialog(n))))
BY DEF ListedRight, KeepsDraft, SendsItsOwn, Form, EditDialog, CreateDialog, Lone, Held,
   Locked, SeededOnce, EachOne, NeverEmptied

(* Those that may send what is on its way, or what was typed for another.  *)
LEMMA MisdirectedForms ==
    ASSUME NEW n \in Misdirected
    PROVE  /\ ListedRight(RowAction(n)) /\ ListedRight(Unguarded(Command(n)))
           /\ ListedRight(Lone(Unguarded(Command(n))))
           /\ ListedRight(Anew(Unguarded(Command(n))))
           /\ ListedRight(Awaited(Unguarded(Command(n))))
           /\ ListedRight(NamingAffected(Awaited(Command(n))))
           /\ ListedRight(Awaited(EachOne(CreateDialog(n))))
           /\ ListedRight(Awaited(TwoParts(CreateDialog(n))))
           /\ ListedRight(Awaited(CreateDialog(n))) /\ ListedRight(Awaited(EditDialog(n)))
           /\ ListedRight(Anew(EditDialog(n)))
           /\ ListedRight(Asking(Anew(DirtyOnly(Comparing(Tab(n))))))
           /\ ListedRight(HalfGuarded(TwoParts(SeededOnce(CreateDialog(n)))))
BY DEF ListedRight, KeepsDraft, SendsItsOwn, RowAction, Unguarded, Command, Form,
   EmptiedAtOnce, EachOne, SeededOnce, CreateDialog, EditDialog, Lone, HalfGuarded, TwoParts,
   Anew, Awaited, NamingAffected, Asking, DirtyOnly, Comparing, Tab

(* Those that may lose what was typed.                                     *)
LEMMA ForgetfulForms ==
    ASSUME NEW n \in Forgetful
    PROVE  /\ ListedRight(Tab(n)) /\ ListedRight(Asking(Clearing(Held(Comparing(Tab(n))))))
           /\ ListedRight(WithLists(EditDialog(n)))
           /\ ListedRight(ClosedByConflict(CreateDialog(n)))
           /\ ListedRight(Following(TwoParts(EditDialog(n))))
           /\ ListedRight(EachOne(EmptiedAtOnce(CreateDialog(n))))
BY DEF ListedRight, KeepsDraft, SendsItsOwn, Tab, Lone, Form, Asking, Clearing, Held,
   Comparing, WithLists, EditDialog, ClosedByConflict, CreateDialog, Following, TwoParts,
   EachOne, EmptiedAtOnce

(* Those that may do either.                                               *)
LEMMA WorstForms ==
    ASSUME NEW n \in Forgetful \cap Misdirected
    PROVE  /\ ListedRight(Anew(EntryTab(n))) /\ ListedRight(Held(Anew(Entry(n))))
           /\ ListedRight(Asking(Anew(DirtyOnly(Comparing(Following(Tab(n)))))))
           /\ ListedRight(Anew(DirtyOnly(Comparing(Following(Tab(n))))))
           /\ ListedRight(Awaited(Following(EditDialog(n))))
           /\ ListedRight(HalfGuarded(TwoParts(EntryTab(n))))
           /\ ListedRight(EachOne(SeededOnce(EmptiedAtOnce(EntryTab(n)))))
BY DEF ListedRight, KeepsDraft, SendsItsOwn, HalfGuarded, TwoParts, EntryTab, Lone, Form,
   EachOne, SeededOnce, EmptiedAtOnce, Anew, Held, Entry, Asking, DirtyOnly, Comparing,
   Following, Tab, Awaited, EditDialog

(* Those whose prompt drops what it was asked to save.                     *)
LEMMA DroppingForms ==
    ASSUME NEW n \in Forgetful \cap Misdirected
    PROVE  /\ ListedRight(Dropping(Anew(DirtyOnly(
                 Undoing(ResetByConflict(Comparing(Following(Tab(n)))))))))
           /\ ListedRight(Dropping(Anew(DirtyOnly(Held(Entry(n))))))
           /\ ListedRight(Dropping(Anew(DirtyOnly(WhenClean(Tab(n))))))
           /\ ListedRight(Dropping(Anew(DirtyOnly(WhenClean(Locked(Tab(n)))))))
           /\ ListedRight(Dropping(Undoing(Anew(DirtyOnly(Comparing(Tab(n)))))))
BY DEF ListedRight, KeepsDraft, SendsItsOwn, Dropping, Anew, DirtyOnly, Undoing,
   ResetByConflict, Comparing, Following, Tab, Held, Entry, WhenClean, Locked, Lone, Form

(* The forms of classes.                                                   *)
LEMMA ClassFormsAreListed == \A f \in ClassForms : ListedRight(f)
BY SafeCommands, SafeDialogs, MisdirectedForms, WorstForms
      DEF ClassForms, ClassCreateDialog, DeleteClassDialog, ClassStammdatenTab,
       ClassStudentsTab, StundentafelTab, ResetStundentafel, ApplyStundentafelDialog,
       GroupOverridesPanel, GroupRuleBuilderTable, GroupRuleRow, ApplyRulesPreviewDialog,
       ClassDetailTabs, Misdirected, Forgetful

(* The forms of students and subjects.                                     *)
LEMMA StudentFormsAreListed == \A f \in StudentForms : ListedRight(f)
BY SafeDialogs, MisdirectedForms, ForgetfulForms
      DEF StudentForms, StudentCreateDialog, StudentStammdatenTab, ArchiveStudentDialog,
       RestoreStudentDialog, DeleteStudentDialog, MoveStudentDialog, ParentSearchPopover,
       StudentParentsTab, InlineCreateParentForm, SubjectFormDialog, DeleteSubjectDialog,
       StudentDetailTabs, Misdirected, Forgetful

(* The forms of teachers.                                                  *)
LEMMA TeacherFormsAreListed == \A f \in TeacherForms : ListedRight(f)
BY SafeDialogs, MisdirectedForms, ForgetfulForms
      DEF TeacherForms, TeacherCreateDialog, StammdatenTab, LehrverpflichtungTab,
       VerfuegbarkeitsGrid, VerfuegbarkeitsMobileList, ErmaessigungenList,
       ArchiveTeacherDialog, DeleteTeacherDialog, KeycloakLinkDialog, KeycloakLinkSection,
       TeacherDetailTabs, Misdirected, Forgetful

(* The forms of users.                                                     *)
LEMMA UserFormsAreListed == \A f \in UserForms : ListedRight(f)
BY SafeCommands, MisdirectedForms, ForgetfulForms, WorstForms, DroppingForms
      DEF UserForms, UserRolesTab, NewOverrideRow, OverrideRow, DisableUserDialog, EnableUserDialog,
       LinkPersonDialog, UnlinkPersonDialog, ReLinkConflictDialog, UserDetailTabs, Misdirected,
       Forgetful

(* The forms of the school and its years.                                  *)
LEMMA SchoolFormsAreListed == \A f \in SchoolForms : ListedRight(f)
BY SafeCommands, SafeDialogs, MisdirectedForms, WorstForms, DroppingForms
      DEF SchoolForms, SchoolDetailsTab, TimeGridTab, ActivateSchoolYearDialog,
       DeleteSchoolYearDialog, CreateSchoolYearDialog, HolidaysList, HolidayRow,
       AutonomousDaysList, AutonomousDayRow, OptionsTab, SchoolSettingsTabs, Misdirected,
       Forgetful

(* The forms of solver tuning and conflicts.                               *)
LEMMA SolverFormsAreListed == \A f \in SolverForms : ListedRight(f)
BY SafeDialogs, MisdirectedForms, ForgetfulForms, DroppingForms
      DEF SolverForms, ConstraintWeightsTab, AddEditClassRestrictionDialog,
       AddEditSubjectPreferredSlotDialog, AddEditSubjectMorningPreferenceDialog,
       ClassRestrictionsTab, SubjectMorningSubTab, SubjectPreferredSlotSubTab,
       RestrictionSwitch, ConflictResolutionDialog, SolverTuningTabs, Misdirected, Forgetful

(* The forms of data protection.                                           *)
LEMMA DataProtectionFormsAreListed == \A f \in DataProtectionForms : ListedRight(f)
BY SafeCommands, SafeDialogs
      DEF DataProtectionForms, RequestDeletionDialog, RequestExportDialog, RetentionEditDialog,
       DsfaEditDialog, VvzEditDialog, RetentionTab, DsfaTable, VvzTable, ConsentsTab

(* The forms of the class book.                                            *)
LEMMA ClassBookFormsAreListed == \A f \in ClassBookForms : ListedRight(f)
BY SafeCommands, SafeDialogs, MisdirectedForms, WorstForms
      DEF ClassBookForms, GradeEntryDialog, EditGrade, DeleteGrade, WeightDisplay, AddNote,
       EditNote, StudentNoteList, ExcuseForm, ExcuseReviewList, Misdirected, Forgetful

(* The forms of homework and exams.                                        *)
LEMMA HomeworkFormsAreListed == \A f \in HomeworkForms : ListedRight(f)
BY SafeDialogs, MisdirectedForms
      DEF HomeworkForms, HomeworkDialog, ExamDialog, EditHomework, EditExam, HomeworkExamList,
       Misdirected

(* The forms of messages.                                                  *)
LEMMA MessagingFormsAreListed == \A f \in MessagingForms : ListedRight(f)
BY SafeCommands, SafeDialogs, MisdirectedForms, WorstForms
      DEF MessagingForms, MessageReplyInput, ComposeDialog, AbsenceQuickAction, PollDisplay,
       NotificationList, Misdirected, Forgetful

(* The forms of substitutions.                                             *)
LEMMA SubstitutionFormsAreListed == \A f \in SubstitutionForms : ListedRight(f)
BY SafeCommands, SafeDialogs, ForgetfulForms
      DEF SubstitutionForms, AbsenceForm, AbsenceList, CandidateList, AssignmentActions,
       SubstituteOfferCard, HandoverNoteEditor, Forgetful

(* The forms of bookings, the history, the calendar and the import.        *)
LEMMA OtherFormsAreListed == \A f \in OtherForms : ListedRight(f)
BY SafeCommands, SafeDialogs, MisdirectedForms, ForgetfulForms
      DEF OtherForms, RoomBookingDialog, CancelBookingDialog, ResourceList, ResourceForm,
       EditHistoryPanel, ICalSettings, ImportWizard, Misdirected, Forgetful

(* No form of the client is missing.                                       *)
LEMMA FormsAreListed == \A f \in Forms : ListedRight(f)
BY ClassFormsAreListed, StudentFormsAreListed, TeacherFormsAreListed, UserFormsAreListed,
   SchoolFormsAreListed, SolverFormsAreListed, DataProtectionFormsAreListed,
   ClassBookFormsAreListed, HomeworkFormsAreListed, MessagingFormsAreListed,
   SubstitutionFormsAreListed, OtherFormsAreListed
   DEF Forms, FormsOfAdmin, FormsOfTheDay

(* Only what the user types is "mine", and a form that was closed or went  *)
(* to another entity has forgotten it, unless it is filled only once; only *)
(* a form that is mounted anew forgets its requests.                       *)
DraftIsOwn ==
    /\ typed => draft.text = "mine" /\ form.draft # "none"
    /\ prompting = "up" => form.lives # "dialog"
    /\ cleared => form.clears
    /\ form.mounts = "always" => mountedAt = 0
    /\ form.seeds # "once" =>
          /\ openFor = Nobody => draft = NoDraft /\ ~ typed
          /\ openFor # Nobody => draft.of = openFor
    /\ form.lone => openFor \in {Nobody, TheOne} /\ draft.of \in {Nobody, TheOne}
    /\ openFor # Nobody \/ draft # NoDraft => draft.of # Nobody

FormInv == FormTypeOK /\ DraftIsOwn

(* What a form shows has its type.                                         *)
ShownIsTyped ==
    /\ openFor \in Entities \cup {Nobody} /\ typed \in BOOLEAN /\ cleared \in BOOLEAN
    /\ draft \in [of : Entities \cup {Nobody}, text : Texts]

(* What a form is filled with.                                             *)
LEMMA FilledIs ==
    ASSUME NEW source \in [Entities -> Texts], NEW e \in Entities
    PROVE  /\ Filled(source, e) \in [of : Entities \cup {Nobody}, text : Texts]
           /\ Filled(source, e).of = e /\ Empty(e).of = e
           /\ Empty(e) \in [of : Entities \cup {Nobody}, text : Texts]
BY DEF Filled, Empty, Texts

(* A draft that is given up or left alone.                                 *)
LEMMA AwayIs ==
    ASSUME FormInv, Away \/ Close \/ UNCHANGED formShown, UNCHANGED <<form, mountedAt>>,
           prompting' = "up" => form.lives # "dialog"
    PROVE  DraftIsOwn' /\ ShownIsTyped'
<1>1. NoDraft \in [of : Entities \cup {Nobody}, text : Texts] /\ NoDraft.of = Nobody
    BY DEF NoDraft, Texts
<1>2. CASE UNCHANGED formShown
    BY <1>2 DEF FormInv, FormTypeOK, DraftIsOwn, ShownIsTyped, TheOne, NoDraft, formShown
<1>3. CASE Close
    BY <1>1, <1>3 DEF FormInv, FormTypeOK, DraftIsOwn, ShownIsTyped, TheOne, Close
<1>4. CASE Away
  <2>1. CASE form.seeds = "once"
      BY <1>4, <2>1 DEF FormInv, FormTypeOK, DraftIsOwn, ShownIsTyped, TheOne, Away
  <2>2. CASE form.seeds # "once"
      BY <1>1, <1>4, <2>2 DEF FormInv, FormTypeOK, DraftIsOwn, ShownIsTyped, TheOne, Away
  <2>3. QED
      BY <2>1, <2>2
<1>5. QED
    BY <1>2, <1>3, <1>4

(* A draft that is emptied or filled anew, for the entity the form is of.  *)
LEMMA RefilledIs ==
    ASSUME FormInv, UNCHANGED <<form, openFor, mountedAt>>, openFor # Nobody, typed' = FALSE,
           draft'.of = openFor, draft' \in [of : Entities \cup {Nobody}, text : Texts],
           cleared' \in BOOLEAN, cleared' => form.clears,
           prompting' = "up" => form.lives # "dialog"
    PROVE  DraftIsOwn' /\ ShownIsTyped'
BY DEF FormInv, FormTypeOK, DraftIsOwn, ShownIsTyped, TheOne, NoDraft

(* The form is opened, or typed into.                                      *)
LEMMA TypingKeepsForm ==
    ASSUME FormInv, Type \/ \E e \in Entities : OpenForm(e)
    PROVE  FormInv'
<1>1. CASE Type
  <2>1. /\ draft' = [of |-> openFor, text |-> "mine"] /\ typed' = TRUE /\ cleared' = FALSE
        /\ openFor # Nobody /\ form.draft # "none"
        /\ UNCHANGED <<form, server, cached, openFor, wire, mountedAt, prompting, submits,
                       others>>
      BY <1>1 DEF Type
  <2>2. /\ draft' \in [of : Entities \cup {Nobody}, text : Texts] /\ draft'.of = openFor
        /\ draft'.text = "mine"
      BY <2>1 DEF FormInv, FormTypeOK, Texts
  <2>3. FormTypeOK'
      BY <2>1, <2>2 DEF FormInv, FormTypeOK, FormRequest
  <2>4. DraftIsOwn'
      BY <2>1, <2>2 DEF FormInv, DraftIsOwn, TheOne
  <2>5. QED
      BY <2>3, <2>4 DEF FormInv
<1>2. ASSUME NEW e \in Entities, OpenForm(e) PROVE FormInv'
  <2>1. /\ openFor' = e /\ openFor = Nobody /\ (form.lone => e = TheOne)
        /\ mountedAt' = IF form.mounts = "anew" THEN submits ELSE mountedAt
        /\ UNCHANGED <<form, server, cached, cleared, wire, prompting, submits, others>>
      BY <1>2 DEF OpenForm
  <2>2. /\ cached \in [Entities -> Texts] /\ e # Nobody
        /\ mountedAt' \in 0 .. MaxSent /\ (form.mounts = "always" => mountedAt' = 0)
      BY <2>1, FormsAssumption DEF FormInv, FormTypeOK, DraftIsOwn
  <2>3. CASE form.seeds = "once" /\ draft # NoDraft
    <3>1. UNCHANGED <<draft, typed>>
        BY <1>2, <2>3 DEF OpenForm
    <3>2. FormTypeOK'
        BY <2>1, <2>2, <3>1 DEF FormInv, FormTypeOK, FormRequest
    <3>3. QED
        BY <2>1, <2>2, <2>3, <3>1, <3>2 DEF FormInv, DraftIsOwn, TheOne
  <2>4. CASE ~ (form.seeds = "once" /\ draft # NoDraft)
    <3>1. draft' = Filled(cached, e) /\ typed' = FALSE
        BY <1>2, <2>4 DEF OpenForm
    <3>2. draft' \in [of : Entities \cup {Nobody}, text : Texts] /\ draft'.of = e
        BY <2>2, <3>1, FilledIs
    <3>3. FormTypeOK'
        BY <2>1, <2>2, <3>1, <3>2 DEF FormInv, FormTypeOK, FormRequest
    <3>4. DraftIsOwn'
        BY <2>1, <2>2, <3>1, <3>2 DEF FormInv, DraftIsOwn, TheOne
    <3>5. QED
        BY <3>3, <3>4 DEF FormInv
  <2>5. QED
      BY <2>3, <2>4
<1>3. QED
    BY <1>1, <1>2

(* What was typed is taken back to what the cache holds.                   *)
LEMMA UndoKeepsForm ==
    ASSUME FormInv, Undo
    PROVE  FormInv'
<1>1. /\ openFor # Nobody /\ draft' = Filled(cached, openFor) /\ typed' = FALSE
      /\ UNCHANGED <<form, server, cached, openFor, cleared, wire, mountedAt, prompting,
                     submits, others>>
    BY DEF Undo
<1>2. openFor \in Entities /\ cached \in [Entities -> Texts]
    BY <1>1 DEF FormInv, FormTypeOK
<1>3. draft'.of = openFor /\ draft' \in [of : Entities \cup {Nobody}, text : Texts]
    BY <1>1, <1>2, FilledIs
<1>4. cleared' \in BOOLEAN /\ (cleared' => form.clears)
      /\ (prompting' = "up" => form.lives # "dialog")
    BY <1>1 DEF FormInv, FormTypeOK, DraftIsOwn
<1>5. QED
    BY <1>1, <1>3, <1>4, RefilledIs DEF FormInv, FormTypeOK, ShownIsTyped, FormRequest

(* The form is left, or the prompt of its page answered.                   *)
LEMMA LeavingKeepsForm ==
    ASSUME FormInv, Cancel \/ LeaveForm \/ Discard \/ Stay \/ SaveAndContinue
    PROVE  FormInv'
<1>1. UNCHANGED <<form, server, cached, wire, mountedAt, submits, others>>
    BY DEF Cancel, LeaveForm, Discard, Stay, SaveAndContinue
<1>2. Away \/ UNCHANGED formShown
    BY DEF Cancel, LeaveForm, Discard, Stay, SaveAndContinue
<1>3. prompting' \in {"no", "up", "saved"} /\ (prompting' = "up" => form.lives # "dialog")
    BY DEF Cancel, LeaveForm, Discard, Stay, SaveAndContinue, FormInv, FormTypeOK, DraftIsOwn
<1>4. DraftIsOwn' /\ ShownIsTyped'
    BY <1>1, <1>2, <1>3, AwayIs
<1>5. QED
    BY <1>1, <1>3, <1>4 DEF FormInv, FormTypeOK, FormRequest, ShownIsTyped

(* What the form shows is sent.                                            *)
LEMMA SubmitKeepsForm ==
    ASSUME FormInv, Submit
    PROVE  FormInv'
<1>1. /\ openFor # Nobody /\ submits < MaxSent /\ submits' = submits + 1
      /\ wire' = wire \cup {[to |-> openFor, text |-> draft.text, part |-> 1, nr |-> submits']}
      /\ UNCHANGED <<form, server, cached, mountedAt, prompting, others>>
    BY DEF Submit
<1>2. /\ openFor \in Entities /\ draft.text \in Texts /\ submits' \in 1 .. MaxSent
      /\ prompting' = "up" => form.lives # "dialog"
    BY <1>1, FormsAssumption DEF FormInv, FormTypeOK, DraftIsOwn
<1>3. wire' \subseteq FormRequest
  <2>1. [to |-> openFor, text |-> draft.text, part |-> 1, nr |-> submits'] \in FormRequest
      BY <1>2 DEF FormRequest
  <2>2. QED
      BY <1>1, <2>1 DEF FormInv, FormTypeOK
<1>4. \/ Away \/ UNCHANGED formShown
      \/ draft' = Empty(openFor) /\ typed' = FALSE /\ UNCHANGED <<openFor, cleared>>
    BY DEF Submit
<1>5. DraftIsOwn' /\ ShownIsTyped'
  <2>1. CASE Away \/ UNCHANGED formShown
      BY <1>1, <1>2, <2>1, AwayIs
  <2>2. CASE draft' = Empty(openFor) /\ typed' = FALSE /\ UNCHANGED <<openFor, cleared>>
    <3>1. draft'.of = openFor /\ draft' \in [of : Entities \cup {Nobody}, text : Texts]
        BY <1>2, <2>2 DEF Empty, Texts
    <3>2. cleared' \in BOOLEAN /\ (cleared' => form.clears)
        BY <2>2 DEF FormInv, FormTypeOK, DraftIsOwn
    <3>3. QED
        BY <1>1, <1>2, <2>2, <3>1, <3>2, RefilledIs
  <2>3. QED
      BY <1>4, <2>1, <2>2
<1>6. QED
    BY <1>1, <1>2, <1>3, <1>5 DEF FormInv, FormTypeOK, ShownIsTyped

(* The answer to its last request empties a tab, or fills it anew.         *)
LEMMA TabFinishedIs ==
    ASSUME FormInv, NEW r \in wire, TabFinished(r), UNCHANGED <<form, mountedAt>>,
           prompting' = "up" => form.lives # "dialog"
    PROVE  DraftIsOwn' /\ ShownIsTyped'
<1>1. /\ openFor' = openFor /\ cleared' = (cleared \/ (form.clears /\ openFor # Nobody))
      /\ cleared \in BOOLEAN /\ (cleared => form.clears)
    BY DEF TabFinished, FormInv, FormTypeOK, DraftIsOwn
<1>2. (cleared' => form.clears) /\ cleared' \in BOOLEAN
    BY <1>1, Zenon
<1>3. CASE UNCHANGED <<draft, typed>>
    BY <1>1, <1>2, <1>3 DEF FormInv, FormTypeOK, DraftIsOwn, ShownIsTyped, TheOne
<1>4. CASE ~ UNCHANGED <<draft, typed>>
  <2>1. /\ openFor = r.to /\ typed' = FALSE
        /\ draft' \in {Filled(cached, openFor), Empty(openFor), draft}
    <3>1. form.empties # "sent" /\ Local(r) /\ openFor = r.to /\ draft.text = r.text
        BY <1>4 DEF TabFinished
    <3>2. /\ typed' = FALSE
          /\ draft' = CASE form.seeds = "clean" -> Filled(cached, openFor)
                        [] form.empties = "accepted" -> Empty(openFor)
                        [] OTHER -> draft
        BY <3>1 DEF TabFinished
    <3>3. QED
        BY <3>1, <3>2
  <2>2. openFor \in Entities /\ openFor # Nobody /\ cached \in [Entities -> Texts]
      BY <2>1, FormsAssumption DEF FormInv, FormTypeOK, FormRequest
  <2>3. CASE draft' # draft
    <3>1. draft'.of = openFor /\ draft' \in [of : Entities \cup {Nobody}, text : Texts]
        BY <2>1, <2>2, <2>3, FilledIs
    <3>2. QED
        BY <1>1, <1>2, <2>1, <2>2, <3>1, RefilledIs
  <2>4. CASE draft' = draft
      BY <1>1, <1>2, <2>1, <2>2, <2>4 DEF FormInv, FormTypeOK, DraftIsOwn, ShownIsTyped, TheOne
  <2>5. QED
      BY <2>3, <2>4
<1>5. QED
    BY <1>3, <1>4

(* The answer: it closes a dialog, or what it says is shown.               *)
LEMMA AnswerKeepsForm ==
    ASSUME FormInv, NEW r \in wire, AcceptForm(r) \/ RefuseForm(r)
    PROVE  FormInv'
<1>1. r \in FormRequest /\ r.to \in Entities /\ r.text \in Texts
    BY DEF FormInv, FormTypeOK, FormRequest
<1>2. UNCHANGED <<form, cached, mountedAt, submits, others>>
    BY DEF AcceptForm, RefuseForm
<1>3. server' \in [Entities -> Texts]
    BY <1>1 DEF AcceptForm, RefuseForm, FormInv, FormTypeOK
<1>4. wire' \subseteq FormRequest
  <2>1. [r EXCEPT !.part = 2] \in FormRequest
      BY <1>1 DEF FormRequest
  <2>2. QED
      BY <2>1 DEF AcceptForm, RefuseForm, FormInv, FormTypeOK
<1>5. /\ prompting' \in {"no", "up", "saved", "affected"}
      /\ prompting' = "up" => form.lives # "dialog"
    BY DEF AcceptForm, RefuseForm, MessageGoes, FormInv, FormTypeOK, DraftIsOwn
<1>6. DraftIsOwn' /\ ShownIsTyped'
  <2>1. CASE AcceptForm(r)
    <3>1. Away \/ Close \/ UNCHANGED formShown \/ TabFinished(r)
        BY <2>1 DEF AcceptForm, DialogFinished
    <3>2. QED
        BY <1>2, <1>5, <3>1, AwayIs, TabFinishedIs
  <2>2. CASE RefuseForm(r)
    <3>1. CASE Close \/ UNCHANGED formShown
        BY <1>2, <1>5, <3>1, AwayIs
    <3>2. CASE ~ (Close \/ UNCHANGED formShown)
      <4>1. /\ openFor # Nobody /\ draft' = Filled(cached, openFor) /\ typed' = FALSE
            /\ UNCHANGED <<openFor, cleared>>
          BY <2>2, <3>2 DEF RefuseForm
      <4>2. /\ openFor \in Entities /\ cached \in [Entities -> Texts]
            /\ cleared' \in BOOLEAN /\ (cleared' => form.clears)
          BY <4>1 DEF FormInv, FormTypeOK, DraftIsOwn
      <4>3. draft'.of = openFor /\ draft' \in [of : Entities \cup {Nobody}, text : Texts]
          BY <4>1, <4>2, FilledIs
      <4>4. QED
          BY <1>2, <1>5, <4>1, <4>2, <4>3, RefilledIs
    <3>3. QED
        BY <3>1, <3>2
  <2>3. QED
      BY <2>1, <2>2
<1>7. QED
    BY <1>2, <1>3, <1>4, <1>5, <1>6 DEF FormInv, FormTypeOK, ShownIsTyped

(* The cache is refreshed, and other users write.                          *)
LEMMA RefreshKeepsForm ==
    ASSUME FormInv, RefetchForm \/ \E e \in Entities : OtherWrites(e)
    PROVE  FormInv'
<1>1. CASE RefetchForm
  <2>1. /\ UNCHANGED <<form, server, openFor, wire, mountedAt, prompting, submits, others>>
        /\ cached' = server /\ cleared' = FALSE
      BY <1>1 DEF RefetchForm
  <2>2. prompting' = "up" => form.lives # "dialog"
      BY <2>1 DEF FormInv, DraftIsOwn
  <2>3. CASE UNCHANGED <<draft, typed>>
      BY <2>1, <2>3 DEF FormInv, FormTypeOK, FormRequest, DraftIsOwn, TheOne
  <2>4. CASE ~ UNCHANGED <<draft, typed>>
    <3>1. /\ openFor # Nobody /\ typed' = FALSE
          /\ draft' \in {Filled(cached, openFor), Filled(server, openFor)}
        BY <1>1, <2>4 DEF RefetchForm, Refills
    <3>2. openFor \in Entities /\ cached \in [Entities -> Texts] /\ server \in [Entities -> Texts]
        BY <3>1 DEF FormInv, FormTypeOK
    <3>3. draft'.of = openFor /\ draft' \in [of : Entities \cup {Nobody}, text : Texts]
        BY <3>1, <3>2, FilledIs
    <3>4. DraftIsOwn' /\ ShownIsTyped'
        BY <2>1, <2>2, <3>1, <3>3, RefilledIs
    <3>5. QED
        BY <2>1, <3>4 DEF FormInv, FormTypeOK, FormRequest, ShownIsTyped
  <2>5. QED
      BY <2>3, <2>4
<1>2. ASSUME NEW e \in Entities, OtherWrites(e) PROVE FormInv'
  <2>1. /\ others < MaxOthers /\ others' = others + 1 /\ server' = [server EXCEPT ![e] = "theirs"]
        /\ UNCHANGED <<form, cached, formShown, wire, mountedAt, prompting, submits>>
      BY <1>2 DEF OtherWrites
  <2>2. others' \in 0 .. MaxOthers
      BY <2>1, FormsAssumption DEF FormInv, FormTypeOK
  <2>3. server' \in [Entities -> Texts]
      BY <2>1 DEF FormInv, FormTypeOK, Texts
  <2>4. QED
      BY <2>1, <2>2, <2>3 DEF FormInv, FormTypeOK, FormRequest, DraftIsOwn, TheOne, formShown
<1>3. QED
    BY <1>1, <1>2

(* In every state of a form its draft is its own.                          *)
LEMMA FormInvHolds == FormSpec => []FormInv
<1>1. FormInit => FormInv
  <2>1. ASSUME FormInit PROVE FormTypeOK
    <3>1. NoDraft \in [of : Entities \cup {Nobody}, text : Texts]
        BY DEF NoDraft, Texts
    <3>2. server \in [Entities -> Texts] /\ cached \in [Entities -> Texts]
        BY <2>1 DEF FormInit, Texts
    <3>3. submits \in 0 .. MaxSent /\ others \in 0 .. MaxOthers /\ mountedAt \in 0 .. MaxSent
        BY <2>1, FormsAssumption DEF FormInit
    <3>4. form \in Forms /\ openFor = Nobody /\ draft = NoDraft /\ typed = FALSE
          /\ cleared = FALSE /\ wire = {} /\ prompting = "no"
        BY <2>1 DEF FormInit
    <3>5. QED
        BY <3>1, <3>2, <3>3, <3>4 DEF FormTypeOK
  <2>2. ASSUME FormInit PROVE DraftIsOwn
      BY <2>2 DEF FormInit, DraftIsOwn, NoDraft
  <2>3. QED
      BY <2>1, <2>2 DEF FormInv
<1>2. FormInv /\ [FormNext]_formVars => FormInv'
  <2>1. ASSUME FormInv, UNCHANGED formVars PROVE FormInv'
      BY <2>1 DEF formVars, FormInv, FormTypeOK, DraftIsOwn, FormRequest, TheOne
  <2>2. QED
      BY <2>1, TypingKeepsForm, UndoKeepsForm, LeavingKeepsForm, SubmitKeepsForm,
         AnswerKeepsForm, RefreshKeepsForm
      DEF FormNext
<1>3. QED
    BY <1>1, <1>2, PTL DEF FormSpec

(* The state of a form has its type.                                       *)
THEOREM FormIsTyped == FormSpec => []FormTypeOK
<1>1. FormInv => FormTypeOK
    BY DEF FormInv
<1>2. QED
    BY <1>1, FormInvHolds, PTL

(* What was typed into a form that keeps its draft goes when its user      *)
(* gives it up, or with the answer to an accepted request.                 *)
LEMMA KeptDraft ==
    ASSUME FormInv, FormNext, typed, draft'.text # "mine", KeepsDraft(form)
    PROVE  GivenUp \/ \E r \in wire : AcceptForm(r)
<1>1. /\ draft.text = "mine" /\ form.draft # "none" /\ (cleared => form.clears)
      /\ prompting = "up" => form.lives # "dialog"
    BY DEF FormInv, DraftIsOwn
<1>2. /\ form.seeds # "follows" /\ form.seeds # "lists" /\ ~ form.clears
      /\ form.empties # "sent" /\ form.empties # "answered"
      /\ form.refusal # "closes" /\ form.refusal # "resets"
      /\ form.seeds = "once" \/ form.prompt = "stays" \/ form.lives = "dialog"
    BY <1>1 DEF KeepsDraft
<1>3. draft' # draft /\ Dirty /\ ~ cleared
    BY <1>1, <1>2 DEF Dirty
<1>4. ASSUME NEW e \in Entities, OpenForm(e) PROVE FALSE
  <2>1. openFor = Nobody
      BY <1>4 DEF OpenForm
  <2>2. form.seeds = "once" /\ draft # NoDraft
      BY <1>1, <2>1 DEF FormInv, DraftIsOwn, NoDraft
  <2>3. QED
      BY <1>3, <1>4, <2>2 DEF OpenForm
<1>5. ~ Type
    BY DEF Type
<1>6. ~ LeaveForm
    BY <1>2, <1>3 DEF LeaveForm, Asks, Away, formShown
<1>7. ~ Stay /\ ~ SaveAndContinue
    BY <1>1, <1>2, <1>3 DEF Stay, SaveAndContinue, Away, formShown
<1>8. ~ Submit
    BY <1>2, <1>3 DEF Submit, formShown
<1>9. ASSUME NEW r \in wire PROVE ~ RefuseForm(r)
    BY <1>2, <1>3 DEF RefuseForm, formShown
<1>10. ~ RefetchForm
    BY <1>2, <1>3 DEF RefetchForm, Refills
<1>11. ASSUME NEW e \in Entities PROVE ~ OtherWrites(e)
    BY <1>3 DEF OtherWrites, formShown
<1>12. QED
    BY <1>4, <1>5, <1>6, <1>7, <1>8, <1>9, <1>10, <1>11 DEF FormNext, GivenUp

(* A request of a form that sends its own carries what was typed for the   *)
(* entity it goes to, and goes alone.                                      *)
LEMMA OwnRequest ==
    ASSUME FormInv, FormNext, submits' # submits, SendsItsOwn(form)
    PROVE  ItsOwn
<1>1. Submit
    BY DEF FormNext, OpenForm, OtherWrites, Type, Undo, Cancel, LeaveForm, Discard, Stay,
       SaveAndContinue, AcceptForm, RefuseForm, RefetchForm
<1>2. wire = {} /\ openFor # Nobody
  <2>1. mountedAt = 0 /\ \A r \in wire : r.nr > 0
      BY DEF FormInv, FormTypeOK, DraftIsOwn, SendsItsOwn, FormRequest
  <2>2. InFlight = {} /\ openFor # Nobody
      BY <1>1 DEF Submit, Busy, SendsItsOwn
  <2>3. QED
      BY <2>1, <2>2 DEF InFlight
<1>3. CASE form.seeds # "once"
    BY <1>2, <1>3 DEF FormInv, DraftIsOwn, ItsOwn
<1>4. CASE form.lone
    BY <1>2, <1>4 DEF FormInv, DraftIsOwn, ItsOwn
<1>5. QED
    BY <1>3, <1>4 DEF SendsItsOwn

(* What the user of any form has typed disappears only when the user gives *)
(* it up, or with the answer to an accepted request; and a request carries *)
(* what was typed for the entity it is sent to, while no other one for it  *)
(* is on its way: for every dialog, tab and button of the web client that  *)
(* is not listed by name as doing otherwise.                               *)
THEOREM DraftsStaySafe == FormSpec => DraftsAreSafe
<1>1. ASSUME FormInv, [FormNext]_formVars
      PROVE  [/\ Forgets => GivenUp \/ \E r \in wire : AcceptForm(r)
              /\ Sends => ItsOwn]_formVars
  <2>1. SUFFICES ASSUME FormNext
                 PROVE  /\ Forgets => GivenUp \/ \E r \in wire : AcceptForm(r)
                        /\ Sends => ItsOwn
      BY <1>1
  <2>2. ListedRight(form)
      BY <1>1, FormsAreListed DEF FormInv, FormTypeOK
  <2>3. ASSUME Forgets PROVE GivenUp \/ \E r \in wire : AcceptForm(r)
      BY <1>1, <2>1, <2>2, <2>3, KeptDraft DEF Forgets, ListedRight
  <2>4. ASSUME Sends PROVE ItsOwn
      BY <1>1, <2>1, <2>2, <2>4, OwnRequest DEF Sends, ListedRight
  <2>5. QED
      BY <2>3, <2>4
<1>2. QED
    BY <1>1, FormInvHolds, PTL DEF FormSpec, DraftsAreSafe

-----------------------------------------------------------------------------
(* The lesson content form.                                                *)
(* A field takes the focus, is changed, and is left.                       *)
LEMMA WritingKeepsContent ==
    ASSUME ContentTypeOK, Change \/ handleBlurSave \/ \E f \in Fields : FocusField(f)
    PROVE  ContentTypeOK'
<1>1. CASE Change
  <2>1. focus \in Fields /\ shownText[focus] + 1 \in 0 .. MaxChanges
      BY <1>1, ContentAssumption DEF Change, ContentTypeOK
  <2>2. shownText' \in [Fields -> 0 .. MaxChanges]
      BY <1>1, <2>1 DEF Change, ContentTypeOK
  <2>3. QED
      BY <1>1, <2>2 DEF Change, ContentTypeOK
<1>2. CASE handleBlurSave
  <2>1. debounce' \in Timer
      BY <1>2 DEF handleBlurSave, ContentTypeOK, Timer
  <2>2. QED
      BY <1>2, <2>1 DEF handleBlurSave, ContentTypeOK
<1>3. CASE \E f \in Fields : FocusField(f)
    BY <1>3 DEF FocusField, ContentTypeOK
<1>4. QED
    BY <1>1, <1>2, <1>3

(* The timer runs out, its request is answered, and the form goes away.    *)
LEMMA SavingKeepsContent ==
    ASSUME ContentTypeOK,
           SecondPassed \/ Unmount \/ \E p \in patches : PatchServed(p) \/ PatchRefused(p)
    PROVE  ContentTypeOK'
<1>1. CASE SecondPassed
    BY <1>1 DEF SecondPassed, ContentTypeOK
<1>2. CASE Unmount
    BY <1>2 DEF Unmount, ContentTypeOK
<1>3. ASSUME NEW p \in patches, PatchServed(p) PROVE ContentTypeOK'
  <2>1. p.field \in Fields /\ p.value \in 0 .. MaxChanges
      BY DEF ContentTypeOK, Timer
  <2>2. storedText' \in [Fields -> 0 .. MaxChanges]
      BY <1>3, <2>1 DEF PatchServed, ContentTypeOK
  <2>3. QED
      BY <1>3, <2>2 DEF PatchServed, ContentTypeOK
<1>4. ASSUME NEW p \in patches, PatchRefused(p) PROVE ContentTypeOK'
    BY <1>4 DEF PatchRefused, ContentTypeOK
<1>5. QED
    BY <1>1, <1>2, <1>3, <1>4

(* What the form shows and the server has are its fields' texts, and every *)
(* timer and request carries one of them.                                  *)
THEOREM ContentIsTyped == ContentSpec => []ContentTypeOK
<1>1. ContentInit => ContentTypeOK
  <2>1. ASSUME ContentInit PROVE shownText \in [Fields -> 0 .. MaxChanges]
      BY <2>1, ContentAssumption DEF ContentInit
  <2>2. QED
      BY <2>1 DEF ContentInit, ContentTypeOK
<1>2. ContentTypeOK /\ [ContentNext]_contentVars => ContentTypeOK'
  <2>1. ASSUME ContentTypeOK, UNCHANGED contentVars PROVE ContentTypeOK'
      BY <2>1 DEF contentVars, ContentTypeOK
  <2>2. QED
      BY <2>1, WritingKeepsContent, SavingKeepsContent DEF ContentNext
<1>3. QED
    BY <1>1, <1>2, PTL DEF ContentSpec

-----------------------------------------------------------------------------
(* All of it together.                                                     *)
(* Every step of the run moves one component, and the others stutter: each *)
(* behaviour of the school day is one of every component.                  *)
LEMMA DayRunsComponents ==
    Spec => ClassBookSpec /\ MessagingSpec /\ CacheSpec /\ FormSpec /\ ContentSpec
<1>1. Init => ClassBookInit /\ MessagingInit /\ CacheInit /\ FormInit /\ ContentInit
    BY DEF Init
<1>2. [Next]_<<moving, classBookVars, messagingVars, cacheVars, formVars, contentVars>>
      => /\ [ClassBookNext]_classBookVars /\ [MessagingNext]_messagingVars
         /\ [CacheNext]_cacheVars /\ [FormNext]_formVars /\ [ContentNext]_contentVars
    BY DEF Next
<1>3. QED
    BY <1>1, <1>2, PTL
    DEF Spec, ClassBookSpec, MessagingSpec, CacheSpec, FormSpec, ContentSpec

(* One of the five components moves.                                       *)
OneMoves == moving \in {"class book", "messaging", "cache", "forms", "content"}

(* It is always the same one.                                              *)
LEMMA OneAlwaysMoves == Spec => []OneMoves
<1>1. Init => OneMoves
    BY DEF Init, OneMoves
<1>2. OneMoves /\ [Next]_<<moving, classBookVars, messagingVars, cacheVars, formVars, contentVars>>
      => OneMoves'
    BY DEF Next, OneMoves
<1>3. QED
    BY <1>1, <1>2, PTL DEF Spec

(* The state of the school day has its type, whichever component moves.    *)
THEOREM SchoolDayIsTyped == Spec => []TypeOK
<1>1. /\ OneMoves /\ ClassBookTypeOK /\ MessagingTypeOK /\ CacheTypeOK /\ FormTypeOK
      /\ ContentTypeOK
      => TypeOK
    BY DEF TypeOK, OneMoves
<1>2. QED
    BY <1>1, OneAlwaysMoves, DayRunsComponents, ClassBookIsTyped, MessagingIsTyped,
       CacheIsTyped, FormIsTyped, ContentIsTyped, PTL
=============================================================================
